\* Two files, the second name shorter than the first; no call fails.
CONSTANTS
  a = a
  b = b
  X = X
  Y = Y
  Slash = Slash
  Letters = {a, b, Slash}
  Sources <- MCTwo
  Argument <- MCArgument
  Length = 2
  Absolutes = {FALSE}
  Pages = {X, Y}
  Content <- MCContent
  Existing <- NoFiles
  Fresh <- MCNoTail
  Symlinks = {FALSE}
  Fallible = {}
  MaxLines = 2
  MaxRuns = 0
SPECIFICATION Spec
INVARIANT ConsumedIsCopied
CHECK_DEADLOCK FALSE
