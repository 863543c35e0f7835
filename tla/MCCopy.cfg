\* Eight sources, every call may fail, and samecp is started a second time.
CONSTANTS
  a = a
  b = b
  X = X
  Y = Y
  Slash = Slash
  Letters = {a, b, Slash}
  Sources <- MCSources
  Argument <- MCArgument
  Length = 2
  Absolutes = {FALSE, TRUE}
  Pages = {X, Y}
  Content <- MCContent
  Existing <- MCExisting
  Fresh <- MCFresh
  Symlinks = {TRUE, FALSE}
  Fallible = {"mkdir", "create", "open", "write", "short"}
  MaxLines = 3
  MaxRuns = 1
SPECIFICATION FairSpec
INVARIANTS TypeOK ExistingKept CopiedAndKept
PROPERTY LinesEnd
CHECK_DEADLOCK FALSE
