\* Two samerm, three lines and one; every call may fail.
CONSTANTS
  p1 = p1
  p2 = p2
  a = a
  b = b
  c = c
  d = d
  X = X
  Y = Y
  Absent = Absent
  Garbled = Garbled
  Procs = {p1, p2}
  Names = {a, b, c, d}
  Slashless = {c}
  Inodes = {1, 2, 3}
  Small = {}
  Rank <- MCRank
  InitEntry <- MCInitEntry
  Content <- MCContent
  MTime <- MCMTime
  Lines <- MCLines
  Slot <- MCSlot
  OptionSets <- MCOptionSets
  Fallible = {"open", "unlink", "leaf"}
  MaxLines <- MCMaxLines
SPECIFICATION Spec
INVARIANTS TypeOK OneCopyKept LinesAccounted ConsumedIsRemoved
PROPERTY RemovesDuplicates
CHECK_DEADLOCK FALSE
