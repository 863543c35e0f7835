\* What the manual says samedelay is for, with the manual's
\* command line.
CONSTANTS
  a = a
  b = b
  c = c
  d = d
  p = p
  q = q
  a0 = a0
  b0 = b0
  c0 = c0
  d0 = d0
  p0 = p0
  q0 = q0
  dir = dir
  sub = sub
  schg = schg
  uappnd = uappnd
  w = w
  x = x
  own = own
  other = other
  Names = {a, b, c, d, p, q}
  BackupOf <- MCBackupOf
  Inodes = {1, 2, 3, 4, 5, 6}
  Data = {"x", "y"}
  InitEntry <- MCInitEntry
  InitContent <- MCContent
  Size <- MCSize
  Dirs = {dir, sub}
  DirOf <- MCDirOf
  NoDir = NoDir
  Flags = {schg, uappnd}
  Modes = {w, x}
  Ids = {own, other}
  Immutable = schg
  InitAttrs <- MCImmutable
  OptionSets <- MCManual
  Reports <- MCReports
  MinSize = 10
  MaxSize = 100
  InitCapacity = 1
  Ln = Ln
  Garbled = Garbled
  Absent = Absent
SPECIFICATION Spec
INVARIANT NeverPrevented
CHECK_DEADLOCK FALSE
