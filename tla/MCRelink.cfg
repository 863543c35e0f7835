\* Two sameln -s with opposite orders, every system call but the backup's link
\* may fail, one kill.
CONSTANTS
  p1 = p1
  p2 = p2
  a = a
  b = b
  c = c
  d = d
  aBackup = aBackup
  bBackup = bBackup
  cBackup = cBackup
  dBackup = dBackup
  X = X
  Y = Y
  dev1 = dev1
  dev2 = dev2
  Absent = Absent
  Procs = {p1, p2}
  Paths = {a, b, c, d}
  Data = {X, Y}
  BackupOf <- MCBackupOf
  Dev <- MCDev
  Inodes <- MCInodes
  Lines <- MCLines
  InitEntry <- MCInitEntry
  InitContent <- MCInitContent
  Symlink = TRUE
  Fallible = {"remove", "link", "restore", "delete"}
  MaxLines <- MCMaxLines
  MaxCrashes = 1
SPECIFICATION FairSpec
INVARIANTS TypeOK NameOrBackup ContentKept NoDanglingLink
PROPERTIES OutcomeTellsState LinesEnd
CHECK_DEADLOCK FALSE
