\* Four files of two pages, any of the three programs, two sizes of the
\* matrix; in every group of samefile up to two calls fail.
CONSTANTS
  X = X
  Y = Y
  r1 = r1
  r2 = r2
  Stale = Stale
  n = 4
  Pages = 2
  Values = {X, Y}
  RelPaths = {r1, r2}
  Programs = {"samefile", "samefile -x", "samearchive"}
  Capacities = {4, 5}
  Slack = 1
  Fallible = {"open", "nofile", "read", "memory"}
  MaxFaults <- MCMaxFaults
SPECIFICATION Spec
SYMMETRY Symmetry
INVARIANTS
  TypeOK CountsDifferences ReportedAreAlike OneOfEachLeft
  FullListComplete WasteIsCounted
  DifferentIsTrue DescriptorsClosed NeverReadsStdin
CHECK_DEADLOCK FALSE
