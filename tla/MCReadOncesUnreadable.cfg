\* Three files, one of which cannot be opened.
CONSTANTS
  X = X
  Y = Y
  r1 = r1
  r2 = r2
  Stale = Stale
  n = 3
  Pages = 2
  Values = {X, Y}
  RelPaths = {r1}
  Programs = {"samefile"}
  Capacities = {4}
  Slack = 1
  Fallible = {"open"}
  MaxFaults <- MCMaxFaults
SPECIFICATION Spec
INVARIANT ReportedAreAlikeAlways
CHECK_DEADLOCK FALSE
