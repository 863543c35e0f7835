\* Five sizes, with and without option -a; memory runs out twice.
CONSTANTS
  Null = Null
  Items <- MCItems
  Hash <- MCHash
  Half = 8
  InitialCapacity = 2
  Names <- MCNames
  InodeOf <- MCInodeOf
  SizeOf <- MCSizeOf
  Calls <- MCCalls
  MaxShortages = 2
SPECIFICATION Spec
INVARIANTS TypeOK GroupsFound NothingLost ProbesEnd ComparedOnce ReportDescends
  NamesKept HardLinksReported
CHECK_DEADLOCK FALSE
