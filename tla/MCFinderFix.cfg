\* Fix meets items that were stored past the end of the table.
CONSTANTS
  Null = Null
  Items <- MCItems
  Hash <- MCHash
  Half = 8
  InitialCapacity = 2
  Names <- MCNames
  InodeOf <- MCInodeOf
  SizeOf <- MCSizeOf
  Calls <- MCCalls
  MaxShortages = 2
SPECIFICATION Spec
INVARIANT GroupsFoundAlways
CHECK_DEADLOCK FALSE
