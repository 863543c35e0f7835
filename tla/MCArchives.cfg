\* Three archives, one of them named twice, and up to four names.
CONSTANTS
  Names <- MCNames
  Inodes <- MCInodes
  InodeOf <- MCInodeOf
  Regular <- MCRegular
  Size <- MCSize
  Contents = {"u", "v"}
  InitContents <- MCInitContents
  Shared <- MCShared
  Arguments <- MCArguments
  Stripped <- MCStripped
  Begins <- MCBegins
  Moved <- MCMoved
  MinSize = 0
  MaxSize = 1000
  Slots = {0, 1}
  Slot <- MCSlot
  Readable = FALSE
  Absent = Absent
  Inputs <- MCInputs
  EntryOf <- MCEntryOf
  Half = 128
  Located <- MCLocated
SPECIFICATION ArchivesSpec
INVARIANTS ArchivesTypeOK ReportedWereAlike ReportComplete ReportSorted
CHECK_DEADLOCK FALSE
