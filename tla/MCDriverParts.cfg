SPECIFICATION PartsSpec
CONSTANTS
  Adapters = {a1, a2, a3}
  Times = {1, 2, 5}
  MaxIssued = 3
  ClockLaterAfterReload = TRUE
  DiskBlocks = 5
  SectorSize = 2
  MaxTransfer = 8
  ByteRange = 4
  UShortRange = 6
  Lba6Range = 7
  ULongRange = 11
  ULongLongRange = 22
  Data = {"d1", "d2"}
  Blank = "d1"
INVARIANTS
  MemoryIsADisk
  ServedIffLegal
PROPERTIES
  NeverReissued
  InitializeEnds
\* The identities handed out are bounded.
CHECK_DEADLOCK FALSE
