SPECIFICATION StoreSpec
CONSTANTS
  MaximumDiskCount = 2
  Sizes = {1, 2}
  MediaKinds = {1}
  MaximumTotalBytes = 3
  DeviceIdModulus = 4
  OperationIdModulus = 2
  Blocks = {b1, b2, b3}
  NoBlock = nullptr
  IoThreads = {i1, i2}
SYMMETRY Symmetry
INVARIANTS
  StoreTypeOK
  LeaseSafety
  LeaseCount
  PoolOwnership
  DataIsolation
  DeviceIdsUnique
  QuotaRespected
CHECK_DEADLOCK TRUE
