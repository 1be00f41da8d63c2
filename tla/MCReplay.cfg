SPECIFICATION Spec
CONSTANTS
  MaximumDiskCount = 1
  Sizes = {1}
  MediaKinds = {1}
  MaximumTotalBytes = 1
  DeviceIdModulus = 3
  OperationIdModulus = 3
  Blocks = {b1}
  NoBlock = nullptr
  IoThreads = {i1}
  MaximumOperationCount = 2
  Srbs = {c1}
  NoSrb = nosrb
  FaultModes = {}
  MaximumFaultCount = 0
  LegacyRequests = FALSE
  MaxAdapterInstance = 1
INVARIANTS
  ReplayReturnsState
CHECK_DEADLOCK FALSE
