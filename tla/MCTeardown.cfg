SPECIFICATION Spec
CONSTANTS
  MaximumDiskCount = 2
  Sizes = {1}
  MediaKinds = {1}
  MaximumTotalBytes = 2
  DeviceIdModulus = 3
  OperationIdModulus = 3
  Blocks = {b1, b2}
  NoBlock = nullptr
  IoThreads = {i1}
  MaximumOperationCount = 1
  Srbs = {c1, c2}
  NoSrb = nosrb
  FaultModes = {}
  MaximumFaultCount = 0
  LegacyRequests = TRUE
  MaxAdapterInstance = 2
SYMMETRY Symmetry
INVARIANTS
  FinalAccess
  HandlesStayWithInstance
PROPERTIES
  StoreSpec
\* The last adapter the bound allows has been removed.
CHECK_DEADLOCK FALSE
