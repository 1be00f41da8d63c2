SPECIFICATION Spec
CONSTANTS
  MaximumDiskCount = 1
  Sizes = {1}
  MediaKinds = {1, 2}
  MaximumTotalBytes = 1
  DeviceIdModulus = 3
  OperationIdModulus = 5
  Blocks = {b1, b2}
  NoBlock = nullptr
  IoThreads = {}
  MaximumOperationCount = 3
  Srbs = {c1}
  NoSrb = nosrb
  FaultModes = {}
  MaximumFaultCount = 0
  LegacyRequests = FALSE
  MaxAdapterInstance = 2
SYMMETRY Symmetry
INVARIANTS
  TypeOK
  OperationLunConsistency
  DeletedMeansGone
  ReservationAlwaysPossible
PROPERTIES
  ImplementsContract
\* The last adapter the bound allows has been removed.
CHECK_DEADLOCK FALSE
