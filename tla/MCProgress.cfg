SPECIFICATION FairSpec
CONSTANTS
  MaximumDiskCount = 1
  Sizes = {1}
  MediaKinds = {1}
  MaximumTotalBytes = 1
  DeviceIdModulus = 3
  OperationIdModulus = 2
  Blocks = {b1}
  NoBlock = nullptr
  IoThreads = {i1}
  MaximumOperationCount = 1
  Srbs = {c1}
  NoSrb = nosrb
  FaultModes = {}
  MaximumFaultCount = 0
  LegacyRequests = TRUE
  MaxAdapterInstance = 1
PROPERTIES
  BusyClears
  AcceptedCompletes
  TeardownFinishes
\* An adapter that has been removed does nothing more.
CHECK_DEADLOCK FALSE
