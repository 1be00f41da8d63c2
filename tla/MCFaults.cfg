SPECIFICATION Spec
CONSTANTS
  MaximumDiskCount = 1
  Sizes = {1}
  MediaKinds = {1}
  MaximumTotalBytes = 1
  DeviceIdModulus = 3
  OperationIdModulus = 4
  Blocks = {b1}
  NoBlock = nullptr
  IoThreads = {}
  MaximumOperationCount = 2
  Srbs = {c1}
  NoSrb = nosrb
  FaultModes = {"FailResponseTransport", "RejectOperation"}
  MaximumFaultCount = 1
  LegacyRequests = TRUE
  MaxAdapterInstance = 1
SYMMETRY Symmetry
INVARIANTS
  AnnouncedWhenIdle
  ReplyMatchesOutcome
\* An adapter that has been removed does nothing more.
CHECK_DEADLOCK FALSE
