SPECIFICATION FairSpec
CONSTANTS
  Handles = {1, 2, 3}
  NoHandle = nohandle
  MaxInstance = 2
  MaxRetries = 2
INVARIANTS
  DeleteIsSafe
  NothingLeftBehind
PROPERTIES
  TellsTheTruth
  Resolves
\* The call has returned.
CHECK_DEADLOCK FALSE
