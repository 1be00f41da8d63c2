SPECIFICATION Spec
CONSTANTS
  MaxRetries = 0
INVARIANTS
  FormatsOnlyOwnVolume
CHECK_DEADLOCK FALSE
