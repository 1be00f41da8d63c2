SPECIFICATION Spec
CONSTANTS
  VolumeCount = 1
  MountCount <- OneVolume
INVARIANTS
  OnlyNamedDiskTouched
CHECK_DEADLOCK FALSE
