SPECIFICATION FairSpec
CONSTANTS
  MaxRetries = 2
  VolumeCount = 2
  MountCount <- TwoVolumes
  Interfaces = {1, 2, 3}
  AtLocation = {1, 2}
  Number <- ThreeDisks
  MaxCallbacks = 2
  Installers = {"p1", "p2", "p3"}
  Ports = 3
  MaxCorrelation = 4
  MaxEvents = 4
  LineLimit = 2
  SectorSize = 2
  MinDiskSize = 16
  MinFat32DiskSize = 32
  MaxDiskSize = 64
  DriverMinimum = 1
  DriverMaximum = 64
  MaxWord = 1023
  Kilo = 3
  Kibi = 4
  Sizes <- BoundarySizes
  MaxArguments = 5
  MaxValues = 2
INVARIANTS
  AddIsHonest
  DeleteIsCareful
  SearchIsSound
  InstallCleansUp
  ExchangeIsSound
  LogIsAccountable
  LineIsUnderstood
PROPERTIES
  
  DeleteOrder
  CallsEnd
\* A process of the CLI exits.
CHECK_DEADLOCK FALSE
