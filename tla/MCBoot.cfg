SPECIFICATION BootSpec
CONSTANTS
  Cylinders = 1024
  Heads = 2
  SectorsPerTrack = 3
  Lbas <- Carries
  stage2_location <- Split
  Bdbs <- Geometries
  ScanCodes <- Keys
  Images <- Small
  FilePages = 44
  BiosRegions = 4
  MAX_REGIONS = 256
  Memory <- MemoryPages
INVARIANTS Stage2WholeOrReadsFailed OnlyA20Changes ReadsTheSector GivesUpAfterThree
  KernelWhole PartitionIsTheEntry RegionsAreTheFirst
PROPERTIES BootEnds
CHECK_DEADLOCK FALSE
