SPECIFICATION FairSpec
CONSTANTS
  Images <- Large
  FilePages = 46
  BiosRegions = 4
  MAX_REGIONS = 256
  Memory <- MemoryPages
INVARIANTS KernelWhole
CHECK_DEADLOCK FALSE
