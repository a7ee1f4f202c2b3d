SPECIFICATION FairSpec
CHECK_DEADLOCK FALSE
CONSTANTS
  SECTOR_SIZE = 64
  FAT_CACHE_SIZE = 2
  MAX_FILE_HANDLES = 2
  SectorsPerCluster = 2
  TotalSectors = 400
  FAT12_CLUSTERS = 150
  StackCharacters = {"NUL", "x", "."}
  Volumes <- Root
  Counts = {100}
  MaxHeld = 1
  MaxPosition = 384
PROPERTIES ImplementsFileStore
