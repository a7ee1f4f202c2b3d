SPECIFICATION FairSpec
CHECK_DEADLOCK FALSE
CONSTANTS
  SECTOR_SIZE = 512
  FAT_CACHE_SIZE = 5
  MAX_FILE_HANDLES = 10
  SectorsPerCluster = 1
  TotalSectors = 2880
  FAT12_CLUSTERS = 4085
  StackCharacters = {"NUL", "x", "."}
  Volumes <- Floppy
  Counts = {512}
  MaxHeld = 1
  MaxPosition = 1024
INVARIANTS BufferIsCurrent
