CONSTANTS
  Inodes <- MCInodes
  Indices <- MCIndex1
  Workers <- MCWorkers2
  QueueCap = 2
  SegmentSize = 2
  ReadErrors = TRUE
  StageCap = 1
  CacheCap = 1
  MaxCrashes = 2
  MaxShutdowns = 2
  InitCanFail = FALSE
  DiskFaults = TRUE

SPECIFICATION Spec

INVARIANT TypeOK
INVARIANT NoStagedBlockLost
INVARIANT CacheFilesTracked
