CONSTANTS
  Inodes <- MCInodes
  Indices <- MCIndex1
  Workers <- MCWorkers2
  QueueCap = 2
  SegmentSize = 2
  ReadErrors = FALSE
  StageCap = 1
  CacheCap = 1
  MaxCrashes = 0
  MaxShutdowns = 0
  DiskFaults = FALSE
  InitCanFail = TRUE

SPECIFICATION Spec

INVARIANT InitOkMeansInitialized
