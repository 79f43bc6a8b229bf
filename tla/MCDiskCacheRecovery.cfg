CONSTANTS
  Inodes <- MCInodes
  Indices <- MCIndex1
  Workers <- MCWorkers2
  QueueCap = 2
  SegmentSize = 2
  ReadErrors = FALSE
  StageCap = 2
  CacheCap = 2
  MaxCrashes = 2
  MaxShutdowns = 0
  InitCanFail = FALSE
  DiskFaults = FALSE

SPECIFICATION SpecLive

PROPERTY StageFilesRetired
PROPERTY BlocksLeavePipeline
PROPERTY FlushReturns
