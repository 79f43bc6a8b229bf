CONSTANTS
  w1 = w1
  w2 = w2
  Inodes <- MCInodes
  Indices <- MCIndicesLive
  Workers <- MCWorkers
  QueueCap = 2
  SegmentSize = 2
  ReadErrors = TRUE

SPECIFICATION Spec

INVARIANT WaitAllUploadedMeansDurable
