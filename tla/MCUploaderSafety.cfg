CONSTANTS
  w1 = w1
  w2 = w2
  Inodes <- MCInodes
  Indices <- MCIndices
  Workers <- MCWorkers
  QueueCap = 2
  SegmentSize = 2
  ReadErrors = TRUE

SPECIFICATION SpecWithShutdown

SYMMETRY MCWorkerSymmetry

CHECK_DEADLOCK FALSE

INVARIANT TypeOK
INVARIANT CountMatchesPipeline
INVARIANT FlushDurability

PROPERTY ImplementsAbstract
