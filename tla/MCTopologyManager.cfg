CONSTANTS
  t1 = t1
  t2 = t2
  f1 = f1
  f2 = f2
  s1 = s1
  s2 = s2
  Callers <- MCCallers
  Fss <- MCFss
  Count = 2
  MaxPartitionsPerCopyset = 1
  MaxCopysets = 3
  MaxPartitions = 3
  MaxCalls = 2
  Faults = TRUE
  MServers <- MCMServers
  MaxReqLen = 2
  MaxMcIds = 2


SPECIFICATION FairSpec

PROPERTY CallsReturn
INVARIANT TypeOK
INVARIANT PartitionIndexUnique
INVARIANT CreatingCleared
INVARIANT ResponseRecorded
INVARIANT MemcacheServersUnique
INVARIANT CopysetLoadBounded
PROPERTY ImplementsTopologyAbstract
