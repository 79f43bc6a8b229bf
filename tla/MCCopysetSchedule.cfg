CONSTANTS
  m1 = m1
  m2 = m2
  m3 = m3
  Metaservers <- MCMetaservers
  InitPeers <- MCInitPeers
  MdsEps = 2
  MaxEpoch = 2
  MaxMdsRestarts = 1

SPECIFICATION Spec

INVARIANT TypeOK
INVARIANT ChangesMatchPlan
