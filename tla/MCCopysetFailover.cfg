CONSTANTS
  m1 = m1
  m2 = m2
  m3 = m3
  Metaservers <- MCMetaservers
  InitPeers <- MCInitPeers
  MdsEps = 3
  MaxEpoch = 1
  MaxMdsRestarts = 2

SPECIFICATION SpecFailover

PROPERTY HeartbeatsReachMds
