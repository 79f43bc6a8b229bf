CONSTANTS
  m1 = m1
  m2 = m2
  Gens <- MCGens
  Initialize = 0
  BundleSize = 2
  MaxId = 6
  MaxCrashes = 2
  EtcdFaults = TRUE
  Absent = Absent

SYMMETRY MCSymmetry

SPECIFICATION Spec

INVARIANT TypeOK
INVARIANT IdsUnique
INVARIANT IdsReserved
INVARIANT IdsIncreasing
