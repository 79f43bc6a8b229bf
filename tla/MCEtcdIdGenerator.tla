------------------------- MODULE MCEtcdIdGenerator -------------------------
EXTENDS EtcdIdGenerator, TLC

CONSTANTS m1, m2

MCGens == {m1, m2}

\* The generators are interchangeable.
MCSymmetry == Permutations(MCGens)
=============================================================================
