-------------------------- MODULE MCTopologyManager --------------------------
EXTENDS TopologyManager, TLC

CONSTANTS t1, t2, f1, f2, s1, s2

MCCallers == {t1, t2}
MCFss == {f1, f2}
MCMServers == {s1, s2}
MCSymmetry == Permutations(MCCallers) \cup Permutations(MCFss)
=============================================================================
