---------------------- MODULE MCTopologyRegistration ----------------------
EXTENDS TopologyRegistration

CONSTANTS h1, h2, a1
MCHandlers == {h1, h2}
MCAddrs == {a1}
=============================================================================
