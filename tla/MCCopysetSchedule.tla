------------------------- MODULE MCCopysetSchedule -------------------------
EXTENDS CopysetSchedule

CONSTANTS m1, m2, m3

MCMetaservers == {m1, m2, m3}
MCInitPeers == {m1, m2}
=============================================================================
