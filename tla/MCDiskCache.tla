---------------------------- MODULE MCDiskCache ----------------------------
(* Model values for DiskCache: one inode with two blocks.                  *)
EXTENDS DiskCache

MCInodes == {"i1"}
MCIndices == {1, 2}
MCIndex1 == {1}
MCWorkers1 == {"w1"}
MCWorkers2 == {"w1", "w2"}
=============================================================================
