----------------------------- MODULE MCUploader -----------------------------
(* Instantiates Uploader for TLC: one inode, two upload workers, an       *)
(* uploading queue of two slots, so that half the queue is one slot and  *)
(* a two-block batch can fill it.                                          *)
EXTENDS Uploader, TLC

CONSTANTS w1, w2  \* upload workers, as model values

MCInodes == {"i1"}
MCWorkers == {w1, w2}
\* Upload workers are interchangeable: each runs the same loop on the
\* shared queues, so the safety run may permute them.
MCWorkerSymmetry == Permutations(MCWorkers)
\* Three blocks for the safety runs, two for the liveness run.
MCIndices == {1, 2, 3}
MCIndicesLive == {1, 2}
=============================================================================
