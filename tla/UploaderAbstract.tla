-------------------------- MODULE UploaderAbstract --------------------------
(***************************************************************************)
(* What the upload pipeline promises (spec 4.5), with its queues, workers *)
(* and callbacks hidden.  The uploader owns a set of staged blocks; each   *)
(* one leaves it in exactly one of two ways:                               *)
(*   Store   - the object is in the store, then the stage file is gone;    *)
(*   Abandon - the stage file was missing or unreadable; nothing is put    *)
(*             and the stage file, if any, is left in place.               *)
(* Nothing else touches a stage file or the store.                         *)
(***************************************************************************)
CONSTANTS Keys, Froms

VARIABLES
  staged,  \* keys whose stage file exists
  owned,   \* blocks handed to the uploader and not yet finished
  stored   \* keys present in the object store

Blocks == [key : Keys, from : Froms]

AInit == staged = {} /\ owned = {} /\ stored = {}

\* A caller stages a fresh block and hands it over.
AStage(k, f) ==
  /\ k \notin staged /\ k \notin stored
  /\ staged' = staged \cup {k}
  /\ owned' = owned \cup {[key |-> k, from |-> f]}
  /\ UNCHANGED stored

\* An owned block whose stage file exists is put, then its file removed.
AStore(b) ==
  /\ b \in owned /\ b.key \in staged
  /\ stored' = stored \cup {b.key}
  /\ staged' = staged \ {b.key}
  /\ owned' = owned \ {b}

\* An owned block is given up without a put.
AAbandon(b) ==
  /\ b \in owned
  /\ owned' = owned \ {b}
  /\ UNCHANGED <<staged, stored>>

avars == <<staged, owned, stored>>

\* Most steps of the pipeline (moving a block between its queues, a
\* caller waiting) hand nothing over and finish nothing.
ANext ==
  \/ UNCHANGED avars
  \/ \E k \in Keys, f \in Froms : AStage(k, f)
  \/ \E b \in owned : AStore(b) \/ AAbandon(b)

ASpec == AInit /\ [][ANext]_avars
=============================================================================
