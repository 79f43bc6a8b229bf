--------------------------- MODULE EtcdIdGenerator ---------------------------
(***************************************************************************)
(* EtcdIdGenerator (src/mds/idgenerator/etcd_id_generator.cpp): every MDS  *)
(* process hands out ids from a bundle it reserved by a compare-and-swap   *)
(* on one etcd key.  GenID holds the generator's own lock, so the steps of *)
(* one generator are sequential; the etcd key is shared by all of them,    *)
(* so the Get and the CompareAndSwap of one generator interleave with      *)
(* those of the others.                                                    *)
(*                                                                         *)
(* The etcd client is not under src/.  Its CompareAndSwap(key, prev, new)  *)
(* is modelled as a linearizable swap that succeeds iff the key holds      *)
(* prev, where an absent key matches the empty prev that Get leaves on     *)
(* EtcdKeyNotExist.  A call may time out after etcd applied it.            *)
(***************************************************************************)
EXTENDS Naturals, Sequences

CONSTANTS
  Gens,        \* generator instances (MDS processes) sharing storeKey_
  Initialize,  \* initialize_: the value a fresh key stands for
  BundleSize,  \* bundle_: ids reserved per AllocateBundleIds
  MaxId,       \* bound: no bundle is reserved past this value
  MaxCrashes,  \* bound on process restarts
  EtcdFaults,  \* whether Get may fail and a CAS may time out
  Absent       \* the value of an absent key: the empty out of Get

ASSUME Initialize \in Nat /\ BundleSize \in Nat \ {0}
       /\ MaxId \in Nat /\ MaxCrashes \in Nat /\ EtcdFaults \in BOOLEAN

ASSUME Absent \notin Nat

Values == {Absent} \cup (Initialize .. MaxId)

VARIABLES
  etcd,       \* the value stored under storeKey_
  nextId,     \* nextId_
  bundleEnd,  \* bundleEnd_
  pc,         \* "idle", or "cas" between Get and CompareAndSwap
  out,        \* the value the pending Get returned
  issued,     \* history: the ids GenID returned, per generator, in order
  crashes

vars == <<etcd, nextId, bundleEnd, pc, out, issued, crashes>>

\* The allocation base a Get result stands for (alloc in the code).
AllocOf(v) == IF v = Absent THEN Initialize ELSE v

\* GenID's test: the bundle is used up, or nothing was reserved yet.
NeedAlloc(g) == nextId[g] > bundleEnd[g] \/ nextId[g] = Initialize

Init ==
  /\ etcd = Absent
  /\ nextId = [g \in Gens |-> Initialize]
  /\ bundleEnd = [g \in Gens |-> Initialize]
  /\ pc = [g \in Gens |-> "idle"]
  /\ out = [g \in Gens |-> Absent]
  /\ issued = [g \in Gens |-> <<>>]
  /\ crashes = 0

\* Mutant: the bundle test of GenID dropped.
GenIDFromBundleNoCheck(g) ==
  /\ pc[g] = "idle"
  /\ issued' = [issued EXCEPT ![g] = Append(@, nextId[g])]
  /\ nextId' = [nextId EXCEPT ![g] = @ + 1]
  /\ UNCHANGED <<etcd, bundleEnd, pc, out, crashes>>

\* GenID with ids left in the bundle: *id = nextId_++.
GenIDFromBundle(g) ==
  /\ pc[g] = "idle"
  /\ ~NeedAlloc(g)
  /\ issued' = [issued EXCEPT ![g] = Append(@, nextId[g])]
  /\ nextId' = [nextId EXCEPT ![g] = @ + 1]
  /\ UNCHANGED <<etcd, bundleEnd, pc, out, crashes>>

\* GenID calls AllocateBundleIds, which first reads the key.  A failed Get
\* returns false from GenID; EtcdOK and EtcdKeyNotExist go on to the CAS.
\* The bound MaxId stops new reservations.
AllocGet(g) ==
  /\ pc[g] = "idle"
  /\ NeedAlloc(g)
  /\ AllocOf(etcd) + BundleSize <= MaxId
  /\ \/ /\ pc' = [pc EXCEPT ![g] = "cas"]
        /\ out' = [out EXCEPT ![g] = etcd]
     \/ /\ EtcdFaults
        /\ UNCHANGED <<pc, out>>
  /\ UNCHANGED <<etcd, nextId, bundleEnd, issued, crashes>>

\* Mutant: a plain Put in place of the compare-and-swap.
AllocCasNoCompare(g) ==
  LET alloc == AllocOf(out[g])
      target == alloc + BundleSize
  IN  /\ pc[g] = "cas"
      /\ pc' = [pc EXCEPT ![g] = "idle"]
      /\ etcd' = target
      /\ bundleEnd' = [bundleEnd EXCEPT ![g] = target]
      /\ nextId' = [nextId EXCEPT ![g] = alloc + 2]
      /\ issued' = [issued EXCEPT ![g] = Append(@, alloc + 1)]
      /\ UNCHANGED <<out, crashes>>

\* Mutant: bundleEnd_ one past the reserved target.
AllocCasEndOffByOne(g) ==
  LET alloc == AllocOf(out[g])
      target == alloc + BundleSize
  IN  /\ pc[g] = "cas"
      /\ pc' = [pc EXCEPT ![g] = "idle"]
      /\ \/ /\ etcd = out[g]
            /\ etcd' = target
            /\ bundleEnd' = [bundleEnd EXCEPT ![g] = target + 1]
            /\ nextId' = [nextId EXCEPT ![g] = alloc + 2]
            /\ issued' = [issued EXCEPT ![g] = Append(@, alloc + 1)]
         \/ /\ etcd # out[g]
            /\ UNCHANGED <<etcd, nextId, bundleEnd, issued>>
      /\ UNCHANGED <<out, crashes>>

\* CompareAndSwap(storeKey_, out, alloc + requiredNum).  On success the
\* bundle is alloc+1 .. target and GenID returns its first id.  On a
\* mismatch, or a timeout whether or not etcd applied the swap, GenID
\* returns false and keeps its old bundle.
AllocCas(g) ==
  LET alloc == AllocOf(out[g])
      target == alloc + BundleSize
  IN  /\ pc[g] = "cas"
      /\ pc' = [pc EXCEPT ![g] = "idle"]
      /\ \/ /\ etcd = out[g]
            /\ etcd' = target
            /\ bundleEnd' = [bundleEnd EXCEPT ![g] = target]
            /\ nextId' = [nextId EXCEPT ![g] = alloc + 2]
            /\ issued' = [issued EXCEPT ![g] = Append(@, alloc + 1)]
         \/ /\ etcd # out[g]
            /\ UNCHANGED <<etcd, nextId, bundleEnd, issued>>
         \/ /\ EtcdFaults
            /\ etcd = out[g]
            /\ etcd' = target
            /\ UNCHANGED <<nextId, bundleEnd, issued>>
      /\ UNCHANGED <<out, crashes>>

\* The MDS process restarts: a new generator starts at initialize_.  A CAS
\* it had sent may or may not have been applied.
Crash(g) ==
  /\ crashes < MaxCrashes
  /\ \/ UNCHANGED etcd
     \/ /\ pc[g] = "cas"
        /\ etcd = out[g]
        /\ etcd' = AllocOf(out[g]) + BundleSize
  /\ nextId' = [nextId EXCEPT ![g] = Initialize]
  /\ bundleEnd' = [bundleEnd EXCEPT ![g] = Initialize]
  /\ pc' = [pc EXCEPT ![g] = "idle"]
  /\ crashes' = crashes + 1
  /\ UNCHANGED <<out, issued>>

\* Every reservation up to MaxId is made and every bundle is used up.
Exhausted ==
  /\ \A g \in Gens : pc[g] = "idle" /\ NeedAlloc(g)
  /\ AllocOf(etcd) + BundleSize > MaxId
  /\ UNCHANGED vars

Next ==
  \/ \E g \in Gens :
       GenIDFromBundle(g) \/ AllocGet(g) \/ AllocCas(g) \/ Crash(g)
  \/ Exhausted

Spec == Init /\ [][Next]_vars

-----------------------------------------------------------------------------
(* Properties *)

IdRange == Initialize + 1 .. MaxId + 1

TypeOK ==
  /\ etcd \in Values
  /\ nextId \in [Gens -> Initialize .. MaxId + 1]
  /\ bundleEnd \in [Gens -> Initialize .. MaxId]
  /\ pc \in [Gens -> {"idle", "cas"}]
  /\ out \in [Gens -> Values]
  /\ issued \in [Gens -> Seq(IdRange)]
  /\ crashes \in 0 .. MaxCrashes

\* No id is returned twice by GenID, by the same generator or by two of
\* them, across racing CASes, timed-out swaps and restarts.
IdsUnique ==
  \A g, h \in Gens :
    \A i \in DOMAIN issued[g], j \in DOMAIN issued[h] :
      <<g, i>> # <<h, j>> => issued[g][i] # issued[h][j]

\* Every id GenID returned lies in a range etcd has recorded as taken, so
\* a generator that reads the key later cannot reserve it again.
IdsReserved ==
  \A g \in Gens : \A i \in DOMAIN issued[g] :
    issued[g][i] \in Initialize + 1 .. AllocOf(etcd)

\* Each generator returns strictly increasing ids, also across restarts.
IdsIncreasing ==
  \A g \in Gens : \A i, j \in DOMAIN issued[g] :
    i < j => issued[g][i] < issued[g][j]
=============================================================================
