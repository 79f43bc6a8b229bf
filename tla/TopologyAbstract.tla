-------------------------- MODULE TopologyAbstract --------------------------
(***************************************************************************)
(* What CreatePartitions, DeletePartition and RegistMemcacheCluster        *)
(* promise, as seen by the Topology store and the metaservers, with the    *)
(* requests, their NameLocks and their step-by-step loops hidden.  Each    *)
(* change is one atomic step:                                              *)
(*   - a copyset or a partition id appears on the metaservers (a create    *)
(*     RPC, which may also have run when it reported a failure);           *)
(*   - a copyset is recorded once the metaservers have it;                 *)
(*   - a partition is recorded once the metaservers have it, on a recorded *)
(*     copyset, with the next index of its filesystem, so filesystems get  *)
(*     disjoint and gap-free inode id ranges;                              *)
(*   - a READWRITE partition is marked DELETING;                           *)
(*   - a memcache cluster is recorded with a fresh id and servers that no  *)
(*     recorded cluster has.                                               *)
(***************************************************************************)
EXTENDS Naturals, FiniteSets

CONSTANTS CopysetIds, PartitionIds

VARIABLES
  copysets,    \* recorded copysets
  parts,       \* recorded partitions
  msCopysets,  \* copysets that exist on metaservers
  msParts,     \* partition ids that exist on metaservers
  mcClusters   \* recorded memcache clusters

avars == <<copysets, parts, msCopysets, msParts, mcClusters>>

PartIds == {p.pid : p \in parts}
FsParts(f) == {q \in parts : q.fs = f}
Servers(l) == {l[i] : i \in DOMAIN l}
ClusterServers == UNION {Servers(c.servers) : c \in mcClusters}

AInit ==
  /\ copysets = {} /\ parts = {} /\ msCopysets = {} /\ msParts = {}
  /\ mcClusters = {}

AMsCopyset(c) ==
  /\ msCopysets' = msCopysets \cup {c}
  /\ UNCHANGED <<copysets, parts, msParts, mcClusters>>

AMsPartition(id) ==
  /\ msParts' = msParts \cup {id}
  /\ UNCHANGED <<copysets, parts, msCopysets, mcClusters>>

AAddCopyset(c) ==
  /\ c \in msCopysets \ copysets
  /\ copysets' = copysets \cup {c}
  /\ UNCHANGED <<parts, msCopysets, msParts, mcClusters>>

AAddPartition(p) ==
  /\ p.pid \in msParts \ PartIds
  /\ p.cs \in copysets
  /\ p.idx = Cardinality(FsParts(p.fs))
  /\ p.status = "READWRITE"
  /\ parts' = parts \cup {p}
  /\ UNCHANGED <<copysets, msCopysets, msParts, mcClusters>>

AMarkDeleting(p) ==
  /\ p \in parts /\ p.status = "READWRITE"
  /\ parts' = (parts \ {p}) \cup {[p EXCEPT !.status = "DELETING"]}
  /\ UNCHANGED <<copysets, msCopysets, msParts, mcClusters>>

AAddCluster(c) ==
  /\ c.id \notin {d.id : d \in mcClusters}
  /\ Servers(c.servers) \cap ClusterServers = {}
  /\ mcClusters' = mcClusters \cup {c}
  /\ UNCHANGED <<copysets, parts, msCopysets, msParts>>

\* Steps of the requests that change none of this (taking a lock, listing
\* copysets, allocating an id, replying) are stutters.  The new items are
\* taken from the next state, which the implementation determines.
ANext ==
  \/ UNCHANGED avars
  \/ \E c \in CopysetIds : AMsCopyset(c) \/ AAddCopyset(c)
  \/ \E id \in PartitionIds : AMsPartition(id)
  \/ \E p \in parts' : AAddPartition(p)
  \/ \E p \in parts : AMarkDeleting(p)
  \/ \E c \in mcClusters' : AAddCluster(c)

ASpec == AInit /\ [][ANext]_avars
=============================================================================
