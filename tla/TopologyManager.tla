--------------------------- MODULE TopologyManager ---------------------------
(***************************************************************************)
(* TopologyManager::CreatePartitions and what it calls                     *)
(* (src/mds/topology/topology_manager.cpp): a filesystem's partitions are  *)
(* placed on the least loaded available copysets, and copysets are created *)
(* first when too few are available.  Each call holds a NameLock on its    *)
(* fsId only, so calls for different filesystems interleave, step by step, *)
(* around the metaserver RPCs and the topology updates.                    *)
(*                                                                         *)
(* The Topology store is not in this repository.  It is modelled by what   *)
(* TopologyManager relies on: ids are allocated from a bounded pool,       *)
(* AddCopySet and AddPartition record an item (or fail with a storage      *)
(* error), GetAvailableCopysetList returns the recorded copysets holding   *)
(* fewer than MaxPartitionsPerCopyset partitions, and                      *)
(* GetPartitionIndexOfFS counts the filesystem's recorded partitions.      *)
(* A failed RPC to the metaservers may still have taken effect.            *)
(*                                                                         *)
(* RegistMemcacheCluster is served by the same MDS threads: a caller       *)
(* serves either request.  It holds registMemcacheClusterMutex_ around     *)
(* its whole body; ListMemcacheClusters, ListMemcacheServers and           *)
(* AddMemcacheCluster are the Topology store's, modelled by what they      *)
(* return and record.                                                      *)
(***************************************************************************)
EXTENDS Naturals, Sequences, FiniteSets
LOCAL INSTANCE SequencesExt

CONSTANTS
  Callers,                  \* concurrent CreatePartitions requests
  Fss,                      \* filesystem ids
  Count,                    \* createPartitionNumber: partitions per request
  MaxPartitionsPerCopyset,  \* the availability limit of a copyset
  MaxCopysets,              \* bound: copyset ids 1 .. MaxCopysets
  MaxPartitions,            \* bound: partition ids 1 .. MaxPartitions
  MaxCalls,                 \* bound on CreatePartitions requests
  Faults,                   \* whether RPCs and topology updates may fail
  MServers,                 \* memcache servers (ip:port)
  MaxReqLen,                \* bound: servers listed in one registration
  MaxMcIds                  \* bound: memcache cluster ids 1 .. MaxMcIds

ASSUME Count \in Nat \ {0} /\ MaxPartitionsPerCopyset \in Nat \ {0}
       /\ MaxCopysets \in Nat /\ MaxPartitions \in Nat /\ MaxCalls \in Nat
       /\ Faults \in BOOLEAN /\ MaxReqLen \in Nat \ {0} /\ MaxMcIds \in Nat

NoFs == "nofs"
CopysetIds == 1 .. MaxCopysets
PartitionIds == 1 .. MaxPartitions
\* A partition: its id, filesystem, copyset and index in the filesystem
\* (idStart = index * idNumberInPartition).
Partitions == [pid : PartitionIds, fs : Fss, cs : CopysetIds, idx : Nat,
               status : {"READWRITE", "DELETING"}]
NoPart == [pid |-> 0]
NoCaller == "nocaller"
\* request->servers(): a list, which may name a server twice.
McRequests == UNION {[1 .. n -> MServers] : n \in 1 .. MaxReqLen}
McClusters == [id : 1 .. MaxMcIds, servers : McRequests]
McCodes == {"none", "ok", "dup", "idfail", "err"}

VARIABLES
  copysets,     \* Topology: recorded copysets
  creating,     \* Topology: copysets marked by AddCopySetCreating
  nextCsId,     \* Topology: AllocateCopySetId
  parts,        \* Topology: recorded partitions
  nextPid,      \* Topology: AllocatePartitionId
  partIndex,    \* Topology: ClusterInformation::partitionIndexs
  msCopysets,   \* copysets that exist on metaservers
  msParts,      \* partition ids that exist on metaservers
  abandoned,    \* history: copysets whose creation was given up
  lock,         \* createPartitionMutex_: the caller holding each fsId
  pc,           \* a caller's position in CreatePartitions
  fsOf,         \* the fsId a caller works for
  got,          \* partitions added to the caller's partitionInfoList
  todo,         \* copysets CreateEnoughCopyset still has to create
  cur,          \* the copyset CreateCopyset is creating
  vec,          \* the copysets the caller places partitions on, in order
  pend,         \* the partition created on the metaserver, not yet added
  ret,          \* the statuscode of the caller's last response
  resp,         \* the partition ids in the caller's last response
  calls,
  mcClusters,   \* Topology: recorded memcache clusters
  nextMcId,     \* Topology: AllocateMemCacheClusterId
  mcLock,       \* registMemcacheClusterMutex_: the caller holding it
  mcReq,        \* the servers of a caller's RegistMemcacheCluster request
  mcResp        \* statuscode and clusterid of its last response

mcVars == <<mcClusters, nextMcId, mcLock, mcReq, mcResp>>
vars == <<copysets, creating, nextCsId, parts, nextPid, partIndex, msCopysets,
          msParts, abandoned, lock, pc, fsOf, got, todo, cur, vec, pend, ret,
          resp, calls, mcVars>>
topoVars == <<copysets, creating, nextCsId, parts, nextPid, partIndex>>

\* CopySetInfo::GetPartitionNum
PartitionNum(c) == Cardinality({p \in parts : p.cs = c})

\* Topology::GetAvailableCopysetList
AvailableCopysets ==
  {c \in copysets : PartitionNum(c) < MaxPartitionsPerCopyset}


Init ==
  /\ copysets = {}
  /\ creating = {}
  /\ nextCsId = 1
  /\ parts = {}
  /\ nextPid = 1
  /\ partIndex = [f \in Fss |-> 0]
  /\ msCopysets = {}
  /\ msParts = {}
  /\ abandoned = {}
  /\ lock = [f \in Fss |-> NoFs]
  /\ pc = [t \in Callers |-> "idle"]
  /\ fsOf = [t \in Callers |-> NoFs]
  /\ got = [t \in Callers |-> 0]
  /\ todo = [t \in Callers |-> 0]
  /\ cur = [t \in Callers |-> 0]
  /\ vec = [t \in Callers |-> <<>>]
  /\ pend = [t \in Callers |-> NoPart]
  /\ ret = [t \in Callers |-> "none"]
  /\ resp = [t \in Callers |-> {}]
  /\ calls = 0
  /\ mcClusters = {}
  /\ nextMcId = 1
  /\ mcLock = NoCaller
  /\ mcReq = [t \in Callers |-> <<>>]
  /\ mcResp = [t \in Callers |-> [code |-> "none", id |-> 0]]

\* Leave CreatePartitions with a status code; the NameLockGuard releases
\* the fsId.
Return(t, code) ==
  /\ pc' = [pc EXCEPT ![t] = "idle"]
  /\ ret' = [ret EXCEPT ![t] = code]
  /\ lock' = [lock EXCEPT ![fsOf[t]] = NoFs]

\* Mutant: no NameLock on the fsId.
StartNoLock(t, f) ==
  /\ pc[t] = "idle"
  /\ calls < MaxCalls
  /\ fsOf' = [fsOf EXCEPT ![t] = f]
  /\ got' = [got EXCEPT ![t] = 0]
  /\ resp' = [resp EXCEPT ![t] = {}]
  /\ ret' = [ret EXCEPT ![t] = "none"]
  /\ pc' = [pc EXCEPT ![t] = "top"]
  /\ calls' = calls + 1
  /\ UNCHANGED <<topoVars, msCopysets, msParts, abandoned, lock, todo, cur,
                 vec, pend>>

\* CreatePartitions is called for fsId f and takes the NameLock on it.
Start(t, f) ==
  /\ pc[t] = "idle"
  /\ calls < MaxCalls
  /\ lock[f] = NoFs
  /\ lock' = [lock EXCEPT ![f] = t]
  /\ fsOf' = [fsOf EXCEPT ![t] = f]
  /\ got' = [got EXCEPT ![t] = 0]
  /\ resp' = [resp EXCEPT ![t] = {}]
  /\ ret' = [ret EXCEPT ![t] = "none"]
  /\ pc' = [pc EXCEPT ![t] = "top"]
  /\ calls' = calls + 1
  /\ UNCHANGED <<topoVars, msCopysets, msParts, abandoned, todo, cur, vec,
                 pend>>

\* The top of the while loop: done once count partitions are in the
\* response.  Otherwise createNum = count - GetAvailableCopysetNum(); when
\* positive, CreateEnoughCopyset starts with GenCopysetAddrBatch, which may
\* fail and return TOPO_CREATE_COPYSET_ERROR.
LoopTop(t) ==
  LET createNum == Count - Cardinality(AvailableCopysets)
  IN  /\ pc[t] = "top"
      /\ \/ /\ got[t] >= Count
            /\ Return(t, "ok")
            /\ UNCHANGED todo
         \/ /\ got[t] < Count
            /\ createNum <= 0
            /\ pc' = [pc EXCEPT ![t] = "list"]
            /\ UNCHANGED <<lock, ret, todo>>
         \/ /\ got[t] < Count
            /\ createNum > 0
            /\ todo' = [todo EXCEPT ![t] = createNum]
            /\ pc' = [pc EXCEPT ![t] = "alloc"]
            /\ UNCHANGED <<lock, ret>>
         \/ /\ Faults
            /\ got[t] < Count
            /\ createNum > 0
            /\ Return(t, "err")
            /\ UNCHANGED todo
      /\ UNCHANGED <<topoVars, msCopysets, msParts, abandoned, fsOf, got, cur,
                     vec, pend, resp, calls>>

\* One iteration of CreateEnoughCopyset's loop: AllocateCopySetId (which
\* fails once the ids are used up) and, in CreateCopyset, the metaserver
\* lookup and AddCopySetCreating.
AllocCopyset(t) ==
  /\ pc[t] = "alloc"
  /\ \/ /\ todo[t] = 0
        /\ pc' = [pc EXCEPT ![t] = "list"]
        /\ UNCHANGED <<topoVars, lock, ret, cur>>
     \/ /\ todo[t] > 0
        /\ nextCsId > MaxCopysets
        /\ Return(t, "err")
        /\ UNCHANGED <<topoVars, cur>>
     \/ /\ todo[t] > 0
        /\ nextCsId <= MaxCopysets
        /\ cur' = [cur EXCEPT ![t] = nextCsId]
        /\ nextCsId' = nextCsId + 1
        /\ creating' = creating \cup {nextCsId}
        /\ pc' = [pc EXCEPT ![t] = "csrpc"]
        /\ UNCHANGED <<copysets, parts, nextPid, partIndex, lock, ret>>
  /\ UNCHANGED <<msCopysets, msParts, abandoned, fsOf, got, todo, vec, pend,
                 resp, calls>>

\* Mutant: the copyset stays marked creating when the RPC fails.
CopysetRpcNoClear(t) ==
  LET c == cur[t] IN
  /\ pc[t] = "csrpc"
  /\ \/ /\ msCopysets' = msCopysets \cup {c}
        /\ pc' = [pc EXCEPT ![t] = "csadd"]
        /\ UNCHANGED <<lock, ret, abandoned>>
     \/ /\ Faults
        /\ msCopysets' \in {msCopysets, msCopysets \cup {c}}
        /\ abandoned' = abandoned \cup {c}
        /\ Return(t, "err")
  /\ UNCHANGED <<topoVars, msParts, fsOf, got, todo, cur, vec, pend, resp,
                 calls>>

\* Mutant: a failed CreateCopySet RPC does not return; AddCopySet follows.
CopysetRpcIgnoreFailure(t) ==
  LET c == cur[t] IN
  /\ pc[t] = "csrpc"
  /\ \/ /\ msCopysets' = msCopysets \cup {c}
        /\ pc' = [pc EXCEPT ![t] = "csadd"]
        /\ UNCHANGED <<creating, lock, ret, abandoned>>
     \/ /\ Faults
        /\ msCopysets' \in {msCopysets, msCopysets \cup {c}}
        /\ pc' = [pc EXCEPT ![t] = "csadd"]
        /\ UNCHANGED <<creating, lock, ret, abandoned>>
  /\ UNCHANGED <<copysets, nextCsId, parts, nextPid, partIndex, msParts, fsOf,
                 got, todo, cur, vec, pend, resp, calls>>

\* CreateCopyset: metaserverClient_->CreateCopySet.  A failure, which may
\* leave the copyset on some metaservers, clears the creating mark and
\* returns TOPO_CREATE_COPYSET_ON_METASERVER_FAIL.
CopysetRpc(t) ==
  LET c == cur[t] IN
  /\ pc[t] = "csrpc"
  /\ \/ /\ msCopysets' = msCopysets \cup {c}
        /\ pc' = [pc EXCEPT ![t] = "csadd"]
        /\ UNCHANGED <<creating, lock, ret, abandoned>>
     \/ /\ Faults
        /\ msCopysets' \in {msCopysets, msCopysets \cup {c}}
        /\ creating' = creating \ {c}
        /\ abandoned' = abandoned \cup {c}
        /\ Return(t, "err")
  /\ UNCHANGED <<copysets, nextCsId, parts, nextPid, partIndex, msParts, fsOf,
                 got, todo, cur, vec, pend, resp, calls>>

\* CreateCopyset: topology_->AddCopySet, then ClearCopysetCreating on both
\* outcomes; on success CreateEnoughCopyset goes on with the next copyset.
CopysetAdd(t) ==
  LET c == cur[t] IN
  /\ pc[t] = "csadd"
  /\ creating' = creating \ {c}
  /\ \/ /\ copysets' = copysets \cup {c}
        /\ todo' = [todo EXCEPT ![t] = @ - 1]
        /\ pc' = [pc EXCEPT ![t] = "alloc"]
        /\ UNCHANGED <<lock, ret, abandoned>>
     \/ /\ Faults
        /\ abandoned' = abandoned \cup {c}
        /\ Return(t, "err")
        /\ UNCHANGED <<copysets, todo>>
  /\ UNCHANGED <<nextCsId, parts, nextPid, partIndex, msCopysets, msParts,
                 fsOf, got, cur, vec, pend, resp, calls>>

\* The copysets one pass places partitions on: an ordering of
\* GetAvailableCopysetList sorted by GetPartitionNum (std::sort is not
\* stable, so copysets with equal counts come in any order), cut to
\* tempCount = min(copysetNum, count - partitionInfoList->size()).
SortedCopysets(avail) ==
  {s \in SetToSeqs(avail) :
     \A i \in 1 .. Len(s) - 1 : PartitionNum(s[i]) <= PartitionNum(s[i + 1])}

\* Mutant: tempCount one short.
ListCopysetsOffByOne(t) ==
  LET avail == AvailableCopysets
      tempCount == IF Cardinality(avail) < Count - got[t]
                   THEN Cardinality(avail) ELSE Count - got[t]
  IN  /\ pc[t] = "list"
      /\ \/ /\ avail = {}
            /\ Return(t, "err")
            /\ UNCHANGED vec
         \/ /\ avail # {}
            /\ \E s \in SortedCopysets(avail) :
                 vec' = [vec EXCEPT ![t] = SubSeq(s, 1, tempCount - 1)]
            /\ pc' = [pc EXCEPT ![t] = "part"]
            /\ UNCHANGED <<lock, ret>>
      /\ UNCHANGED <<topoVars, msCopysets, msParts, abandoned, fsOf, got, todo,
                     cur, pend, resp, calls>>

\* Mutant: every iteration of the for loop places its partition on
\* copysetVec[0], the least loaded copyset.
ListCopysetsFirstOnly(t) ==
  LET avail == AvailableCopysets
      tempCount == IF Cardinality(avail) < Count - got[t]
                   THEN Cardinality(avail) ELSE Count - got[t]
  IN  /\ pc[t] = "list"
      /\ \/ /\ avail = {}
            /\ Return(t, "err")
            /\ UNCHANGED vec
         \/ /\ avail # {}
            /\ \E s \in SortedCopysets(avail) :
                 vec' = [vec EXCEPT ![t] = [i \in 1 .. tempCount |-> s[1]]]
            /\ pc' = [pc EXCEPT ![t] = "part"]
            /\ UNCHANGED <<lock, ret>>
      /\ UNCHANGED <<topoVars, msCopysets, msParts, abandoned, fsOf, got, todo,
                     cur, pend, resp, calls>>

\* GetAvailableCopysetList; an empty list returns
\* TOPO_GET_AVAILABLE_COPYSET_ERROR.
ListCopysets(t) ==
  LET avail == AvailableCopysets
      tempCount == IF Cardinality(avail) < Count - got[t]
                   THEN Cardinality(avail) ELSE Count - got[t]
  IN  /\ pc[t] = "list"
      /\ \/ /\ avail = {}
            /\ Return(t, "err")
            /\ UNCHANGED vec
         \/ /\ avail # {}
            /\ \E s \in SortedCopysets(avail) :
                 vec' = [vec EXCEPT ![t] = SubSeq(s, 1, tempCount)]
            /\ pc' = [pc EXCEPT ![t] = "part"]
            /\ UNCHANGED <<lock, ret>>
      /\ UNCHANGED <<topoVars, msCopysets, msParts, abandoned, fsOf, got, todo,
                     cur, pend, resp, calls>>

\* Mutant: the UNINITIALIZE_ID check of AllocatePartitionId dropped.
PartitionRpcNoIdCheck(t) ==
  LET f == fsOf[t]
      part == [pid |-> nextPid, fs |-> f, cs |-> Head(vec[t]),
               idx |-> partIndex[f], status |-> "READWRITE"]
  IN  /\ pc[t] = "part"
      /\ \/ /\ vec[t] = <<>>
            /\ pc' = [pc EXCEPT ![t] = "top"]
            /\ UNCHANGED <<nextPid, msParts, lock, ret, pend>>
         \/ /\ vec[t] # <<>>
            /\ nextPid' = nextPid + 1
            /\ \/ /\ msParts' = msParts \cup {nextPid}
                  /\ pend' = [pend EXCEPT ![t] = part]
                  /\ pc' = [pc EXCEPT ![t] = "partadd"]
                  /\ UNCHANGED <<lock, ret>>
               \/ /\ Faults
                  /\ msParts' \in {msParts, msParts \cup {nextPid}}
                  /\ Return(t, "err")
                  /\ UNCHANGED pend
      /\ UNCHANGED <<copysets, creating, nextCsId, parts, partIndex,
                     msCopysets, abandoned, fsOf, got, todo, cur, vec, resp,
                     calls>>

\* One iteration of the for loop, CreatePartitionOnCopyset up to the RPC:
\* index = GetPartitionIndexOfFS(fsId), AllocatePartitionId (failing with
\* TOPO_ALLOCATE_ID_FAIL once the ids are used up), and
\* metaserverClient_->CreatePartition, which on failure may still have
\* created the partition.  An exhausted vec ends the pass.
PartitionRpc(t) ==
  LET f == fsOf[t]
      part == [pid |-> nextPid, fs |-> f, cs |-> Head(vec[t]),
               idx |-> partIndex[f], status |-> "READWRITE"]
  IN  /\ pc[t] = "part"
      /\ \/ /\ vec[t] = <<>>
            /\ pc' = [pc EXCEPT ![t] = "top"]
            /\ UNCHANGED <<nextPid, msParts, lock, ret, pend>>
         \/ /\ vec[t] # <<>>
            /\ nextPid > MaxPartitions
            /\ Return(t, "err")
            /\ UNCHANGED <<nextPid, msParts, pend>>
         \/ /\ vec[t] # <<>>
            /\ nextPid <= MaxPartitions
            /\ nextPid' = nextPid + 1
            /\ \/ /\ msParts' = msParts \cup {nextPid}
                  /\ pend' = [pend EXCEPT ![t] = part]
                  /\ pc' = [pc EXCEPT ![t] = "partadd"]
                  /\ UNCHANGED <<lock, ret>>
               \/ /\ Faults
                  /\ msParts' \in {msParts, msParts \cup {nextPid}}
                  /\ Return(t, "err")
                  /\ UNCHANGED pend
      /\ UNCHANGED <<copysets, creating, nextCsId, parts, partIndex,
                     msCopysets, abandoned, fsOf, got, todo, cur, vec, resp,
                     calls>>

\* Mutant: the status of AddPartition ignored.
PartitionAddNoCheck(t) ==
  LET f == fsOf[t] IN
  /\ pc[t] = "partadd"
  /\ \/ /\ parts' = parts \cup {pend[t]}
        /\ partIndex' = [partIndex EXCEPT ![f] = @ + 1]
     \/ /\ Faults
        /\ UNCHANGED <<parts, partIndex>>
  /\ resp' = [resp EXCEPT ![t] = @ \cup {pend[t].pid}]
  /\ got' = [got EXCEPT ![t] = @ + 1]
  /\ vec' = [vec EXCEPT ![t] = Tail(@)]
  /\ pc' = [pc EXCEPT ![t] = "part"]
  /\ UNCHANGED <<copysets, creating, nextCsId, nextPid, msCopysets, msParts,
                 abandoned, lock, fsOf, todo, cur, pend, ret, calls>>

\* CreatePartitionOnCopyset: topology_->AddPartition, which also counts the
\* partition in the filesystem's partition index.  A failure returns its
\* code and leaves the partition on the metaserver (the TODO in the code).
PartitionAdd(t) ==
  LET f == fsOf[t] IN
  /\ pc[t] = "partadd"
  /\ \/ /\ parts' = parts \cup {pend[t]}
        /\ partIndex' = [partIndex EXCEPT ![f] = @ + 1]
        /\ resp' = [resp EXCEPT ![t] = @ \cup {pend[t].pid}]
        /\ got' = [got EXCEPT ![t] = @ + 1]
        /\ vec' = [vec EXCEPT ![t] = Tail(@)]
        /\ pc' = [pc EXCEPT ![t] = "part"]
        /\ UNCHANGED <<lock, ret>>
     \/ /\ Faults
        /\ Return(t, "err")
        /\ UNCHANGED <<parts, partIndex, resp, got, vec>>
  /\ UNCHANGED <<copysets, creating, nextCsId, nextPid, msCopysets, msParts,
                 abandoned, fsOf, todo, cur, pend, calls>>

\* DeletePartition(request) on a recorded READWRITE partition whose
\* metaserver RPC answers OK or UNDER_DELETING: UpdatePartitionStatus
\* marks it DELETING.  Every other path (unknown id, already DELETING,
\* GetCopysetMembers, RPC or update failing) changes nothing.
DeletePartition(p) ==
  /\ p \in parts
  /\ p.status = "READWRITE"
  /\ parts' = (parts \ {p}) \cup {[p EXCEPT !.status = "DELETING"]}
  /\ UNCHANGED <<copysets, creating, nextCsId, nextPid, partIndex, msCopysets,
                 msParts, abandoned, lock, pc, fsOf, got, todo, cur, vec, pend,
                 ret, resp, calls>>

\* The servers a list names.
ServerSet(l) == {l[i] : i \in DOMAIN l}

\* MemcacheCluster::operator== as RegistMemcacheCluster calls it, on a
\* recorded cluster with the request's servers (the ids made equal by
\* SetId): the same length, and every recorded server found in the
\* request.
SameCluster(recorded, request) ==
  Len(recorded) = Len(request) /\ ServerSet(recorded) \subseteq ServerSet(request)

\* Every server recorded in some memcache cluster: ListMemcacheServers.
RegisteredServers == UNION {ServerSet(c.servers) : c \in mcClusters}

\* Leave RegistMemcacheCluster; the WriteLockGuard releases the mutex.
McReply(t, code, id) ==
  /\ mcResp' = [mcResp EXCEPT ![t] = [code |-> code, id |-> id]]
  /\ pc' = [pc EXCEPT ![t] = "idle"]
  /\ mcLock' = NoCaller

\* Mutant: the request does not take registMemcacheClusterMutex_.
McStartNoLock(t, req) ==
  /\ pc[t] = "idle"
  /\ calls < MaxCalls
  /\ mcReq' = [mcReq EXCEPT ![t] = req]
  /\ mcResp' = [mcResp EXCEPT ![t] = [code |-> "none", id |-> 0]]
  /\ pc' = [pc EXCEPT ![t] = "mcscan"]
  /\ calls' = calls + 1
  /\ UNCHANGED <<mcClusters, nextMcId, mcLock>>

\* RegistMemcacheCluster is called with the server list req and takes
\* registMemcacheClusterMutex_.
McStart(t, req) ==
  /\ pc[t] = "idle"
  /\ calls < MaxCalls
  /\ mcLock = NoCaller
  /\ mcLock' = t
  /\ mcReq' = [mcReq EXCEPT ![t] = req]
  /\ mcResp' = [mcResp EXCEPT ![t] = [code |-> "none", id |-> 0]]
  /\ pc' = [pc EXCEPT ![t] = "mcscan"]
  /\ calls' = calls + 1
  /\ UNCHANGED <<mcClusters, nextMcId>>

\* The idempotence loop: a recorded cluster equal to the request answers
\* TOPO_OK with its id (the first one the list yields).  Otherwise a
\* requested server already registered answers TOPO_IP_PORT_DUPLICATED;
\* else the request goes on to add a new cluster.
McScan(t) ==
  LET req == mcReq[t] IN
  /\ pc[t] = "mcscan"
  /\ \/ \E c \in mcClusters :
          /\ SameCluster(c.servers, req)
          /\ McReply(t, "ok", c.id)
     \/ /\ \A c \in mcClusters : ~SameCluster(c.servers, req)
        /\ ServerSet(req) \cap RegisteredServers # {}
        /\ McReply(t, "dup", 0)
     \/ /\ \A c \in mcClusters : ~SameCluster(c.servers, req)
        /\ ServerSet(req) \cap RegisteredServers = {}
        /\ pc' = [pc EXCEPT ![t] = "mcadd"]
        /\ UNCHANGED <<mcResp, mcLock>>
  /\ UNCHANGED <<mcClusters, nextMcId, mcReq>>

\* AllocateMemCacheClusterId (TOPO_ALLOCATE_ID_FAIL once the ids are used
\* up), then AddMemcacheCluster with the request's list; the response
\* carries the id whatever AddMemcacheCluster returned.
McAdd(t) ==
  /\ pc[t] = "mcadd"
  /\ \/ /\ nextMcId > MaxMcIds
        /\ McReply(t, "idfail", 0)
        /\ UNCHANGED <<mcClusters, nextMcId>>
     \/ /\ nextMcId <= MaxMcIds
        /\ nextMcId' = nextMcId + 1
        /\ \/ /\ mcClusters' = mcClusters \cup {[id |-> nextMcId, servers |-> mcReq[t]]}
              /\ McReply(t, "ok", nextMcId)
           \/ /\ Faults
              /\ McReply(t, "err", nextMcId)
              /\ UNCHANGED mcClusters
  /\ UNCHANGED mcReq

\* All requests were served.
Done ==
  /\ calls = MaxCalls
  /\ \A t \in Callers : pc[t] = "idle"
  /\ UNCHANGED vars

\* The steps of a request once it holds its NameLock or the mutex.
Step(t) ==
  \/ /\ \/ LoopTop(t) \/ AllocCopyset(t) \/ CopysetRpc(t) \/ CopysetAdd(t)
        \/ ListCopysets(t) \/ PartitionRpc(t) \/ PartitionAdd(t)
     /\ UNCHANGED mcVars
  \/ /\ McScan(t) \/ McAdd(t)
     /\ UNCHANGED <<topoVars, msCopysets, msParts, abandoned, lock, fsOf, got,
                    todo, cur, vec, pend, ret, resp, calls>>

Next ==
  \/ \E t \in Callers :
       \/ (\E f \in Fss : Start(t, f)) /\ UNCHANGED mcVars
       \/ \E req \in McRequests :
            /\ McStart(t, req)
            /\ UNCHANGED <<topoVars, msCopysets, msParts, abandoned, lock,
                           fsOf, got, todo, cur, vec, pend, ret, resp>>
       \/ Step(t)
  \/ \E p \in parts : DeletePartition(p) /\ UNCHANGED mcVars
  \/ Done

Spec == Init /\ [][Next]_vars

\* The request's thread keeps running once it holds the lock.
FairSpec == Spec /\ \A t \in Callers : WF_vars(Step(t))

-----------------------------------------------------------------------------
(* Properties *)

PcValues == {"idle", "top", "alloc", "csrpc", "csadd", "list", "part",
             "partadd", "mcscan", "mcadd"}

TypeOK ==
  /\ copysets \subseteq CopysetIds /\ creating \subseteq CopysetIds
  /\ nextCsId \in 1 .. MaxCopysets + 1
  /\ parts \subseteq Partitions
  /\ nextPid \in 1 .. MaxPartitions + 1
  /\ partIndex \in [Fss -> 0 .. MaxPartitions]
  /\ msCopysets \subseteq CopysetIds /\ msParts \subseteq PartitionIds
  /\ abandoned \subseteq CopysetIds
  /\ lock \in [Fss -> Callers \cup {NoFs}]
  /\ pc \in [Callers -> PcValues]
  /\ fsOf \in [Callers -> Fss \cup {NoFs}]
  /\ got \in [Callers -> 0 .. Count]
  /\ todo \in [Callers -> 0 .. Count]
  /\ cur \in [Callers -> 0 .. MaxCopysets]
  /\ vec \in [Callers -> Seq(CopysetIds)]
  /\ pend \in [Callers -> Partitions \cup {NoPart}]
  /\ ret \in [Callers -> {"none", "ok", "err"}]
  /\ resp \in [Callers -> SUBSET PartitionIds]
  /\ calls \in 0 .. MaxCalls
  /\ mcClusters \subseteq McClusters
  /\ nextMcId \in 1 .. MaxMcIds + 1
  /\ mcLock \in Callers \cup {NoCaller}
  /\ mcReq \in [Callers -> McRequests \cup {<<>>}]
  /\ mcResp \in [Callers -> [code : McCodes, id : 0 .. MaxMcIds]]

\* Two partitions recorded for one filesystem never get the same index,
\* hence never the same inode id range [idStart, idEnd]: the index is read
\* in CreatePartitionOnCopyset before the metaserver RPC and counted only
\* by the later AddPartition, so this rests on the per-fsId NameLock of
\* CreatePartitions.
PartitionIndexUnique ==
  \A p, q \in parts : p.fs = q.fs /\ p.pid # q.pid => p.idx # q.idx

\* A copyset is marked creating only while a request is inside
\* CreateCopyset for it: every path out of CreateCopyset clears the mark.
CreatingCleared ==
  \A c \in creating :
    \E t \in Callers : pc[t] \in {"csrpc", "csadd"} /\ cur[t] = c

\* A TOPO_OK response of CreatePartitions lists count partitions, each
\* recorded in the topology for the request's filesystem and created on
\* the metaservers.
ResponseRecorded ==
  \A t \in Callers :
    ret[t] = "ok" =>
      /\ Cardinality(resp[t]) = Count
      /\ \A id \in resp[t] :
           /\ id \in msParts
           /\ \E p \in parts : p.pid = id /\ p.fs = fsOf[t]

\* Every CreatePartitions call returns: each pass of the while loop adds
\* partitions to the response or fails.
CallsReturn ==
  \A t \in Callers : pc[t] # "idle" ~> pc[t] = "idle"

\* No memcache server is recorded in two clusters: the idempotence scan,
\* the ListMemcacheServers test and AddMemcacheCluster of one
\* RegistMemcacheCluster run under registMemcacheClusterMutex_, so a
\* concurrent registration of an overlapping server list sees the first
\* one's cluster.
MemcacheServersUnique ==
  \A c, d \in mcClusters :
    c.id # d.id => ServerSet(c.servers) \cap ServerSet(d.servers) = {}

\* A copyset goes past MaxPartitionsPerCopyset only through requests for
\* different filesystems.  CreatePartitions reads the available copysets
\* and their partition counts once per pass and places partitions on them
\* later, and the NameLock serialises only one fsId.  So two requests can
\* both fill a copyset's last slot, but no filesystem puts more than the
\* limit on a copyset, and each concurrent request adds at most one
\* partition past the limit.
CopysetLoadBounded ==
  \A c \in copysets :
    /\ PartitionNum(c) <= MaxPartitionsPerCopyset + Cardinality(Callers) - 1
    /\ \A f \in Fss :
         Cardinality({p \in parts : p.cs = c /\ p.fs = f})
           <= MaxPartitionsPerCopyset

\* The partitions, copysets and memcache clusters that the Topology store
\* and the metaservers hold change only as TopologyAbstract allows. For
\* example, a partition is recorded with the next index of its filesystem
\* on a copyset the metaservers have. This holds across the interleaved
\* steps of CreatePartitions for different filesystems, RegistMemcacheCluster
\* and DeletePartition, and across their failure paths.
Abs == INSTANCE TopologyAbstract
ImplementsTopologyAbstract == Abs!ASpec

=============================================================================
