# TLA+ models of dingofs

This directory holds TLA+ models of the dingofs sources under `src/src/` and the
TLC configurations that check them. `PROJECT.json` is the machine-readable index:
it lists the components, the runs, the mutants that show each property is
sensitive to the code, the map from definitions to source lines, the findings and
the hazards.

## The system and its parts

dingofs is a distributed file system with three kinds of process.

* **MDS** (`mds/`): the metadata service. It holds the cluster topology: pools,
  zones, servers, metaservers, copysets and partitions (`topology_item.h`,
  `topology_manager.cpp`). It allocates ids by CAS on etcd keys
  (`etcd_id_generator.cpp`, `chunkid_allocator.h`). It schedules copyset
  configuration changes from metaserver heartbeats (`schedule/coordinator.cpp`).
* **Metaserver** (`metaserver/`): it stores inodes and dentries in raft copysets.
  It reports its copysets to the MDS in a heartbeat loop and executes the
  configuration changes the MDS answers with (`heartbeat.cpp`). It saves and
  loads metastore snapshots (`metastore_fstream.cpp`).
* **Client** (`client/`): the FUSE client. Its block cache (`client/blockcache/`)
  stages written blocks on local disk (`DiskCache::Stage`). A background
  uploader (`BlockCacheUploader`) puts them into the object store. `Flush(ino)`
  waits for an inode's CTO_FLUSH blocks. The old VFS keeps a lease with the MDS
  (`lease_excutor.cpp`).

Several of these parts interact concurrently:

* In the block cache, `Stage` callers, one scan thread, N upload threads and the
  object store's asynchronous callbacks share the pending queue, the bounded
  uploading queue and the per-inode Countdown.
* The metaserver's heartbeat thread and the MDS coordinator exchange copyset
  epochs and operators.
* Several MDS id generators race on the same etcd key.
* `CreatePartitions` requests for different filesystems race on the copysets
  and the partition index.

## Modules

### `Uploader.tla`: BlockCacheUploader and the staging side of DiskCache

**State**

| variable | code |
|---|---|
| `stageFile` | the stage files on disk |
| `pending` | `PendingQueue`: one FIFO per `BlockFrom` |
| `scanPc`, `scanBatch` | the scan thread's position and its popped batch |
| `uploading` | `UploadingQueue`, bounded by `QueueCap` |
| `wpc`, `held` | each upload thread's position and its popped block |
| `inflight` | outstanding `AsyncPut`s |
| `store` | the object store |
| `count`, `hasErr` | `Countdown` |
| `flushing`, `lastFlush` | `Flush` callers and what their last call returned |
| `waitAll`, `lastWaitAll` | `WaitAllUploaded` callers and what their last call returned |
| `running` | `running_` |

**Actions**

* `Stage` is `DiskCache::Stage`: write the stage file, then `AddStageBlock`,
  which calls `Staging` and `Push`.
* `ScanPop` is one iteration of `ScaningWorker`: peek, `CanUpload`, pop. When
  `CanUpload` fails the worker sleeps, which is a stutter.
* `ScanPush` is one blocking `uploading_queue_->Push`.
* `WorkerLoop` and `WorkerPop` are `UploadingWorker`'s loop test and its
  blocking `Pop`.
* `WorkerUpload` is `UploadStageBlock` with `ReadBlock`. It has three outcomes:
  OK, after which the put is submitted; NOT_FOUND; or an I/O error. The last two
  call `Uploaded(false)`.
* `PutSucceed` is the retry callback with `code == 0`: the block is stored, then
  `RemoveBlock`, then `Uploaded(true)`. A failed attempt is retried, which is a
  stutter.
* `FlushBegin` is `BlockCache::Flush` → `Countdown::Wait`.
* `WaitAllBegin` and `WaitAllReturn` are `WaitAllUploaded`'s poll loop.
* `Shutdown` and `ScanExit` are `Shutdown` and the loop exits it causes.

**Spec-modelled parts.** `PendingQueue`, `UploadingQueue` and `Countdown` are
not in `src/`, so they are modelled from the spec:

* `PendingQueue` pops CTO_FLUSH first, then NOCTO_FLUSH, then RELOAD, in
  segments of at most `SegmentSize`.
* `Countdown::Add(ino, -1, err)` wakes a waiter with the accumulated error when
  the count reaches zero, and resets the count.

**Abstractions**

* A block is its key and origin. The `seq` field is never read by the uploader.
* Keys are fresh per `Stage`, because a chunk id is allocated per write.
* `Check`, the hardlink into the cache tree and the LRU add of `Stage` do not
  affect the uploader and are left to the DiskCache module.

**Refinement.** `UploaderAbstract.tla` states what spec 4.5 promises of the
pipeline with its queues, workers and callbacks hidden. The uploader owns a
set of blocks (`owned`), and there are the stage files (`staged`) and the
object store (`stored`). A block leaves the owned set in exactly one of two
ways. `AStore` puts the object and then removes the stage file. `AAbandon`
gives the block up and leaves files and store alone. `Uploader` maps onto it
with `owned <- Pipeline`, `staged <- stageFile` and `stored <- store`:

* `Stage` is `AStage`.
* `PutSucceed` is `AStore`.
* `WorkerUpload` on NOT_FOUND or a read error is `AAbandon`.
* Every other step leaves the abstract state unchanged.

`ImplementsAbstract` checks this as a PROPERTY in the `uploader_safety`
run.

### `DiskCache.tla`: DiskCache composed with the uploader, across crashes

`DiskCache` instantiates `Uploader` (`U == INSTANCE Uploader`) over the same
variables. The uploader's steps run as `UploaderStep`, which leaves the disk
cache's own state unchanged.

**State.** It adds the following:

| variable | code |
|---|---|
| `cacheFile` | the files under `cache/` |
| `lockFile` | the lock file |
| `lru` | the keys held by `DiskCacheManager` |
| `healthy` | `IsHealthy()` |
| `dcRunning` | `running_` |
| `uploaderSet` | `uploader_` assigned, and the components started |
| `loaderPc`, `stageAtStart`, `stageSeen`, `cacheAtStart`, `cacheSeen` | the loader's two directory walks |
| `staged`, `lastInit` | history: keys whose `Stage` returned OK, and the last `Init` result |
| `crashes`, `shutdowns` | bound counters |

**Actions**

* `DiskInit` is `DiskCache::Init`. `running_.exchange(true)` comes first.
  `CreateDirsAndLoadLockFile` follows and may fail, which leaves `running_`
  set. On success the loader starts its walks.
* `DiskShutdown` is `Shutdown`.
* `Stage` is `Stage`, the whole handler:
  1. `Check(WANT_EXEC | WANT_STAGE)`;
  2. the stage file;
  3. the hard link and the LRU add, or an ignored link error;
  4. `AddStageBlock`.
* `Cache` and `Load` are `Cache` and `Load`. `Load`'s only state change is its
  NOT_FOUND delete.
* `Check`, `StageFull`, `CacheFull` and `IsCached` are the predicates of the
  same names.
* `LoaderStage`, `LoaderCache` and `LoaderDone` are `DiskCacheLoader`, from
  the spec. A walk may return any file not yet visited, including one created
  after the walk began. It is done once every file that existed at its start
  and still exists has been visited.
* `DiskHealthChange` and `ExternalDelete` are environment faults, enabled by
  `DiskFaults`.
* `Crash` is the client process dying and starting again:
  * files, the lock file and the object store survive;
  * a put in flight may or may not have landed;
  * every in-memory structure is reset, and the uploader is re-initialised.

**Abstractions**

* `Stage` is one step, so the Check-then-write race on the stage cap is not
  explored. The spec allows that overshoot.
* The manager's sweeps are not modelled.

### `EtcdIdGenerator.tla`: id bundles reserved by CAS on an etcd key

Each MDS process's `EtcdIdGenerator` has these variables:

| variable | code |
|---|---|
| `nextId` | `nextId_` |
| `bundleEnd` | `bundleEnd_` |
| `etcd` | the value under `storeKey_` |
| `issued` | history: the ids `GenID` returned, in order |

`GenID` holds the generator's own lock, so each generator is sequential.
Generators in other processes interleave their `Get` and `CompareAndSwap` on
the shared key.

**Actions**

* `GenIDFromBundle`: `*id = nextId_++`.
* `AllocGet`: the `Get` of `AllocateBundleIds`. It may fail;
  `EtcdKeyNotExist` stands for `initialize_`.
* `AllocCas`: the CAS. It can succeed, fail on a mismatch, or time out after
  etcd applied it.
* `Crash`: a process restarts at `initialize_`. A CAS it had sent may or may
  not have been applied.

The etcd client is not in the tree. Its CAS is modelled as a linearizable
swap on the stored value.

### `CopysetSchedule.tla`: copyset configuration changes, MDS and metaservers

This module models one copyset.

**Metaserver side.** Each metaserver runs `HeartbeatWorker`:

* `BuildRequest`: `BuildRequest`, `BuildCopysetInfo` and
  `GatherCopysetConfChange`.
* `SendHeartbeat`: `SendHeartbeat` with its failover of `inServiceIndex_`.
* `ExecTasks`: `ExecTasks` and `ExecOneTask`, in this order:
  1. the missing-copyset return;
  2. `NeedPurge` and `DoPurgeCopyset`;
  3. the epoch check;
  4. the missing-type return;
  5. the `Do*` call.

  `NewPeers` is `DoChangePeer`'s peer list, built from the conf.

**MDS side.**

* `CopySetHeartbeat` is `Coordinator::CopySetHeartbeat`, with the
  `info.epoch != op.startEpoch` check. The candidate-offline check is
  omitted.
* `BuildCopySetConf` and `MetaserverGoingToAdd` are the coordinator
  functions of the same names.
* `PlannableOps` are the operators `OperatorFactoryT` creates, with
  `startEpoch` taken from the copyset info the scheduler sees: the MDS's
  topology record.

**Outside this repository.** These parts are over-approximated:

* OperatorController's `ApplyOperator` may order, wait or finish at any
  report.
* The heartbeat manager updates the record from a leader's newer report. It
  may answer a metaserver outside the record with the record.
* braft does one change at a time, only on the leader. It commits later, with
  the epoch incremented.
* `MdsRestart` loses the in-memory operators and keeps the persisted record.

### `TopologyManager.tla`: partition, copyset and memcache cluster creation in the MDS

`CreatePartitions` is served by concurrent RPC threads. Each request holds a
`NameLock` on its own fsId only. Requests for different filesystems therefore
interleave step by step, around the metaserver RPCs and the topology updates.

| definition | code |
|---|---|
| `Start`, `Return` | entering `CreatePartitions` with its `NameLockGuard`, and every return |
| `LoopTop` | the `while` test, `createNum`, and `GenCopysetAddrBatch` failing |
| `AllocCopyset` | one iteration of `CreateEnoughCopyset`: `AllocateCopySetId`, then `AddCopySetCreating` |
| `CopysetRpc`, `CopysetAdd` | `CreateCopyset`: the RPC, then `AddCopySet`, with `ClearCopysetCreating` on every path |
| `ListCopysets`, `SortedCopysets` | `GetAvailableCopysetList`, the sort by partition count (ties in any order), `tempCount` |
| `PartitionRpc`, `PartitionAdd` | `CreatePartitionOnCopyset`: the index, `AllocatePartitionId` and the RPC, then `AddPartition` |
| `DeletePartition` | `DeletePartition(request)`; its failure paths change nothing |
| `McStart`, `McReply` | entering `RegistMemcacheCluster` with `registMemcacheClusterMutex_`, and every return |
| `McScan`, `SameCluster` | the idempotence loop with `MemcacheCluster::operator==`, then the `ListMemcacheServers` duplicate test |
| `McAdd` | `AllocateMemCacheClusterId`, then `AddMemcacheCluster` |

`RegistMemcacheCluster` is served by the same threads, so a caller in the
model serves either kind of request, and the two kinds share the call bound.
A request is a list of one or two memcache servers and may name a server
twice. `SameCluster` translates the equality the code uses: the lengths are
equal, and every recorded server is found in the request. It does not check
the other direction.

`TopologyAbstract.tla` states what these handlers promise as seen by the
`Topology` store and the metaservers. Requests, NameLocks and loops are
hidden there, and each change is one atomic step:

* a copyset or partition id appears on a metaserver;
* a copyset is recorded once a metaserver has it;
* a partition is recorded once a metaserver has it, on a recorded copyset,
  with the next index of its filesystem;
* a READWRITE partition is marked DELETING;
* a memcache cluster is recorded with a fresh id and servers that no other
  cluster has.

`TopologyManager` instantiates it with identical variable names, and the
topology run checks `ImplementsTopologyAbstract == Abs!ASpec`. A
`CreateCopyset` that recorded the copyset although the RPC failed breaks
the refinement. None of the invariants catches that mutant.

The `Topology` store (`topology.cpp`) is not in the tree. The model assumes
the following about it:

* Ids come from bounded pools.
* `AddCopySet` and `AddPartition` record the item or fail.
* `AddPartition` counts the partition in `ClusterInformation::partitionIndexs`.
  `GetPartitionIndexOfFS` reads that counter (`topology_item.h`).
* A copyset is available while it holds fewer than `MaxPartitionsPerCopyset`
  partitions.

A failed RPC may still have taken effect on the metaservers.

### `TopologyRegistration.tla`: metaserver and server registration

The registration handlers run on concurrent RPC threads. `RegistMetaServer`
holds a `NameLock` on the metaserver's ip:port, which orders it only
against other registrations of that endpoint. `RegistServer`,
`DeleteMetaServer` and `DeleteServer` take no lock. Each step of the model
is one `Topology` call of a handler:

* `MsStart`, `MsList`, `MsGet`, `MsServer`, `MsAlloc` and `MsAdd` are the
  calls of `RegistMetaServer`, in order: the lock, `GetMetaServerInCluster`
  (with the duplicate and copyset tests), the unchecked `GetMetaServer`,
  `FindServerByHostIpPort`, id and token allocation with `GetServer` and the
  external-ip test, and `AddMetaServer`.
* `ServerCheck` and `ServerAdd` are `RegistServer`'s endpoint test, then
  `AllocateServerId` and `AddServer`. The pool and zone lookups always
  succeed in this model.
* `DeleteServer` removes the server's OFFLINE metaservers. It stops at the
  first one that is not OFFLINE, so it may remove only some of them.
* The environment marks a metaserver OFFLINE (its heartbeats stopped) and
  places copysets on online metaservers.

## Runs

| run | cfg | expect | what it shows |
|---|---|---|---|
| uploader_safety | `MCUploaderSafety.cfg` | pass | `TypeOK` (the uploading queue never exceeds its capacity), `CountMatchesPipeline` (the Countdown equals the CTO_FLUSH blocks anywhere in the pipeline, so every exit path decrements once) and `FlushDurability` (a Flush that returns OK found every block it waited for stored) and `ImplementsAbstract` (the pipeline refines `UploaderAbstract`, so a stage file is removed only after its object is stored, and a block leaves the pipeline only by a put or by being abandoned). Shutdown is included. |
| uploader_waitall | `MCUploaderWaitAll.cfg` | violation | `WaitAllUploadedMeansDurable` fails in four steps after the initial state: Stage, ScanPop (the block is now in the scan worker's batch), WaitAllBegin, WaitAllReturn. |
| uploader_shutdown | `MCUploaderShutdown.cfg` | violation | `ShutdownCompletes` fails: an upload worker waiting in `Pop` on an empty queue never re-tests `running_`. |
| diskcache_restart | `MCDiskCacheRestart.cfg` | pass | `NoStagedBlockLost` (a staged block is always in its stage file or in the store) and `CacheFilesTracked` (once the loader is done every cache file is in the LRU), for one block and two workers, with the put in flight at a crash landing or not. The disk cache is shut down and re-initialised twice while the uploader keeps running, so the loader re-enqueues duplicates. There are also two crashes, health changes and out-of-band deletes. |
| diskcache_recovery | `MCDiskCacheRecovery.cfg` | pass | Liveness of the uploader inside the disk cache, with up to two crashes and no read errors:<br>• `StageFilesRetired`: every stage file, including a crash's orphan, is eventually stored and removed.<br>• `BlocksLeavePipeline`: every block handed to the uploader eventually leaves it, including the loader's re-enqueued copies.<br>• `FlushReturns`: a waiting Flush is eventually woken. |
| diskcache_dup_upload | `MCDiskCacheDupUpload.cfg` | violation | `FlushErrorMeansLoss` fails. A block staged during the loader's walk is enqueued as CTO_FLUSH and as RELOAD. The RELOAD copy uploads and removes the file, then the CTO_FLUSH copy reads NOT_FOUND, and `Flush` returns an error for stored data. |
| diskcache_init | `MCDiskCacheInit.cfg` | violation | `InitOkMeansInitialized` fails. A failed `Init` leaves `running_` true, and the next `Init` returns OK without initialising anything. |
| idgen_safety | `MCEtcdIdGenerator.cfg` | pass | With two generators, bundles of two and ids up to 6:<br>• `IdsUnique`: no id is returned twice.<br>• `IdsReserved`: every returned id is covered by the etcd value.<br>• `IdsIncreasing`: each generator's ids increase.<br>This holds across racing CASes, failed Gets, timed-out CASes that etcd applied, and two restarts. |
| copyset_safety | `MCCopysetSchedule.cfg` | pass | `ChangesMatchPlan`: every change a metaserver starts runs at the epoch its operator was planned on, against the peers it was planned for. The case is three metaservers, two MDS endpoints, one MDS restart, and operators of every type planned while the epoch is below 2. Dropping either epoch check breaks it: the coordinator's (after an MDS restart) or the metaserver's (after a commit between report and execution). |
| copyset_failover | `MCCopysetFailover.cfg` | pass | `HeartbeatsReachMds`: with three MDS endpoints and two failovers, every metaserver's heartbeat keeps reaching the MDS in service. The strong fairness on a failover step assumes one of the four error codes at `heartbeat.cpp:346` eventually occurs, so the run cannot show a heartbeat that fails with another code and never moves on; that case stays an open hazard. |
| topology | `MCTopologyManager.cfg` | pass | Two requests over two filesystems, with every RPC and topology update able to fail:<br>• `PartitionIndexUnique`: two recorded partitions of one filesystem never share an index, so never an inode range.<br>• `CreatingCleared`: a copyset is marked creating only while a request is inside `CreateCopyset`.<br>• `ResponseRecorded`: a TOPO_OK response lists `count` partitions, all recorded and created.<br>• `CallsReturn`: every request returns, because each pass of its loop adds a partition or fails.<br>• `MemcacheServersUnique`: concurrent `RegistMemcacheCluster` calls never record one memcache server in two clusters.<br>• `CopysetLoadBounded`: a copyset holds at most the limit of one filesystem's partitions, and at most one extra partition per concurrent request.<br><br>• `ImplementsTopologyAbstract`: the handlers refine `TopologyAbstract`.<br>Dropping the NameLock breaks the first. Dropping the memcache mutex breaks `MemcacheServersUnique`. Recording a copyset whose RPC failed breaks the refinement. Placing every partition on the first copyset breaks `CopysetLoadBounded`. |
| registration_duplicate | `MCTopologyRegistration.cfg` | violation | `RegistOkHasId` fails in twelve steps. A metaserver with no copysets is registered. A second `RegistMetaServer` for its endpoint finds it as a duplicate. `DeleteMetaServer` removes it. The unchecked `GetMetaServer` leaves `ms` default-constructed, and the handler answers TOPO_OK with UNINITIALIZE_ID. |

**Bounds**

* One inode and two upload workers.
* Queue capacity 2, which makes the "half full" test of `CanUpload` meaningful.
* Segment size 2, so a batch has more than one block and the push can block
  mid-batch.
* Three block keys in the uploader safety run. The liveness properties are
  checked in the DiskCache recovery run with one block, because liveness
  checking holds the whole graph in memory and two blocks with crashes do
  not finish in five minutes.

Two workers are enough for two blocks to be held at once, and for one worker to
abandon a block while another's put is outstanding. The workers are model
values, and the safety run uses symmetry over them. This is sound because
every worker runs the same loop on the same shared queues, and the run checks
only invariants and the refinement property, which are safety properties.
Three keys are enough for a
batch of two to fill the queue while a third waits in pending.

The DiskCache runs use one inode with one or two blocks, and caps of one or
two files. A single key is enough for the loader to enqueue a duplicate of a
block. Crashes and shutdowns are bounded by `MaxCrashes` and `MaxShutdowns`,
because each re-initialisation re-enqueues every stage file. Two blocks with
a Shutdown/re-Init cycle take over six million states, so the safety
invariants are checked with one block and two workers.

The id generator run reserves up to id 6 in bundles of two. That is three
bundles for two generators, so one generator must come back for a second
bundle while the other holds a stale `Get`. The width of `uint64_t` does not
matter below that bound.

The copyset runs use three metaservers with two initial peers, so there is a
non-member to add or exchange. `MaxEpoch = 2` allows one planned epoch, and
one MDS restart is enough to plan an operator on a stale record. That run has
3.6 million distinct states; `MaxEpoch = 3` does not finish in five minutes.

The topology run uses two requests, two filesystems, requests of two
partitions, copysets that hold one partition (so the over-limit case is reached), three copyset ids and three
partition ids. Two calls can exhaust both id pools, so the `UNINITIALIZE_ID`
paths are reached. Symmetry is not used, because the run checks liveness. Two filesystems let two requests run at once under
different locks. A second call for the same filesystem then reads the index
that the first call left behind. Two memcache servers and requests of up to
two servers let two registrations overlap, and let a request name a server
twice. Two cluster ids let both of them be added.

**Fairness**

* The scan thread and each upload thread run forever and are scheduled by the
  OS, so each is weakly fair.
* `AsyncPut` retries a failed put forever, so weak fairness of a successful
  callback per key stands for "the object store eventually accepts".
* `WaitAllUploaded` polls every second, so its return is weakly fair.
* `Quiescent` is a stutter step for the final state, in which every staged
  block has left the uploader. Deadlock is then a real hang. Deadlock checking
  is off only in the cfgs that include `Shutdown`, because after shutdown the
  threads do stop.

In `SpecLive` of `DiskCache` the same uploader fairness applies, expressed on
the module's own wrappers `ScanStep`, `WorkerStep` and `PutStep`. In addition:

* A process that is not yet initialised calls `Init`. It does so at startup
  and after a crash.
* The loader's walks finish: the loader is a thread.
* `DiskShutdown` is left out of `SpecLive`. After a shutdown, nothing promises
  a new `Init`.

In `SpecFailover` of `CopysetSchedule`, each heartbeat thread is weakly fair:
it loops forever. Two steps are strongly fair. A call to the serving MDS
eventually succeeds. A call to an endpoint that serves nothing eventually
fails with a code that moves the index, because brpc reports `EHOSTDOWN`
once the connection to a dead server is marked failed. Both steps are only
intermittently enabled, which is why strong fairness is needed.

In `FairSpec` of `TopologyManager`, the steps of a request that holds its
lock are weakly fair: the request runs on an RPC thread of its own.

## Findings

* **WaitAllUploaded can return before the data is stored.**
  `block_cache_uploader.cpp:221` returns once both queues are empty, but a block
  can be between the queues: in the scan worker's batch, in a worker's hands, or
  in a put being retried.
* **Shutdown can hang.** `BlockCacheUploader::Shutdown` stops the thread pools,
  which joins an upload worker blocked forever in `UploadingQueue::Pop`.
* **Duplicate upload turns a durable block into a flush error.** The loader
  walks `stage/` while `Stage` keeps running, so one block can be uploaded
  twice. `block_cache_uploader.cpp:155` treats the loser's NOT_FOUND as a
  failed upload.
* **A failed `DiskCache::Init` leaves `running_` set.** `disk_cache.cpp:91`
  sets it before `CreateDirs` and `LoadLockFile`, and nothing resets it on
  failure. The next `Init` returns OK at line 92 with no `uploader_` and no
  loader.
* **A duplicated metaserver registration can return TOPO_OK with no id.**
  `topology_manager.cpp:78` ignores the result of `GetMetaServer(list[0])`.
  The NameLock does not order it against `DeleteMetaServer`, or against
  `DeleteServer` once the metaserver is OFFLINE. A removal after the lookup
  at line 64 makes the handler answer TOPO_OK with id UNINITIALIZE_ID and an
  empty token.

**Open: memcache registration idempotence.** `MemcacheCluster::operator==`
(`topology_item.h:876`) checks only that every recorded server is in the
request. The duplicate test of `RegistMemcacheCluster` looks only at servers
already registered. So a request `[s1, s1]` is recorded as it is. A later
request `[s1, s2]` is then judged equal to it and answers TOPO_OK with that
cluster's id, although `s2` is in no cluster. The topology run reaches this
state after two calls. It is listed as a hazard and not as a violation run,
because all twelve runs are in use.

**Open: Flush durability after an earlier CTO failure.** Spec 4.5 says a
successful `wait_flush(ino)` means every `CtoFlush` block staged for `ino`
before the call is durable. The Countdown error flag is cleared once the
count reaches zero, and a `Flush` with count zero returns OK. So a CTO block
that failed and was counted down before the `Flush` is not reported. The
Countdown is not under `src/`, so this is a disagreement between the spec's
sentences rather than a code bug. `FlushDurability` therefore covers only
blocks that are in flight when `Flush` is called.

**Open: alignment checks in `dingofs_create_fs.cpp`.** `is_aligned`
(line 194) masks with `alignment - 1`, which is correct only for powers of
two. `volumeBlockSize` is only checked to be a multiple of 4096. A block
size of 12288 therefore accepts a 128 MiB block group, which is not a
multiple of it. Line 204 has the same problem for the slice size. This is listed as a hazard; `fast_align` has no run.

**Copysets over their partition limit.** `GetAvailableCopysetList`
reads the partition counts before the request adds to them, and the
NameLock serialises only one filesystem. Two requests can both pick a
copyset with one slot left. The topology run uses `MaxPartitionsPerCopyset
= 1`, where TLC reaches a copyset holding two partitions. `CopysetLoadBounded`
states what still holds: no filesystem puts more than the limit on a
copyset, and each concurrent request adds at most one partition past it.

## Plan

In order of importance:

1. (done) **DiskCache module** composed with `Uploader`, with crash and
   restart.
2. **Countdown error semantics.** A violation run for the error flag that is
   reset at zero with no waiter.
3. (done) **Abstract uploader.** A set of staged blocks that become stored, with
   `Uploader` shown to refine it through a refinement mapping.
4. (done) **EtcdIdGenerator.**
5. (done) **TopologyManager.** Partition and copyset creation and
   deletion, and memcache cluster registration. Metaserver and server
   registration are in `TopologyRegistration`.
   Pools, zones and the other single-update calls are left out.
6. (done) **Coordinator and metaserver heartbeat** (`CopysetSchedule`).
7. **LeaseExecutor.** The txid refresh race. It needs a run of its own.
8. **fast_align.** The operators, checked against reference definitions.
   It needs a run of its own.
9. **Memcache registration idempotence.** A violation run for the open
   hazard above, once a run is free.

Items 2, 7, 8 and 9 each need a run of their own, and all twelve runs are in
use. Each would replace a run or be merged into one.

## Not modelled

* Tools, metrics, status codes and logging: I/O and formatting.
* Interface headers whose implementation is not in the tree.
* `MemCache`: every operation returns NOT_SUPPORTED.
* `CreatePartitionsAndGetMinPartition`: it picks the smallest id of a
  `CreatePartitions` response. Within one call ids and indices come from two
  counters that only rise, so the smallest id always has the lowest index;
  no interleaving can change that, and nothing is left to check.
* `CreateZone`, `DeleteZone`, `CreatePool`, `DeletePool`, `CommitTx`,
  `UpdatePartitionStatus`, `AllocOrGetMemcacheCluster`: each is a check and
  one call of the `Topology` store, which is not in the tree. A model would
  only restate an assumed store.
* `LeaseExecutor` and `fast_align`: modelling them is feasible, but each
  needs a run of its own and all twelve runs are in use.
* `metastore_fstream.cpp`: serialisation.
