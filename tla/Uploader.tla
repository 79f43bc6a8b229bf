------------------------------ MODULE Uploader ------------------------------
(***************************************************************************)
(* BlockCacheUploader (src/client/blockcache/block_cache_uploader.cpp):    *)
(* the two-stage pipeline that moves staged blocks to the object store.    *)
(*                                                                         *)
(*   AddStageBlock ---> pending ---ScaningWorker---> uploading (bounded)   *)
(*       ---UploadingWorker: ReadBlock---> AsyncPut ---callback--->        *)
(*       RemoveStage + Uploaded                                            *)
(*                                                                         *)
(* The per-inode Countdown (stage_count_) counts CTO_FLUSH blocks; Flush   *)
(* waits for an inode's count to reach zero.  PendingQueue, UploadingQueue *)
(* and Countdown are not under src/ and are modelled from the spec.        *)
(***************************************************************************)
EXTENDS Naturals, Sequences, FiniteSets

CONSTANTS
  Inodes,       \* inodes whose blocks are staged
  Indices,      \* block indices per inode: a key is <<ino, index>>
  Workers,      \* upload_workers
  QueueCap,     \* upload_queue_size, capacity of the uploading queue
  SegmentSize,  \* most blocks PendingQueue::Pop returns as one batch
  ReadErrors    \* whether reading a stage file may fail with an I/O error

ASSUME QueueCap \in Nat \ {0} /\ SegmentSize \in Nat \ {0} /\ Workers # {}
       /\ ReadErrors \in BOOLEAN

Keys == Inodes \X Indices
Ino(k) == k[1]

CTO == "CTO_FLUSH"
NOCTO == "NOCTO_FLUSH"
RELOAD == "RELOAD"
Froms == {CTO, NOCTO, RELOAD}
\* PendingQueue::Pop serves the queues in this order (spec 4.5: a CTO
\* burst is admitted regardless of background traffic).
PopPriority == <<CTO, NOCTO, RELOAD>>

\* seq (g_seq_num) is carried but never read by the uploader; keys are
\* fresh per Stage, so a block is identified by its key and origin.
StageBlocks == [key : Keys, from : Froms]

\* A blocked caller and the keys it is waiting for.
Waiter == [wait : BOOLEAN, snap : SUBSET Keys]
Idle == [wait |-> FALSE, snap |-> {}]

VARIABLES
  stageFile,  \* keys whose stage/{filename} exists on local disk
  pending,    \* PendingQueue: one FIFO per BlockFrom
  scanPc,     \* scan worker: "top" | "push" | "exit"
  scanBatch,  \* blocks the scan worker popped and is pushing
  uploading,  \* UploadingQueue
  wpc,        \* upload worker: "top" | "pop" | "read" | "exit"
  held,       \* the block an upload worker popped ({} or a singleton)
  inflight,   \* blocks whose AsyncPut is outstanding
  store,      \* keys present in the object store
  count,      \* Countdown: per-inode count of CTO_FLUSH blocks
  hasErr,     \* Countdown: some counted block of the inode failed
  flushing,   \* Flush(ino) callers: waiting?, and the CTO keys it waits for
  lastFlush,  \* result of each inode's last Flush: [res, snap]
  waitAll,    \* WaitAllUploaded caller: waiting?, and the blocks it waits for
  lastWaitAll,\* result of the last WaitAllUploaded: [done, snap]
  running     \* running_

vars == <<stageFile, pending, scanPc, scanBatch, uploading, wpc, held,
          inflight, store, count, hasErr, flushing, lastFlush, waitAll,
          lastWaitAll, running>>

-----------------------------------------------------------------------------
SeqSet(s) == {s[i] : i \in DOMAIN s}

HeldByWorkers == UNION {held[w] : w \in Workers}

\* Every StageBlock the uploader still owns, wherever it is.
Pipeline ==
  UNION {SeqSet(pending[f]) : f \in Froms}
    \cup SeqSet(scanBatch) \cup SeqSet(uploading) \cup HeldByWorkers
    \cup inflight

NeedCount(b) == b.from = CTO

CtoKeysInFlight(i) ==
  {b.key : b \in {x \in Pipeline : NeedCount(x) /\ Ino(x.key) = i}}

\* Mutant: every finished block decrements the Countdown, not only the
\* CTO_FLUSH blocks that Staging counted.
UploadedAlways(b, success) ==
  LET i == Ino(b.key)
      err == hasErr[i] \/ ~success
  IN /\ count' = [count EXCEPT ![i] = @ - 1]
     /\ IF count[i] = 1
        THEN /\ hasErr' = [hasErr EXCEPT ![i] = FALSE]
             /\ IF flushing[i].wait
                THEN /\ lastFlush' = [lastFlush EXCEPT ![i] =
                          [res |-> IF err THEN "err" ELSE "ok",
                           snap |-> flushing[i].snap]]
                     /\ flushing' = [flushing EXCEPT ![i] = Idle]
                ELSE UNCHANGED <<lastFlush, flushing>>
        ELSE /\ hasErr' = [hasErr EXCEPT ![i] = err]
             /\ UNCHANGED <<lastFlush, flushing>>

\* Mutant: the wake-up test looks at the count before the decrement.
UploadedWakeOffByOne(b, success) ==
  IF NeedCount(b)
  THEN LET i == Ino(b.key)
       IN /\ count' = [count EXCEPT ![i] = @ - 1]
          /\ IF count[i] = 0
             THEN /\ hasErr' = [hasErr EXCEPT ![i] = FALSE]
                  /\ flushing' = [flushing EXCEPT ![i] = Idle]
                  /\ lastFlush' = [lastFlush EXCEPT ![i] =
                        [res |-> "ok", snap |-> flushing[i].snap]]
             ELSE /\ hasErr' = [hasErr EXCEPT ![i] = @ \/ ~success]
                  /\ UNCHANGED <<lastFlush, flushing>>
  ELSE UNCHANGED <<count, hasErr, flushing, lastFlush>>

\* Countdown::Add(ino, -1, !success): the count reaching zero wakes the
\* inode's waiter with the accumulated error and resets the counter.
Uploaded(b, success) ==
  IF NeedCount(b)
  THEN LET i == Ino(b.key)
           err == hasErr[i] \/ ~success
       IN /\ count' = [count EXCEPT ![i] = @ - 1]
          /\ IF count[i] = 1
             THEN /\ hasErr' = [hasErr EXCEPT ![i] = FALSE]
                  /\ IF flushing[i].wait
                     THEN /\ lastFlush' = [lastFlush EXCEPT ![i] =
                               [res |-> IF err THEN "err" ELSE "ok",
                                snap |-> flushing[i].snap]]
                          /\ flushing' = [flushing EXCEPT ![i] = Idle]
                     ELSE UNCHANGED <<lastFlush, flushing>>
             ELSE /\ hasErr' = [hasErr EXCEPT ![i] = err]
                  /\ UNCHANGED <<lastFlush, flushing>>
  ELSE UNCHANGED <<count, hasErr, flushing, lastFlush>>

\* PendingQueue::Pop(peek): a segment from the first non-empty queue.
FirstFrom == CHOOSE j \in 1..3 : pending[PopPriority[j]] # <<>>
                                 /\ \A l \in 1..(j-1) : pending[PopPriority[l]] = <<>>
PendingNonEmpty == \E f \in Froms : pending[f] # <<>>
PeekBatch ==
  LET q == pending[PopPriority[FirstFrom]]
  IN SubSeq(q, 1, IF Len(q) < SegmentSize THEN Len(q) ELSE SegmentSize)

\* Reserve space for stage blocks which come from CTO_FLUSH.
CanUpload(blocks) ==
  /\ blocks # <<>>
  /\ \/ blocks[1].from = CTO
     \/ 2 * Len(uploading) < QueueCap   \* Size() < Capacity() * 0.5

-----------------------------------------------------------------------------
Init ==
  /\ stageFile = {}
  /\ pending = [f \in Froms |-> <<>>]
  /\ scanPc = "top"
  /\ scanBatch = <<>>
  /\ uploading = <<>>
  /\ wpc = [w \in Workers |-> "top"]
  /\ held = [w \in Workers |-> {}]
  /\ inflight = {}
  /\ store = {}
  /\ count = [i \in Inodes |-> 0]
  /\ hasErr = [i \in Inodes |-> FALSE]
  /\ flushing = [i \in Inodes |-> Idle]
  /\ lastFlush = [i \in Inodes |-> [res |-> "none", snap |-> {}]]
  /\ waitAll = Idle
  /\ lastWaitAll = [done |-> FALSE, snap |-> {}]
  /\ running = TRUE

\* AddStageBlock: Staging (count a CTO block) then push to pending.
AddStageBlock(k, from) ==
  LET b == [key |-> k, from |-> from]
  IN /\ pending' = [pending EXCEPT ![from] = Append(@, b)]
     /\ IF NeedCount(b)
        THEN count' = [count EXCEPT ![Ino(k)] = @ + 1]
        ELSE UNCHANGED count

\* The caller (DiskCache::Stage) writes stage/{filename} and hands the
\* block over.  A chunk id is allocated per write, so keys are fresh.
Stage(k, from) ==
  /\ k \notin stageFile /\ k \notin store
  /\ stageFile' = stageFile \cup {k}
  /\ AddStageBlock(k, from)
  /\ UNCHANGED <<scanPc, scanBatch, uploading, wpc, held, inflight, store, hasErr,
                 flushing, lastFlush, waitAll, lastWaitAll, running>>

\* ScaningWorker, one loop iteration: peek, CanUpload, pop the batch.
\* When CanUpload fails the worker sleeps 10ms: a stuttering step.
ScanPop ==
  /\ scanPc = "top" /\ running
  /\ PendingNonEmpty
  /\ CanUpload(PeekBatch)
  /\ LET f == PopPriority[FirstFrom]
     IN pending' = [pending EXCEPT ![f] = SubSeq(@, Len(PeekBatch) + 1, Len(@))]
  /\ scanBatch' = PeekBatch
  /\ scanPc' = "push"
  /\ UNCHANGED <<stageFile, uploading, wpc, held, inflight, store, count,
                 hasErr, flushing, lastFlush, waitAll, lastWaitAll, running>>

\* Mutant: the push does not wait for a free slot.
ScanPushNoBackpressure ==
  /\ scanPc = "push"
  /\ uploading' = Append(uploading, Head(scanBatch))
  /\ scanBatch' = Tail(scanBatch)
  /\ scanPc' = IF Len(scanBatch) = 1 THEN "top" ELSE "push"
  /\ UNCHANGED <<stageFile, pending, wpc, held, inflight, store, count,
                 hasErr, flushing, lastFlush, waitAll, lastWaitAll, running>>

\* uploading_queue_->Push(stage_block): blocks while the queue is full.
ScanPush ==
  /\ scanPc = "push"
  /\ Len(uploading) < QueueCap
  /\ uploading' = Append(uploading, Head(scanBatch))
  /\ scanBatch' = Tail(scanBatch)
  /\ scanPc' = IF Len(scanBatch) = 1 THEN "top" ELSE "push"
  /\ UNCHANGED <<stageFile, pending, wpc, held, inflight, store, count,
                 hasErr, flushing, lastFlush, waitAll, lastWaitAll, running>>

ScanExit ==
  /\ scanPc = "top" /\ ~running
  /\ scanPc' = "exit"
  /\ UNCHANGED <<stageFile, pending, scanBatch, uploading, wpc, held,
                 inflight, store, count, hasErr, flushing, lastFlush, waitAll,
                 lastWaitAll, running>>

\* UploadingWorker: while (running_) { Pop(); UploadStageBlock(); }
WorkerLoop(w) ==
  /\ wpc[w] = "top"
  /\ wpc' = [wpc EXCEPT ![w] = IF running THEN "pop" ELSE "exit"]
  /\ UNCHANGED <<held, stageFile, pending, scanPc, scanBatch, uploading,
                 inflight, store, count, hasErr, flushing, lastFlush, waitAll,
                 lastWaitAll, running>>

\* uploading_queue_->Pop(): blocks while the queue is empty.
WorkerPop(w) ==
  /\ wpc[w] = "pop"
  /\ uploading # <<>>
  /\ wpc' = [wpc EXCEPT ![w] = "read"]
  /\ held' = [held EXCEPT ![w] = {Head(uploading)}]
  /\ uploading' = Tail(uploading)
  /\ UNCHANGED <<stageFile, pending, scanPc, scanBatch, inflight,
                 store, count, hasErr, flushing, lastFlush, waitAll,
                 lastWaitAll, running>>

\* Mutant: a failed ReadBlock other than NOT_FOUND skips Uploaded.
WorkerUploadSkipReadError(w) ==
  /\ wpc[w] = "read"
  /\ wpc' = [wpc EXCEPT ![w] = "top"]
  /\ held' = [held EXCEPT ![w] = {}]
  /\ \E b \in held[w] :
       \/ /\ b.key \in stageFile
          /\ inflight' = inflight \cup {b}
          /\ UNCHANGED <<count, hasErr, flushing, lastFlush>>
       \/ /\ b.key \notin stageFile
          /\ inflight' = inflight
          /\ Uploaded(b, FALSE)
       \/ /\ ReadErrors /\ b.key \in stageFile
          /\ UNCHANGED <<inflight, count, hasErr, flushing, lastFlush>>
  /\ UNCHANGED <<stageFile, pending, scanPc, scanBatch, uploading, store,
                 waitAll, lastWaitAll, running>>

\* UploadStageBlock: ReadBlock, then AsyncPut on OK; on NOT_FOUND or an
\* I/O error the block is abandoned with Uploaded(false).
WorkerUpload(w) ==
  /\ wpc[w] = "read"
  /\ wpc' = [wpc EXCEPT ![w] = "top"]
  /\ held' = [held EXCEPT ![w] = {}]
  /\ \E b \in held[w] :
       \/ /\ b.key \in stageFile                      \* rc == OK
          /\ inflight' = inflight \cup {b}
          /\ UNCHANGED <<count, hasErr, flushing, lastFlush>>
       \/ /\ b.key \notin stageFile                   \* rc == NOT_FOUND
          /\ inflight' = inflight
          /\ Uploaded(b, FALSE)
       \/ /\ ReadErrors /\ b.key \in stageFile       \* other read error
          /\ inflight' = inflight
          /\ Uploaded(b, FALSE)
  /\ UNCHANGED <<stageFile, pending, scanPc, scanBatch, uploading,
                 store, waitAll, lastWaitAll, running>>

\* DiskCache::RemoveStage: remove stage/{filename}, whatever the disk's
\* state (no Check); a missing file is only logged.
RemoveStage(k) == stageFile' = stageFile \ {k}

\* Mutant: the callback takes a failed attempt (code != 0) for success.
PutSucceedIgnoreCode(b) ==
  /\ b \in inflight
  /\ stageFile' = stageFile \ {b.key}
  /\ inflight' = inflight \ {b}
  /\ Uploaded(b, TRUE)
  /\ UNCHANGED <<pending, scanPc, scanBatch, uploading, wpc, held, store,
                 waitAll, lastWaitAll, running>>

\* Mutant: the callback asks for a retry after a successful put too.
PutSucceedRetryAlways(b) ==
  /\ b \in inflight
  /\ store' = store \cup {b.key}
  /\ UNCHANGED <<stageFile, pending, scanPc, scanBatch, uploading, wpc, held,
                 inflight, count, hasErr, flushing, lastFlush, waitAll,
                 lastWaitAll, running>>

\* The retry_cb with code == 0: the object is stored, RemoveBlock removes
\* the stage file, Uploaded(true).  A failed attempt returns true and the
\* adapter retries: a stuttering step.
PutSucceed(b) ==
  /\ b \in inflight
  /\ store' = store \cup {b.key}
  /\ RemoveStage(b.key)
  /\ inflight' = inflight \ {b}
  /\ Uploaded(b, TRUE)
  /\ UNCHANGED <<pending, scanPc, scanBatch, uploading, wpc, held,
                 waitAll, lastWaitAll, running>>

\* BlockCache::Flush(ino) -> stage_count_->Wait(ino).
FlushBegin(i) ==
  /\ ~flushing[i].wait
  /\ IF count[i] = 0
     THEN /\ lastFlush' = [lastFlush EXCEPT ![i] = [res |-> "ok", snap |-> {}]]
          /\ UNCHANGED flushing
     ELSE /\ flushing' = [flushing EXCEPT ![i] = [wait |-> TRUE, snap |-> CtoKeysInFlight(i)]]
          /\ UNCHANGED lastFlush
  /\ UNCHANGED <<stageFile, pending, scanPc, scanBatch, uploading,
                 wpc, held, inflight, store, count, hasErr, waitAll, lastWaitAll,
                 running>>

\* WaitAllUploaded: polls until both queues are empty.
WaitAllBegin ==
  /\ ~waitAll.wait
  /\ waitAll' = [wait |-> TRUE, snap |-> {b.key : b \in Pipeline}]
  /\ UNCHANGED <<stageFile, pending, scanPc, scanBatch, uploading,
                 wpc, held, inflight, store, count, hasErr, flushing, lastFlush,
                 lastWaitAll, running>>

WaitAllReturn ==
  /\ waitAll.wait
  /\ \A f \in Froms : pending[f] = <<>>
  /\ uploading = <<>>
  /\ lastWaitAll' = [done |-> TRUE, snap |-> waitAll.snap]
  /\ waitAll' = Idle
  /\ UNCHANGED <<stageFile, pending, scanPc, scanBatch, uploading,
                 wpc, held, inflight, store, count, hasErr, flushing, lastFlush,
                 running>>

\* Shutdown: running_ = false, then both thread pools are stopped (joined).
Shutdown ==
  /\ running
  /\ running' = FALSE
  /\ UNCHANGED <<stageFile, pending, scanPc, scanBatch, uploading,
                 wpc, held, inflight, store, count, hasErr, flushing, lastFlush,
                 waitAll, lastWaitAll>>

\* Every block is out of the pipeline and no caller is waiting.
Quiescent ==
  /\ \A k \in Keys : k \in stageFile \/ k \in store
  /\ Pipeline = {}
  /\ \A i \in Inodes : ~flushing[i].wait
  /\ ~waitAll.wait
  /\ UNCHANGED vars

UploaderStep ==
  \/ ScanPop \/ ScanPush
  \/ \E w \in Workers : WorkerLoop(w) \/ WorkerPop(w) \/ WorkerUpload(w)
  \/ \E b \in inflight : PutSucceed(b)

CallerStep ==
  \/ \E k \in Keys, f \in {CTO, NOCTO} : Stage(k, f)
  \/ \E i \in Inodes : FlushBegin(i)
  \/ WaitAllBegin \/ WaitAllReturn

Next == UploaderStep \/ CallerStep \/ Quiescent

\* The uploader's threads never stop; the object store eventually accepts
\* a retried put; a waiting WaitAllUploaded keeps polling.
Fairness ==
  /\ WF_vars(ScanPop) /\ WF_vars(ScanPush)
  /\ \A w \in Workers : WF_vars(WorkerLoop(w) \/ WorkerPop(w) \/ WorkerUpload(w))
  /\ \A k \in Keys : WF_vars(\E b \in inflight : b.key = k /\ PutSucceed(b))
  /\ WF_vars(WaitAllReturn)

Spec == Init /\ [][Next]_vars /\ Fairness

\* With BlockCacheUploader::Shutdown among the steps.
NextWithShutdown == Next \/ Shutdown \/ ScanExit

SpecWithShutdown == Init /\ [][NextWithShutdown]_vars /\ Fairness
                    /\ WF_vars(ScanExit)

-----------------------------------------------------------------------------
TypeOK ==
  /\ stageFile \subseteq Keys /\ store \subseteq Keys
  /\ pending \in [Froms -> Seq(StageBlocks)]
  /\ scanPc \in {"top", "push", "exit"}
  /\ scanBatch \in Seq(StageBlocks)
  /\ uploading \in Seq(StageBlocks) /\ Len(uploading) <= QueueCap
  /\ wpc \in [Workers -> {"top", "pop", "read", "exit"}]
  /\ \A w \in Workers : held[w] \subseteq StageBlocks /\ Cardinality(held[w]) <= 1
  /\ inflight \subseteq StageBlocks
  /\ count \in [Inodes -> Nat] /\ hasErr \in [Inodes -> BOOLEAN]
  /\ flushing \in [Inodes -> Waiter]
  /\ lastFlush \in [Inodes -> [res : {"none", "ok", "err"}, snap : SUBSET Keys]]
  /\ waitAll \in Waiter
  /\ lastWaitAll \in [done : BOOLEAN, snap : SUBSET Keys]
  /\ running \in BOOLEAN

\* Spec 3: the Countdown of inode I equals the number of CTO_FLUSH blocks
\* of I anywhere in the pipeline: in pending, in the scan worker's batch,
\* in the uploading queue, held by an upload worker, or being put.  Each
\* path out of UploadStageBlock and the put callback must decrement once.
CountMatchesPipeline ==
  \A i \in Inodes :
    count[i] = Cardinality({b \in Pipeline : NeedCount(b) /\ Ino(b.key) = i})

\* Flush(ino) returning OK means every CTO_FLUSH block of ino that was in
\* the pipeline when Flush was called is in the object store.
FlushDurability ==
  \A i \in Inodes :
    lastFlush[i].res = "ok" => lastFlush[i].snap \subseteq store

\* Spec 4.5: WaitAllUploaded is used on shutdown paths that must not lose
\* data: when it returns, every block staged before the call is stored.
WaitAllUploadedMeansDurable ==
  lastWaitAll.done => lastWaitAll.snap \subseteq store

\* Every block handed to the uploader eventually leaves it (stored or
\* abandoned), whatever the mix of CTO_FLUSH and background traffic.
BlocksLeavePipeline ==
  \A k \in Keys :
    (\E b \in Pipeline : b.key = k) ~> ~(\E b \in Pipeline : b.key = k)

\* Shutdown stops both thread pools, joining their threads: once running_
\* is false, the scan worker and every upload worker eventually exit.
ShutdownCompletes ==
  ~running ~> (scanPc = "exit" /\ \A w \in Workers : wpc[w] = "exit")

\* A Flush(ino) that waits is eventually woken.
FlushReturns ==
  \A i \in Inodes : flushing[i].wait ~> ~flushing[i].wait

\* The pipeline seen through the abstract promise of spec 4.5: the blocks
\* the uploader owns, the stage files and the store.
Abs == INSTANCE UploaderAbstract
         WITH staged <- stageFile, owned <- Pipeline, stored <- store

\* The uploader implements UploaderAbstract: every step of the scan and
\* upload workers, the put callback and the callers either leaves the
\* owned blocks, the stage files and the store alone, or is an abstract
\* Stage, Store (AsyncPut's callback with code 0: stored, then
\* RemoveStage) or Abandon (ReadBlock failing).  In particular a stage
\* file is removed only once its object is in the store.
ImplementsAbstract == Abs!ASpec

=============================================================================
