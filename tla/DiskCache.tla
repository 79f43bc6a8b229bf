----------------------------- MODULE DiskCache -----------------------------
(***************************************************************************)
(* DiskCache (src/client/blockcache/disk_cache.cpp) composed with the      *)
(* BlockCacheUploader it feeds, across crashes and restarts of the client. *)
(*                                                                         *)
(* On disk (survives a crash): the stage files, the cache files, the lock  *)
(* file, and the object store.  In memory (lost by a crash): running_,     *)
(* uploader_, the LRU of DiskCacheManager, the loader, and every variable  *)
(* of the uploader.  DiskCacheManager, DiskCacheLoader and the disk state  *)
(* machine are not under src/ and are modelled from the spec: the LRU is   *)
(* the set of keys it holds, the loader walks stage/ (enqueuing RELOAD     *)
(* blocks) and cache/ (adding keys to the LRU), and health is a boolean.   *)
(***************************************************************************)
EXTENDS Naturals, Sequences, FiniteSets

CONSTANTS
  Inodes, Indices, Workers, QueueCap, SegmentSize, ReadErrors,
  StageCap,     \* stage files at which StageFull() holds
  CacheCap,     \* LRU entries at which CacheFull() holds
  MaxCrashes,   \* crashes of the client process in one behaviour
  MaxShutdowns, \* DiskCache::Shutdown calls in one behaviour
  InitCanFail,  \* whether CreateDirs / LoadLockFile may fail
  DiskFaults    \* whether the disk turns unhealthy and cache files vanish

ASSUME StageCap \in Nat /\ CacheCap \in Nat /\ MaxCrashes \in Nat
       /\ MaxShutdowns \in Nat
       /\ InitCanFail \in BOOLEAN /\ DiskFaults \in BOOLEAN

VARIABLES
  stageFile, pending, scanPc, scanBatch, uploading, wpc, held, inflight,
  store, count, hasErr, flushing, lastFlush, waitAll, lastWaitAll, running,
  cacheFile,    \* keys whose cache/{filename} exists
  lockFile,     \* the lock file holding the disk's uuid exists
  lru,          \* keys held by DiskCacheManager's LRU
  healthy,      \* disk_state_machine_->GetDiskState() == kDiskStateNormal
  dcRunning,    \* DiskCache::running_
  uploaderSet,  \* DiskCache::uploader_ was assigned and the components started
  loaderPc,     \* DiskCacheLoader: "idle" | "loading" | "done"
  stageAtStart, \* stage files when the loader's walk of stage/ began
  stageSeen,    \* stage files the walk has visited
  cacheAtStart, \* cache files when the walk of cache/ began
  cacheSeen,    \* cache files the walk has visited
  staged,       \* history: keys whose Stage returned OK
  lastInit,     \* history: result of the last DiskCache::Init
  crashes,      \* crashes so far
  shutdowns     \* DiskCache::Shutdown calls so far

U == INSTANCE Uploader

upVars == <<stageFile, pending, scanPc, scanBatch, uploading, wpc, held,
            inflight, store, count, hasErr, flushing, lastFlush, waitAll,
            lastWaitAll, running>>
dcVars == <<cacheFile, lockFile, lru, healthy, dcRunning, uploaderSet,
            loaderPc, stageAtStart, stageSeen, cacheAtStart, cacheSeen,
            staged, lastInit, crashes, shutdowns>>
vars == <<upVars, dcVars>>

Keys == U!Keys
CTO == U!CTO
NOCTO == U!NOCTO
RELOAD == U!RELOAD

-----------------------------------------------------------------------------
\* Check(want): the admission test, in the code's order.  Each failure is
\* an early return that changes nothing, so only whether it passes matters.
WantExec == "exec"
WantStage == "stage"
WantCache == "cache"

StageFull == Cardinality(stageFile) >= StageCap
CacheFull == Cardinality(lru) >= CacheCap

Check(want) ==
  /\ dcRunning
  /\ WantExec \in want => healthy
  /\ WantStage \in want => ~StageFull
  /\ WantCache \in want => ~CacheFull

\* IsCached: the LRU holds the key, or the loader is still running and
\* cache/{filename} exists.
IsCached(k) == k \in lru \/ (loaderPc = "loading" /\ k \in cacheFile)

Init ==
  /\ U!Init
  /\ cacheFile = {} /\ lockFile = FALSE /\ lru = {}
  /\ healthy = TRUE /\ dcRunning = FALSE /\ uploaderSet = FALSE
  /\ loaderPc = "idle"
  /\ stageAtStart = {} /\ stageSeen = {} /\ cacheAtStart = {} /\ cacheSeen = {}
  /\ staged = {} /\ lastInit = "none" /\ crashes = 0 /\ shutdowns = 0

\* CreateDirs then LoadLockFile: the lock file is read, or written with a
\* fresh uuid when missing.  Either may fail with an I/O error.
CreateDirsAndLoadLockFile(ok) ==
  \/ ok /\ lockFile' = TRUE
  \/ ~ok /\ InitCanFail /\ UNCHANGED lockFile

\* Mutant: Init forgets to start the loader.
DiskInitNoLoader ==
  \/ /\ dcRunning
     /\ lastInit' = "ok"
     /\ UNCHANGED <<upVars, cacheFile, lockFile, lru, healthy, dcRunning,
                    uploaderSet, loaderPc, stageAtStart, stageSeen,
                    cacheAtStart, cacheSeen, staged, crashes, shutdowns>>
  \/ /\ ~dcRunning
     /\ dcRunning' = TRUE
     /\ \E ok \in BOOLEAN :
          /\ CreateDirsAndLoadLockFile(ok)
          /\ IF ok
             THEN /\ uploaderSet' = TRUE
                  /\ UNCHANGED <<loaderPc, stageAtStart, stageSeen,
                                 cacheAtStart, cacheSeen>>
                  /\ lastInit' = "ok"
             ELSE /\ lastInit' = "err"
                  /\ UNCHANGED <<uploaderSet, loaderPc, stageAtStart, stageSeen,
                                 cacheAtStart, cacheSeen>>
     /\ UNCHANGED <<upVars, cacheFile, lru, healthy, staged, crashes, shutdowns>>

\* Init: running_.exchange(true) first; then CreateDirs and LoadLockFile
\* (the lock file is read, or created when missing).  When either fails
\* Init returns the error with running_ left true.  On success uploader_ is
\* set and the state machine, manager and loader are started.  Init on a
\* running cache returns OK at once.
DiskInit ==
  \/ /\ dcRunning
     /\ lastInit' = "ok"
     /\ UNCHANGED <<upVars, cacheFile, lockFile, lru, healthy, dcRunning,
                    uploaderSet, loaderPc, stageAtStart, stageSeen,
                    cacheAtStart, cacheSeen, staged, crashes, shutdowns>>
  \/ /\ ~dcRunning
     /\ dcRunning' = TRUE
     /\ \E ok \in BOOLEAN :
          /\ CreateDirsAndLoadLockFile(ok)
          /\ IF ok
             THEN /\ uploaderSet' = TRUE
                  /\ loaderPc' = "loading"
                  /\ stageAtStart' = stageFile /\ stageSeen' = {}
                  /\ cacheAtStart' = cacheFile /\ cacheSeen' = {}
                  /\ lastInit' = "ok"
             ELSE /\ lastInit' = "err"
                  /\ UNCHANGED <<uploaderSet, loaderPc, stageAtStart, stageSeen,
                                 cacheAtStart, cacheSeen>>
     /\ UNCHANGED <<upVars, cacheFile, lru, healthy, staged, crashes, shutdowns>>

\* Shutdown: running_ false, then the loader, manager and health checker
\* are stopped.
DiskShutdown ==
  /\ dcRunning /\ shutdowns < MaxShutdowns
  /\ shutdowns' = shutdowns + 1
  /\ dcRunning' = FALSE
  /\ loaderPc' = "idle"
  /\ UNCHANGED <<upVars, cacheFile, lockFile, lru, healthy, uploaderSet,
                 stageAtStart, stageSeen, cacheAtStart, cacheSeen, staged,
                 lastInit, crashes>>

\* Mutant: Stage does not admit the linked cache file to the LRU.
StageNoCacheAdd(k, from) ==
  /\ k \notin staged
  /\ Check({WantExec, WantStage})
  /\ stageFile' = stageFile \cup {k}
  /\ \/ cacheFile' = cacheFile \cup {k}
     \/ UNCHANGED cacheFile
  /\ UNCHANGED lru
  /\ U!AddStageBlock(k, from)
  /\ staged' = staged \cup {k}
  /\ UNCHANGED <<scanPc, scanBatch, uploading, wpc, held, inflight, store,
                 hasErr, flushing, lastFlush, waitAll, lastWaitAll, running,
                 lockFile, healthy, dcRunning, uploaderSet, loaderPc,
                 stageAtStart, stageSeen, cacheAtStart, cacheSeen, lastInit,
                 crashes, shutdowns>>

\* Mutant: a failed write of the stage file does not end Stage.
StageIgnoreWriteError(k, from) ==
  /\ k \notin staged
  /\ Check({WantExec, WantStage})
  /\ \/ /\ stageFile' = stageFile \cup {k}
        /\ \/ /\ cacheFile' = cacheFile \cup {k}
              /\ lru' = lru \cup {k}
           \/ UNCHANGED <<cacheFile, lru>>
     \/ UNCHANGED <<stageFile, cacheFile, lru>>
  /\ U!AddStageBlock(k, from)
  /\ staged' = staged \cup {k}
  /\ UNCHANGED <<scanPc, scanBatch, uploading, wpc, held, inflight, store,
                 hasErr, flushing, lastFlush, waitAll, lastWaitAll, running,
                 lockFile, healthy, dcRunning, uploaderSet, loaderPc,
                 stageAtStart, stageSeen, cacheAtStart, cacheSeen, lastInit,
                 crashes, shutdowns>>

\* Stage: Check(WANT_EXEC | WANT_STAGE), write stage/{filename}, hard-link
\* it to cache/{filename} and add the key to the LRU (a failed link is
\* ignored), then hand the block to the uploader.  A chunk id is allocated
\* per write, so the key is one never staged before.
Stage(k, from) ==
  /\ k \notin staged
  /\ Check({WantExec, WantStage})
  /\ stageFile' = stageFile \cup {k}
  /\ \/ /\ cacheFile' = cacheFile \cup {k}       \* HardLink OK
        /\ lru' = lru \cup {k}
     \/ UNCHANGED <<cacheFile, lru>>            \* link error ignored
  /\ U!AddStageBlock(k, from)
  /\ staged' = staged \cup {k}
  /\ UNCHANGED <<scanPc, scanBatch, uploading, wpc, held, inflight, store,
                 hasErr, flushing, lastFlush, waitAll, lastWaitAll, running,
                 lockFile, healthy, dcRunning, uploaderSet, loaderPc,
                 stageAtStart, stageSeen, cacheAtStart, cacheSeen, lastInit,
                 crashes, shutdowns>>

\* Cache: Check(WANT_EXEC | WANT_CACHE), write cache/{filename}, add the key
\* to the LRU.  The read path caches blocks it fetched from the store.
Cache(k) ==
  /\ k \in store
  /\ Check({WantExec, WantCache})
  /\ cacheFile' = cacheFile \cup {k}
  /\ lru' = lru \cup {k}
  /\ UNCHANGED <<upVars, lockFile, healthy, dcRunning, uploaderSet, loaderPc,
                 stageAtStart, stageSeen, cacheAtStart, cacheSeen, staged,
                 lastInit, crashes, shutdowns>>

\* Load: Check(WANT_EXEC); NOT_FOUND unless IsCached; open cache/{filename}.
\* A successful open changes no state; an open that finds no file deletes
\* the key from the LRU.
Load(k) ==
  /\ Check({WantExec})
  /\ IsCached(k)
  /\ k \notin cacheFile
  /\ lru' = lru \ {k}
  /\ UNCHANGED <<upVars, cacheFile, lockFile, healthy, dcRunning, uploaderSet,
                 loaderPc, stageAtStart, stageSeen, cacheAtStart, cacheSeen,
                 staged, lastInit, crashes, shutdowns>>

\* DiskCacheLoader, stage walk: a stage file found under stage/ is handed
\* to the uploader as a RELOAD block.  A directory walk may or may not
\* return files created after it began.
LoaderStage(k) ==
  /\ loaderPc = "loading"
  /\ k \in stageFile \ stageSeen
  /\ stageSeen' = stageSeen \cup {k}
  /\ U!AddStageBlock(k, RELOAD)
  /\ UNCHANGED <<stageFile, scanPc, scanBatch, uploading, wpc, held, inflight,
                 store, hasErr, flushing, lastFlush, waitAll, lastWaitAll,
                 running, cacheFile, lockFile, lru, healthy, dcRunning,
                 uploaderSet, loaderPc, stageAtStart, cacheAtStart, cacheSeen,
                 staged, lastInit, crashes, shutdowns>>

\* DiskCacheLoader, cache walk: a cache file found under cache/ is added
\* to the LRU.
LoaderCache(k) ==
  /\ loaderPc = "loading"
  /\ k \in cacheFile \ cacheSeen
  /\ cacheSeen' = cacheSeen \cup {k}
  /\ lru' = lru \cup {k}
  /\ UNCHANGED <<upVars, cacheFile, lockFile, healthy, dcRunning, uploaderSet,
                 loaderPc, stageAtStart, stageSeen, cacheAtStart, staged,
                 lastInit, crashes, shutdowns>>

\* Both walks have returned every file that existed when they began and
\* still exists.
LoaderDone ==
  /\ loaderPc = "loading"
  /\ stageAtStart \cap stageFile \subseteq stageSeen
  /\ cacheAtStart \cap cacheFile \subseteq cacheSeen
  /\ loaderPc' = "done"
  /\ UNCHANGED <<upVars, cacheFile, lockFile, lru, healthy, dcRunning,
                 uploaderSet, stageAtStart, stageSeen, cacheAtStart, cacheSeen,
                 staged, lastInit, crashes, shutdowns>>

\* The disk state machine leaves or re-enters kDiskStateNormal.
DiskHealthChange ==
  /\ DiskFaults
  /\ healthy' = ~healthy
  /\ UNCHANGED <<upVars, cacheFile, lockFile, lru, dcRunning, uploaderSet,
                 loaderPc, stageAtStart, stageSeen, cacheAtStart, cacheSeen,
                 staged, lastInit, crashes, shutdowns>>

\* cache/{filename} deleted behind the cache's back.
ExternalDelete(k) ==
  /\ DiskFaults
  /\ k \in cacheFile
  /\ cacheFile' = cacheFile \ {k}
  /\ UNCHANGED <<upVars, lockFile, lru, healthy, dcRunning, uploaderSet,
                 loaderPc, stageAtStart, stageSeen, cacheAtStart, cacheSeen,
                 staged, lastInit, crashes, shutdowns>>

\* The client process dies and is started again, up to (not including)
\* DiskCache::Init: files, the lock file and the object store survive; a
\* put in flight may or may not have reached the store; every in-memory
\* structure starts afresh and the uploader is re-initialised.
Crash ==
  /\ crashes < MaxCrashes
  /\ crashes' = crashes + 1
  /\ \E done \in SUBSET {b.key : b \in inflight} : store' = store \cup done
  /\ pending' = [f \in U!Froms |-> <<>>]
  /\ scanPc' = "top" /\ scanBatch' = <<>> /\ uploading' = <<>>
  /\ wpc' = [w \in Workers |-> "top"] /\ held' = [w \in Workers |-> {}]
  /\ inflight' = {}
  /\ count' = [i \in Inodes |-> 0] /\ hasErr' = [i \in Inodes |-> FALSE]
  /\ flushing' = [i \in Inodes |-> U!Idle] /\ waitAll' = U!Idle
  /\ running' = TRUE
  /\ lru' = {} /\ healthy' = TRUE /\ dcRunning' = FALSE /\ uploaderSet' = FALSE
  /\ loaderPc' = "idle"
  /\ stageAtStart' = {} /\ stageSeen' = {} /\ cacheAtStart' = {} /\ cacheSeen' = {}
  /\ UNCHANGED <<stageFile, lastFlush, lastWaitAll, cacheFile, lockFile,
                 staged, lastInit, shutdowns>>

\* The uploader's own steps leave the disk cache's state alone.
UploaderStep == U!UploaderStep /\ UNCHANGED dcVars

FlushStep == \E i \in Inodes : U!FlushBegin(i) /\ UNCHANGED dcVars

\* Every step but DiskCache::Shutdown.
NextLive ==
  \/ UploaderStep \/ FlushStep
  \/ DiskInit
  \/ \E k \in Keys, f \in {CTO, NOCTO} : Stage(k, f)
  \/ \E k \in Keys : Cache(k) \/ Load(k) \/ ExternalDelete(k)
  \/ \E k \in Keys : LoaderStage(k) \/ LoaderCache(k)
  \/ LoaderDone
  \/ DiskHealthChange
  \/ Crash

Next == NextLive \/ DiskShutdown

Spec == Init /\ [][Next]_vars

\* Without DiskShutdown, a restarted process calls DiskCache::Init; the
\* loader's walks, the uploader's threads and a retried put make progress.
\* The uploader's threads and the put callback, as steps of this module.
ScanStep == (U!ScanPop \/ U!ScanPush) /\ UNCHANGED dcVars
WorkerStep(w) ==
  (U!WorkerLoop(w) \/ U!WorkerPop(w) \/ U!WorkerUpload(w)) /\ UNCHANGED dcVars
PutStep(k) == (\E b \in inflight : b.key = k /\ U!PutSucceed(b)) /\ UNCHANGED dcVars

FairLive ==
  /\ WF_vars(~dcRunning /\ DiskInit)
  /\ WF_vars(\E k \in Keys : LoaderStage(k))
  /\ WF_vars(LoaderDone)
  /\ WF_vars(ScanStep)
  /\ \A w \in Workers : WF_vars(WorkerStep(w))
  /\ \A k \in Keys : WF_vars(PutStep(k))

SpecLive == Init /\ [][NextLive]_vars /\ FairLive

-----------------------------------------------------------------------------
TypeOK ==
  /\ U!TypeOK
  /\ cacheFile \subseteq Keys /\ lru \subseteq Keys /\ staged \subseteq Keys
  /\ lockFile \in BOOLEAN /\ healthy \in BOOLEAN
  /\ dcRunning \in BOOLEAN /\ uploaderSet \in BOOLEAN
  /\ loaderPc \in {"idle", "loading", "done"}
  /\ stageAtStart \subseteq Keys /\ stageSeen \subseteq Keys
  /\ cacheAtStart \subseteq Keys /\ cacheSeen \subseteq Keys
  /\ lastInit \in {"none", "ok", "err"}
  /\ crashes \in 0..MaxCrashes /\ shutdowns \in 0..MaxShutdowns

\* Spec 4.2: a successful Stage promises durability to local disk plus
\* eventual upload.  Across crashes, restarts, the loader's re-enqueueing
\* and duplicate uploads, a staged block is always in its stage file or
\* in the object store: the stage file goes only after the put succeeded.
NoStagedBlockLost ==
  \A k \in staged : k \in stageFile \/ k \in store

\* Spec 3: every file under cache/ is tracked by the LRU once the loader
\* has finished: Stage adds its hard link, Cache its file, the loader's
\* walk the files a crash left behind.
CacheFilesTracked ==
  loaderPc = "done" => cacheFile \subseteq lru

\* Spec 8.6 and 8.1: a stage file, including one a crash left behind, is
\* eventually uploaded and removed.
StageFilesRetired ==
  \A k \in Keys : k \in stageFile ~> (k \in store /\ k \notin stageFile)

\* The uploader's liveness inside the disk cache, across crashes and
\* the loader's re-enqueueing: every block handed to the uploader
\* eventually leaves its pipeline, and every Flush(ino) waiting on the
\* Countdown is eventually woken.
BlocksLeavePipeline == U!BlocksLeavePipeline
FlushReturns == U!FlushReturns

\* Spec 7: a failed Flush(ino) means at least one CTO_FLUSH block of the
\* inode it waited for could not be persisted.
FlushErrorMeansLoss ==
  \A i \in Inodes :
    lastFlush[i].res = "err" => ~(lastFlush[i].snap \subseteq store)

\* Spec 4.1: Init is idempotent; an Init that returns OK leaves the disk
\* cache initialised (uploader_ set, loader and manager started).
InitOkMeansInitialized ==
  lastInit = "ok" => uploaderSet
=============================================================================
