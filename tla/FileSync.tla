------------------------------ MODULE FileSync ------------------------------
(***************************************************************************)
(* The file side of the proxy: the sync engine, the callers of the file     *)
(* service and the reconcile sweeps work on one store, one cache directory  *)
(* and one machine, step by step in any order.  The official controller may *)
(* change files behind the proxy's back, and the proxy may stop at any      *)
(* moment and be started again on what it left on disk.                     *)
(***************************************************************************)
EXTENDS SyncEngine, FileService, Reconciler

vars == <<scene, store, cache, machine, opMu, commitMu, fresh, engine, client, sweeper>>

Init ==
    /\ SharedInit
    /\ engine = EngineIdle
    /\ client = [c \in Clients |-> ClientIdle]
    /\ sweeper = [s \in Sweepers |-> SweeperIdle]

-----------------------------------------------------------------------------
(* Stop and start.  What was on disk stays: the store file, the cache files *)
(* (a replacement may be half done) and, of course, the machine.            *)

\* Mutant: a job that was running stays so.
RecoverNothing(b) == b

RecoverInterruptedJobs(b) ==
    [b EXCEPT !.jobs = [i \in JobIds(b) |->
        IF b.jobs[i].state = "running" THEN [b.jobs[i] EXCEPT !.state = "failed"] ELSE b.jobs[i]]]

Uncached(e, sync) == [e EXCEPT !.sync = sync, !.cachePath = None, !.cacheState = "none"]

\* PrepareStartupCacheValidation for one entry.
PreparedEntry(e) ==
    CASE e.sync = "absent" -> e
      [] e.sync = "remote_only" -> Uncached(e, "remote_only")
      [] e.sync = "synced" ->
             IF e.cachePath = None THEN Uncached(e, "remote_only")
             ELSE IF cache[e.cachePath] = None THEN Uncached(e, "remote_only")
             ELSE [e EXCEPT !.cacheState = "validating"]
      [] OTHER -> IF e.cachePath = None THEN [e EXCEPT !.cacheState = "none"]
                  ELSE [e EXCEPT !.cacheState = "ready"]

RemoteOnlyFiles ==
    {store.entries[p].cachePath : p \in {p \in Paths : store.entries[p].sync = "remote_only"}}

Crash ==
    /\ "crash" \in Ops
    /\ store.nextJob <= MaxJobs
    /\ store' = RecoverInterruptedJobs(
                    [store EXCEPT !.entries = [p \in Paths |-> PreparedEntry(store.entries[p])]])
    /\ cache' = [p \in Paths |-> IF p \in RemoteOnlyFiles THEN None ELSE cache[p]]
    /\ opMu' = "free"
    /\ commitMu' = "free"
    /\ fresh' = [r \in Readers |-> {}]
    /\ engine' = EngineIdle
    /\ client' = [c \in Clients |-> ClientIdle]
    /\ sweeper' = [s \in Sweepers |-> SweeperIdle]
    /\ UNCHANGED machine

\* The official controller writes or removes a file (external).
ControllerWrites(p, v) ==
    /\ "controller" \in Ops /\ p \in UsedPaths
    /\ v \in ({None} \cup Contents) \ ContentsInUse \/ v = None
    /\ store.nextJob <= MaxJobs
    /\ machine[p] # v
    /\ machine' = [machine EXCEPT ![p] = v]
    /\ UNCHANGED <<store, cache, opMu, commitMu, fresh, engine, client, sweeper>>

Steps ==
    \/ EngineNext /\ UNCHANGED <<client, sweeper>>
    \/ ServiceNext /\ UNCHANGED <<engine, sweeper>>
    \/ ReconcilerNext /\ UNCHANGED <<engine, client>>
    \/ Crash
    \/ \E p \in Paths, v \in Contents \cup {None} : ControllerWrites(p, v)

Next == Steps /\ UNCHANGED scene

Spec == Init /\ [][Next]_vars

-----------------------------------------------------------------------------
(* Fairness.  The engine's goroutine runs, and a job that is due is          *)
(* attempted in the end: a back-off elapses, and the machine does not stay   *)
(* busy or in the controller's hands for ever.                               *)

EngineFairness ==
    /\ WF_vars(EngineNext /\ UNCHANGED <<scene, client, sweeper>>)
    /\ SF_vars((RecordRunning \/ Unreachable \/ NoLongerQueued) /\ UNCHANGED <<scene, client, sweeper>>)

LiveSpec == Spec /\ EngineFairness

-----------------------------------------------------------------------------
(* Type correctness                                                         *)

\* The store, the cache, the machine and the engine, callers and sweeps on them
\* have the shapes of the records and locals they model.
TypeOK == SharedTypeOK /\ EngineTypeOK /\ ClientTypeOK /\ SweeperTypeOK

-----------------------------------------------------------------------------
(* Safety                                                                   *)

Pending(sync) == sync \in {"pending_upload", "uploading", "pending_delete", "deleting",
                           "pending_rename"}

KindOf(sync) ==
    CASE sync \in {"pending_upload", "uploading"} -> "upload"
      [] sync \in DeletePending -> "delete"
      [] sync = "pending_rename" -> "rename"

\* PendingHasJob: the catalog promises no work that the queue has forgotten
\* (the SyncState constants of types.go: "PendingUpload: an upload job is
\* queued").  An entry that waits for an upload, a delete or a rename has a job
\* for it that is queued or running, and an upload's job carries the entry's
\* own content, however Upload, Delete and Rename supersede one another.
PendingHasJob ==
    \A p \in Paths : Pending(store.entries[p].sync) =>
        \E i \in JobIds(store) :
            LET j == store.jobs[i]
            IN  /\ j.path = p /\ j.kind = KindOf(store.entries[p].sync)
                /\ j.state \in {"queued", "running"}
                /\ j.kind = "upload" => j.md5 = store.entries[p].md5

\* RunningIsCurrent: a running job is the one runJob has in hand, also after a
\* restart (recoverInterruptedJobs), so nothing waits for a job that nobody
\* will ever finish.
RunningIsCurrent ==
    \A i \in JobIds(store) : store.jobs[i].state = "running" =>
        /\ engine.pc \in ExecutePCs \cup OutcomePCs
        /\ i \in Left /\ i = CurrentId

\* Nobody is replacing cache file f.
Quiet(f) ==
    \A c \in Clients : client[c].pc \in {"replace", "commit"} =>
        f \notin {client[c].path, client[c].dest}

\* SyncedAgrees: "Synced: local cache and machine agree (MD5 match)", types.go.
\* The guard in setUploadJobSync must notice every change of the entry that
\* happens during the transfer.
SyncedAgrees ==
    \A p \in Paths : store.entries[p].sync = "synced" /\ Quiet(p) =>
        machine[p] = store.entries[p].md5

\* CatalogIsTrue: what the catalog says of a file is so, for the two states
\* that a user relies on: work it promises is queued, and a file it calls
\* Synced is the machine's.
CatalogIsTrue == PendingHasJob /\ SyncedAgrees

\* CacheHoldsEntry: what ReadCache serves for a CacheReady entry is the content
\* its MD5 names, through replacements, roll-backs, fetches and pruning.
CacheHoldsEntry ==
    \A p \in Paths :
        LET e == store.entries[p]
        IN  (e.cacheState = "ready" /\ e.md5 # None /\ Quiet(e.cachePath)) =>
                cache[e.cachePath] = e.md5

\* InOrderPerPath: two jobs of one path reach the machine in the order they
\* were queued (drain: "later jobs for those paths must wait to preserve
\* per-path ordering"): when execute sends a job, no earlier job of a path it
\* touches still waits.
InOrderPerPath ==
    engine.pc = "call" =>
        \A i \in JobIds(store) :
            (store.jobs[i].state = "queued" /\ i < CurrentId)
                => TouchedPaths(store.jobs[i]) \cap TouchedPaths(Current) = {}

\* None of these operations is in use.
Without(ops) == Ops \cap ops = {}

\* PendingHasJobWhileUp: PendingHasJob with renames and a disk that may refuse
\* any batch of Upload, UploadRange, Delete, Rename and the engine, as long as
\* the proxy is not stopped between two steps (scene MCCrash), DiscardLocal does
\* not race an Upload (MCDiscardRace) and no old rename is retried on a file
\* that has another content by then (MCRetryRename).
PendingHasJobWhileUp ==
    Without({"crash", "discard"}) /\ (Without({"retry"}) \/ Without({"rename"})) => PendingHasJob

\* CacheHoldsUploads: CacheHoldsEntry under uploads, fetches, pruning, sweeps
\* and a controller that changes files, the calls that do not move or remove a
\* cache file after their batch (scenes MCRename, MCDeleteRace, MCCrash) nor
\* bring an old job back (MCRetryFetched).
CacheHoldsUploads ==
    Without({"crash", "rename", "delete", "discard", "retry"}) => CacheHoldsEntry

\* UploadIsSafe: a file the user has handed over is not lost while the proxy
\* is up: the upload is queued and its bytes are the cache file's (Upload,
\* renameLocalUpload, fetchToCache).
UploadIsSafe == PendingHasJobWhileUp /\ CacheHoldsUploads

\* RunningIsCurrentOnDisk: RunningIsCurrent with sweeps, retries and restarts,
\* as long as recordFailure can be written.
RunningIsCurrentOnDisk == ~DiskMayFail => RunningIsCurrent

\* One sweep has just dealt with one path.
SweepStep ==
    \E s \in Sweepers : /\ sweeper'[s].pc = sweeper[s].pc
                        /\ sweeper'[s].todo # sweeper[s].todo

\* InFlightUntouched: "In-flight entries are left untouched" (reconcile.go): a
\* sweep never rewrites an entry that carries an intention of the user, though
\* it decides on a catalog and a listing that are both old by then.
InFlightUntouched ==
    [][SweepStep => \A p \in Paths : HasLocalIntent(store.entries[p].sync) =>
                        store'.entries[p] = store.entries[p]]_vars

\* CompletedNotRequeued: what the machine has completed is not sent to it a
\* second time behind the user's back, even when the store cannot be written
\* (machineCompletedError): such a job leaves runJob done, failed or still
\* running, never queued.
CompletedNotRequeued ==
    [][engine.pc \in {"settle", "unlink", "done", "complete"} =>
           /\ CurrentId \in JobIds(store') => store'.jobs[CurrentId].state # "queued"
           /\ engine'.pc # "fail"]_vars

\* ConfirmedBeforeServed: "Synced cache entries are blocked until the machine
\* confirms they still match" (reconcile.go): on a machine that answers md5sum,
\* an entry held back by PrepareStartupCacheValidation whose MD5 is known is
\* served again only after the sweep that releases it has seen its content on
\* the machine, in its listing or by the deep sweep's md5sum, or when a rename
\* on the machine has put another file in its place.
ConfirmedBeforeServed ==
    [][\A p \in Paths :
           LET e == store.entries[p]
               f == store'.entries[p]
           IN  (/\ e.cacheState = "validating" /\ e.md5 # None /\ MetadataMD5
                /\ f.cacheState = "ready" /\ f.sync = "synced") =>
                   \/ \E s \in Sweepers : e.md5 \in {sweeper[s].remote[p], machine[p]}
                   \/ engine.pc = "settle" /\ Current.kind = "rename" /\ Current.dest = p]_vars

\* SweepsAreCareful: what a sweep saw a while ago neither undoes an intention
\* of the user nor releases a copy the machine has not confirmed
\* (reconcile, applyCacheValidationResults).
SweepsAreCareful == InFlightUntouched /\ ConfirmedBeforeServed

\* DoneStaysDone: a job that an Upload superseded or a DiscardLocal closed is
\* not brought back by the engine's recordFailure ("leaving it retryable could
\* later revert the entry to the old content's pending state", store.go).
DoneStaysDone ==
    [][\A i \in JobIds(store) \cap JobIds(store') :
           store.jobs[i].state = "done" => store'.jobs[i].state = "done"]_vars

\* FailsOnlyWhenTried: "Jobs that can't run yet (..., machine unreachable)
\* simply stay queued and are retried" (engine.go): a job is given up only
\* after it has been started.
FailsOnlyWhenTried ==
    [][\A i \in JobIds(store) \cap JobIds(store') :
           store.jobs[i].state = "queued" => store'.jobs[i].state # "failed"]_vars

\* DropsOnlyVanished: reconcile "drops settled entries that vanished from the
\* machine" (reconcile.go) and no others.
DropsOnlyVanished ==
    [][SweepStep => \A p \in Paths :
           HasEntry(store, p) /\ ~HasEntry(store', p) => machine[p] = None]_vars

Idle(p) ==
    /\ ~HasJob(store, p, JobKinds, {"queued", "running", "failed"})
    /\ engine.pc \in {"idle", "loop"}
    /\ \A c \in Clients : client[c].path # p

\* DeletedIsGone: Delete "enqueues a machine delete for entries that may exist
\* remotely" (service.go): once the queue has nothing left to do for a path
\* without an entry, the machine has no such file.
DeletedIsGone == \A p \in Paths : Idle(p) /\ ~HasEntry(store, p) => machine[p] = None

-----------------------------------------------------------------------------
(* Liveness                                                                 *)

\* EveryIntentSettles: no entry waits for ever.  An upload or delete that the
\* user asked for is carried out, replaced by a newer wish or reported as an
\* error (drain, recordFailure and its limit of attempts).
EveryIntentSettles ==
    \A p \in Paths : Pending(store.entries[p].sync) ~> ~Pending(store.entries[p].sync)
=============================================================================
