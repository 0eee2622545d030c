----------------------------- MODULE SyncEngine -----------------------------
(***************************************************************************)
(* The deferred-sync loop (internal/synceng/engine.go): one goroutine takes *)
(* a snapshot of the queued jobs and walks it in order.  A job that backs   *)
(* off or fails holds back the later jobs of its paths for the pass; a      *)
(* blocked session ends the pass.  A job that runs is marked Running, sent  *)
(* to the machine over the arbiter's connection, folded into the catalog    *)
(* under a guard (the user may have changed the entry meanwhile), and only  *)
(* then recorded Done or Failed, after the connection is free again.        *)
(*                                                                          *)
(* engine.pc is the line the goroutine has reached:                         *)
(*    idle, loop           between passes, at the head of drain's loop      *)
(*    mark, open, call,    execute, holding the connection: the entry is    *)
(*    settle, unlink       marked, the cache file opened, the command sent, *)
(*                         the catalog updated, a cache file removed        *)
(*    done, fail, complete runJob's outcome is being recorded               *)
(***************************************************************************)
EXTENDS SyncState

CONSTANTS MaxAttempts      \* Engine.maxAttempts

VARIABLE engine

ASSUME EngineAssumption == MaxAttempts \in Nat \ {0}

ExecutePCs == {"mark", "open", "call", "settle", "unlink"}
OutcomePCs == {"done", "fail", "complete"}

EngineTypeOK ==
    /\ engine \in [pc : {"idle", "loop"} \cup ExecutePCs \cup OutcomePCs, queue : {engine.queue},
                  deferred : SUBSET Paths, bytes : Files, file : Paths \cup {None}]
    /\ IsQueue(engine.queue)

EngineIdle == [pc |-> "idle", queue |-> <<>>, deferred |-> {}, bytes |-> None, file |-> None]

Goto(pc) == engine' = [engine EXCEPT !.pc = pc]

\* The callback of WithMachine returns.
Leave(pc) ==
    /\ engine' = [engine EXCEPT !.pc = pc, !.bytes = None, !.file = None]
    /\ opMu' = "free"

\* The job at hand, as the pass's snapshot has it: the first of those left.
Left == DOMAIN engine.queue
CurrentId == Min(Left)
Current == engine.queue[CurrentId]

-----------------------------------------------------------------------------
(* drain                                                                    *)

TouchedPaths(j) == {j.path} \cup ({j.dest} \ {None})

JobTouchesDeferredPath(j) == TouchedPaths(j) \cap engine.deferred # {}

\* Mutant: the pass forgets what it skipped.
DeferNothing == engine.deferred

DeferJobPaths == engine.deferred \cup TouchedPaths(Current)

NextJob(deferred) ==
    engine' = [engine EXCEPT !.pc = "loop", !.queue = Restrict(@, Left \ {CurrentId}),
                              !.deferred = deferred]

\* A retried job may still have to wait, and so may an empty upload that
\* WebDAV could be about to fill; how long is left to chance.
MayBackOff(j) == j.attempts > 0 \/ (j.kind = "upload" /\ j.size = 0)

DrainStart ==
    /\ engine.pc = "idle"
    /\ engine' = [EngineIdle EXCEPT !.pc = "loop", !.queue = QueuedJobs(store)]
    /\ UNCHANGED shared

DrainEnd ==
    /\ engine.pc = "loop"
    /\ Left = {}
    /\ engine' = EngineIdle
    /\ UNCHANGED shared

SkipDeferred ==
    /\ engine.pc = "loop"
    /\ Left # {}
    /\ JobTouchesDeferredPath(Current)
    /\ NextJob(engine.deferred)
    /\ UNCHANGED shared

MayAttempt ==
    /\ engine.pc = "loop"
    /\ Left # {}
    /\ ~JobTouchesDeferredPath(Current)

BackOff ==
    /\ MayAttempt
    /\ MayBackOff(Current)
    /\ NextJob(DeferJobPaths)
    /\ UNCHANGED shared

\* WithMachine refuses: relay mode, machine not idle, controller transfer.
SessionBlocked ==
    /\ MayAttempt
    /\ opMu = "free"
    /\ engine' = EngineIdle
    /\ UNCHANGED shared

\* The machine cannot be dialled: WithMachine fails before its callback runs.
Unreachable ==
    /\ MayAttempt
    /\ opMu = "free"
    /\ Goto("fail")
    /\ UNCHANGED shared

-----------------------------------------------------------------------------
(* execute                                                                  *)

RecordRunning ==
    /\ MayAttempt
    /\ opMu = "free"
    /\ CanStart(store, CurrentId)
    /\ \/ /\ Batch(StartJob(store, CurrentId))
          /\ opMu' = "engine"
          /\ Goto(IF Current.kind = "rename" THEN "call" ELSE "mark")
       \/ /\ BatchFails(StartJob(store, CurrentId))
          /\ Goto("fail")
          /\ UNCHANGED opMu
    /\ UNCHANGED <<cache, machine, commitMu>>

\* The job was discarded or superseded since the snapshot.
NoLongerQueued ==
    /\ MayAttempt
    /\ opMu = "free"
    /\ ~CanStart(store, CurrentId)
    /\ NextJob(engine.deferred)
    /\ UNCHANGED shared

DeletePending == {"pending_delete", "deleting"}

MarkDeleting ==
    /\ engine.pc = "mark"
    /\ Current.kind = "delete"
    /\ LET b == SetEntrySyncIf(store, Current.path, "deleting", DeletePending)
       IN  \/ Batch(b) /\ Goto("call") /\ UNCHANGED opMu
           \/ BatchFails(b) /\ Leave("fail")
    /\ UNCHANGED <<cache, machine, commitMu>>

\* Mutant: the upload is folded into whatever the entry has become.
UploadJobMatchesPath(b, j, sync) == HasEntry(b, j.path)

\* The entry still describes what this job uploads.
UploadJobMatches(b, j, sync) ==
    LET e == b.entries[j.path]
    IN  /\ HasEntry(b, j.path)
        /\ e.cachePath = j.cachePath /\ e.md5 = j.md5 /\ e.size = j.size
        /\ e.sync \in {"pending_upload", "uploading", sync}

SetUploadJobSync(b, j, sync) ==
    IF UploadJobMatches(b, j, sync) THEN SetEntrySync(b, j.path, sync) ELSE b

MarkUploading ==
    /\ engine.pc = "mark"
    /\ Current.kind = "upload"
    /\ LET b == SetUploadJobSync(store, Current, "uploading")
       IN  \/ /\ UploadJobMatches(store, Current, "uploading")
              /\ Batch(b) /\ Goto("open") /\ UNCHANGED opMu
           \/ /\ ~UploadJobMatches(store, Current, "uploading")
              /\ Leave("done") /\ UNCHANGED <<store, fresh>>
           \/ BatchFails(b) /\ Leave("fail")
    /\ UNCHANGED <<cache, machine, commitMu>>

\* An open file keeps its bytes when another file is renamed over its name.
OpenCacheFile ==
    /\ engine.pc = "open"
    /\ LET bytes == cache[Current.cachePath]
       IN  \/ /\ bytes # None
              /\ engine' = [engine EXCEPT !.pc = "call", !.bytes = bytes]
              /\ UNCHANGED opMu
           \/ /\ bytes = None
              /\ Leave("fail")
    /\ UNCHANGED <<store, cache, machine, commitMu, fresh>>

\* What the machine holds after it has carried out the job (external).
Effect(j) ==
    CASE j.kind = "upload" -> [machine EXCEPT ![j.path] = engine.bytes]
      [] j.kind = "delete" -> [machine EXCEPT ![j.path] = None]
      [] j.kind = "rename" ->
             [machine EXCEPT ![j.dest] = machine[j.path], ![j.path] = None]

\* mv needs a source; rm of a file that is gone may succeed or fail (external).
Possible(j) == j.kind = "rename" => machine[j.path] # None

\* A call that fails may or may not have had its effect: the answer can be lost.
MachineCall ==
    /\ engine.pc = "call"
    /\ \/ /\ Possible(Current)
          /\ machine' = Effect(Current)
          /\ Goto("settle") /\ UNCHANGED opMu
       \/ /\ \/ UNCHANGED machine
             \/ Possible(Current) /\ machine' = Effect(Current)
          /\ Leave("fail")
    /\ UNCHANGED <<store, cache, commitMu, fresh>>

HasLocalIntent(sync) ==
    sync \in {"local_only", "pending_upload", "uploading", "pending_delete", "deleting",
              "pending_rename", "error"}

RenameEntryMatchesJob(e, j) ==
    /\ e.sync = "pending_rename"
    /\ j.cachePath # None => e.cachePath = j.cachePath
    /\ j.md5 # None => e.md5 = j.md5
    /\ j.size = 0 \/ e.size = j.size

\* The entry moves, unless the user has plans for the destination.
SettleRename(b, j) ==
    LET e == b.entries[j.path]
    IN  IF ~RenameEntryMatchesJob(e, j) THEN b
        ELSE IF HasLocalIntent(b.entries[j.dest].sync) THEN DeleteEntry(b, j.path)
        ELSE DeleteEntry(PutEntry(b, j.dest, [e EXCEPT !.sync = "synced"]), j.path)

SettleDelete(b, j) == DeleteEntryIfSync(b, j.path, DeletePending)

\* execute's last batch: the machine has done its part.
Settled(b, j) ==
    CASE j.kind = "upload" -> SetUploadJobSync(b, j, "synced")
      [] j.kind = "delete" -> SettleDelete(b, j)
      [] j.kind = "rename" -> SettleRename(b, j)

\* The cache file to remove once a delete has dropped its entry.
CacheFileOfDeleted ==
    IF Current.kind = "delete" /\ store.entries[Current.path].sync \in DeletePending
    THEN store.entries[Current.path].cachePath
    ELSE None

\* Mutant: a job the machine has done is retried like one it refused.
CompletedUnrecordedAsFailure == Leave("fail")

\* machineCompletedError: the machine has done the job, the disk has not heard of it.
CompletedUnrecorded == Leave("complete")

Settle ==
    /\ engine.pc = "settle"
    /\ LET b == Settled(store, Current)
       IN  \/ /\ CacheFileOfDeleted # None
              /\ Batch(b)
              /\ engine' = [engine EXCEPT !.pc = "unlink", !.file = CacheFileOfDeleted]
              /\ UNCHANGED opMu
           \/ CacheFileOfDeleted = None /\ Batch(b) /\ Leave("done")
           \/ BatchFails(b) /\ CompletedUnrecorded
    /\ UNCHANGED <<cache, machine, commitMu>>

UnlinkDeleted ==
    /\ engine.pc = "unlink"
    /\ cache' = [cache EXCEPT ![engine.file] = None]
    /\ Leave("done")
    /\ UNCHANGED <<store, machine, commitMu, fresh>>

-----------------------------------------------------------------------------
(* The outcome of runJob                                                    *)

RecordSuccess ==
    /\ engine.pc = "done"
    /\ LET b == UpdateJob(store, CurrentId, "done", store.jobs[CurrentId].attempts + 1)
       IN  \/ Batch(b) /\ NextJob(engine.deferred)
           \/ BatchFails(b) /\ Goto("complete")
    /\ UNCHANGED <<cache, machine, opMu, commitMu>>

\* The entry shows the failure, if it is still this job's.
SetFailedEntrySync(b, j, sync) ==
    CASE j.kind = "upload" -> SetUploadJobSync(b, j, sync)
      [] j.kind = "delete" -> SetEntrySyncIf(b, j.path, sync, DeletePending)
      [] j.kind = "rename" -> SetEntrySyncIf(b, j.path, sync, {"pending_rename"})

FailedEntrySyncState(kind, terminal) ==
    CASE terminal -> "error"
      [] ~terminal /\ kind = "upload" -> "pending_upload"
      [] ~terminal /\ kind = "delete" -> "pending_delete"
      [] ~terminal /\ kind = "rename" -> "pending_rename"

\* Mutant: the failed job stays Running.
FailedJobStillRunning(b, terminal) ==
    UpdateJob(b, CurrentId, "running", Current.attempts + 1)

\* The attempts are counted from the snapshot.
FailJob(b, terminal) ==
    UpdateJob(b, CurrentId, IF terminal THEN "failed" ELSE "queued", Current.attempts + 1)

RecordFailure ==
    /\ engine.pc = "fail"
    /\ LET terminal == Current.attempts + 1 >= MaxAttempts
           b == SetFailedEntrySync(FailJob(store, terminal), Current,
                                   FailedEntrySyncState(Current.kind, terminal))
       IN  Batch(b) \/ BatchFails(b)
    /\ NextJob(DeferJobPaths)
    /\ UNCHANGED <<cache, machine, opMu, commitMu>>

FailCompletedJob(b) ==
    SetFailedEntrySync(UpdateJob(b, CurrentId, "failed", b.jobs[CurrentId].attempts + 1),
                       Current, "error")

\* The machine has done the job but the store could not say so: no retry.
RecordMachineCompletedFailure ==
    /\ engine.pc = "complete"
    /\ LET b == FailCompletedJob(store)
       IN  Batch(b) \/ BatchFails(b)
    /\ NextJob(DeferJobPaths)
    /\ UNCHANGED <<cache, machine, opMu, commitMu>>

EngineNext ==
    \/ DrainStart \/ DrainEnd \/ SkipDeferred \/ BackOff \/ SessionBlocked \/ Unreachable
    \/ RecordRunning \/ NoLongerQueued \/ MarkDeleting \/ MarkUploading \/ OpenCacheFile
    \/ MachineCall \/ Settle \/ UnlinkDeleted
    \/ RecordSuccess \/ RecordFailure \/ RecordMachineCompletedFailure
=============================================================================
