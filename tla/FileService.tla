---------------------------- MODULE FileService -----------------------------
(***************************************************************************)
(* The file operations of the service (internal/service/service.go) as the  *)
(* API and WebDAV call them, each call in a goroutine of its own: Upload,   *)
(* UploadRange, Delete, DiscardLocal, Rename, RetryJob, FetchToCache, and   *)
(* the maintenance loop.  A call is cut where another goroutine can come    *)
(* between: at every batch, every cache file operation and every lock.      *)
(*                                                                          *)
(* client[c].pc is the line that caller c has reached:                      *)
(*    idle                 no call in progress                              *)
(*    discard, dropJobs,   the batch that the entry just read calls for     *)
(*    enqueueDelete                                                         *)
(*    moveLocal, moveRemote                                                 *)
(*    download, install    a fetch: the machine is read, then the lock taken *)
(*    replace, commit      holding commitMu: the target is backed up, then  *)
(*                         replaced, and the batch is next                  *)
(*    unlink               the entry is gone and its cache file is next     *)
(*    sweep                holding commitMu: orphaned files are next        *)
(***************************************************************************)
EXTENDS SyncState

VARIABLE client

ClientPCs == {"idle", "discard", "dropJobs", "enqueueDelete", "moveLocal", "moveRemote",
              "download", "install", "replace", "commit", "unlink", "sweep"}

\* source is the cache file to be moved, None when bytes were staged in val.
ClientTypeOK ==
    client \in [Clients -> [pc : ClientPCs, op : OpNames, path : Paths \cup {None},
                           dest : Paths \cup {None}, val : Files, source : Paths \cup {None},
                           backup : Files, entry : Entry, files : SUBSET Paths]]

ClientIdle == [pc |-> "idle", op |-> "none", path |-> None, dest |-> None, val |-> None,
               source |-> None, backup |-> None, entry |-> NoEntry, files |-> {}]

\* The call begins.
Call(c, op) ==
    /\ client[c].pc = "idle"
    /\ op \in Ops
    /\ store.nextJob <= MaxJobs
    /\ Cardinality({k \in Clients : client[k].pc # "idle"}) < MaxCallers

Become(c, rec) == client' = [client EXCEPT ![c] = rec]

\* The call returns, and what it had read is forgotten.
Return(c) == Become(c, ClientIdle)

ReturnAndForget(c) == Return(c) /\ fresh' = [fresh EXCEPT ![c] = {}]

Unlock(c) == commitMu' = "free"

-----------------------------------------------------------------------------
(* Replacing a cache file: the old file is renamed to a backup, then the    *)
(* new one takes its name.  Rollback undoes both.                           *)

Target(c) == IF client[c].op = "rename" THEN client[c].dest ELSE client[c].path

BackupCacheTarget(c, rec, target) ==
    /\ commitMu = "free"
    /\ commitMu' = c
    /\ cache' = [cache EXCEPT ![target] = None]
    /\ Become(c, [rec EXCEPT !.pc = "replace", !.backup = cache[target]])

Replaced(c) ==
    IF client[c].source = None
    THEN [cache EXCEPT ![Target(c)] = client[c].val]
    ELSE [cache EXCEPT ![Target(c)] = cache[client[c].source], ![client[c].source] = None]

\* Mutant: the file that took the target's name stays.
RolledBackNot(c) == cache

RolledBack(c) ==
    CASE client[c].source = None ->
             [cache EXCEPT ![Target(c)] = client[c].backup]
      [] client[c].source = Target(c) -> cache     \* there was nothing to move
      [] OTHER ->
             [cache EXCEPT ![client[c].source] = cache[Target(c)],
                           ![Target(c)] = client[c].backup]

ReplaceCacheFile(c) ==
    /\ client[c].pc = "replace"
    /\ \/ /\ client[c].source # None => cache[client[c].source] # None
          /\ cache' = Replaced(c)
          /\ Become(c, [client[c] EXCEPT !.pc = "commit"])
          /\ UNCHANGED <<commitMu, fresh>>
       \/ /\ client[c].source # None /\ cache[client[c].source] = None
          /\ cache' = [cache EXCEPT ![Target(c)] = client[c].backup]
          /\ ReturnAndForget(c) /\ Unlock(c)
    /\ UNCHANGED <<store, machine, opMu>>

-----------------------------------------------------------------------------
(* Upload, UploadRange                                                      *)

ContentsInUse ==
    {cache[p] : p \in Paths} \cup {machine[p] : p \in Paths}
        \cup {client[c].val : c \in Clients} \cup {client[c].backup : c \in Clients}
        \cup {store.jobs[i].md5 : i \in JobIds(store)}
        \cup {store.entries[p].md5 : p \in Paths}

\* The user may send what some file already holds only when Ops says so.
Upload(c, p, v, op) ==
    /\ Call(c, op)
    /\ op \in {"upload", "range"} /\ p \in UsedPaths
    /\ "reupload" \in Ops \/ v \notin ContentsInUse
    /\ BackupCacheTarget(c, [ClientIdle EXCEPT !.op = op, !.path = p, !.val = v], p)
    /\ UNCHANGED <<store, machine, opMu, fresh>>

UploadBatch(b, p, e) ==
    Enqueue(SupersedeQueuedUploads(DiscardJobs(PutEntry(b, p, e), p, {"delete"}), p),
            NewJob("upload", p, None, e))

\* An incomplete range has no MD5 and is not queued.
RangeBatch(b, p, v) ==
    SupersedeQueuedUploads(
        DiscardJobs(PutEntry(b, p, [CachedEntry(p, v, "local_only") EXCEPT !.md5 = None]),
                    p, {"delete"}), p)

RenameLocalBatch(b, c) ==
    LET e == [client[c].entry EXCEPT !.cachePath = client[c].dest, !.cacheState = "ready",
                                     !.sync = "pending_upload"]
        moved == PutEntry(DeleteEntry(DiscardJobs(b, client[c].path, {"upload"}),
                                      client[c].path), client[c].dest, e)
    IN  Enqueue(SupersedeQueuedUploads(moved, client[c].dest),
                NewJob("upload", client[c].dest, None, e))

CommitBatch(b, c) ==
    CASE client[c].op = "upload" ->
             UploadBatch(b, client[c].path,
                         CachedEntry(client[c].path, client[c].val, "pending_upload"))
      [] client[c].op = "range"  -> RangeBatch(b, client[c].path, client[c].val)
      [] client[c].op = "rename" -> RenameLocalBatch(b, c)

\* The batch and the end of the replacement, for a call that writes.
CommitReplacement(c) ==
    /\ client[c].pc = "commit"
    /\ client[c].op \in {"upload", "range", "rename"}
    /\ \/ Batch(CommitBatch(store, c)) /\ UNCHANGED cache
       \/ BatchFails(CommitBatch(store, c)) /\ cache' = RolledBack(c)
    /\ Return(c)
    /\ Unlock(c)
    /\ UNCHANGED <<machine, opMu>>

-----------------------------------------------------------------------------
(* Delete, DiscardLocal                                                     *)

HasLocalCreateJob(p) == HasJob(store, p, {"upload"}, {"queued", "failed"})
HasRunningJob(p) == HasJob(store, p, JobKinds, {"running"})

ShouldDiscardLocalEntry(p) ==
    \/ store.entries[p].sync \in {"local_only", "pending_upload"}
    \/ store.entries[p].sync = "error" /\ HasLocalCreateJob(p)

Delete(c, p) ==
    /\ Call(c, "delete")
    /\ HasEntry(store, p)
    /\ Become(c, [ClientIdle EXCEPT !.op = "delete", !.path = p,
                     !.pc = IF ShouldDiscardLocalEntry(p) THEN "discard" ELSE "enqueueDelete"])
    /\ UNCHANGED shared

EnqueueDelete(c) ==
    /\ client[c].pc = "enqueueDelete"
    /\ LET p == client[c].path
           b == Enqueue(SetEntrySync(store, p, "pending_delete"),
                        NewJob("delete", p, None, NoEntry))
       IN  \/ HasEntry(store, p) /\ (Batch(b) \/ BatchFails(b))
           \/ ~HasEntry(store, p) /\ UNCHANGED <<store, fresh>>
    /\ Return(c)
    /\ UNCHANGED <<cache, machine, opMu, commitMu>>

CanDiscardLocal(sync) ==
    sync \in {"local_only", "pending_upload", "uploading", "pending_delete", "deleting",
              "pending_rename", "error"}

MayDiscard(p) ==
    /\ HasEntry(store, p) => CanDiscardLocal(store.entries[p].sync)
    /\ ~HasRunningJob(p)

DiscardLocal(c, p) ==
    /\ Call(c, "discard")
    /\ MayDiscard(p)
    /\ Become(c, [ClientIdle EXCEPT !.op = "discard", !.path = p,
                     !.pc = IF HasEntry(store, p) THEN "discard" ELSE "dropJobs"])
    /\ UNCHANGED shared

\* The entry goes with its queued and failed jobs, whatever it has become.
DiscardBatch(c) ==
    /\ client[c].pc = "discard"
    /\ LET p == client[c].path
           file == store.entries[p].cachePath
           b == DiscardEntry(store, p, JobKinds)
       IN  \/ /\ HasEntry(store, p) /\ Batch(b)
              /\ IF file = None THEN Return(c)
                 ELSE Become(c, [client[c] EXCEPT !.pc = "unlink", !.files = {file}])
           \/ HasEntry(store, p) /\ BatchFails(b) /\ Return(c)
           \/ ~HasEntry(store, p) /\ Return(c) /\ UNCHANGED <<store, fresh>>
    /\ UNCHANGED <<cache, machine, opMu, commitMu>>

\* discardJobsWithoutEntry; whether an entry has appeared is not asked again.
DiscardJobsBatch(c) ==
    /\ client[c].pc = "dropJobs"
    /\ LET p == client[c].path
           dropped == {i \in JobIds(store) : store.jobs[i].path = p /\ Unfinished(store.jobs[i])}
           b == DiscardJobs(store, p, JobKinds)
       IN  \/ /\ Batch(b)
              /\ Become(c, [client[c] EXCEPT !.pc = "unlink",
                               !.files = {store.jobs[i].cachePath : i \in dropped} \ {None}])
           \/ BatchFails(b) /\ Return(c)
    /\ UNCHANGED <<cache, machine, opMu, commitMu>>

\* os.Remove, after the batch and outside every lock.
UnlinkDiscarded(c) ==
    /\ client[c].pc = "unlink"
    /\ cache' = [p \in Paths |-> IF p \in client[c].files THEN None ELSE cache[p]]
    /\ Return(c)
    /\ UNCHANGED <<store, machine, opMu, commitMu, fresh>>

-----------------------------------------------------------------------------
(* Rename                                                                   *)

CanRenameLocalUpload(p) ==
    /\ store.entries[p].cachePath # None
    /\ HasLocalCreateJob(p)
    /\ ~HasRunningJob(p)

RemoteRenameBatch(b, p, dest) ==
    Enqueue(SetEntrySync(b, p, "pending_rename"), NewJob("rename", p, dest, b.entries[p]))

Rename(c, p, dest) ==
    /\ Call(c, "rename")
    /\ p # dest
    /\ HasEntry(store, p)
    /\ Become(c, [ClientIdle EXCEPT !.op = "rename", !.path = p, !.dest = dest,
                     !.pc = IF CanRenameLocalUpload(p) THEN "moveLocal" ELSE "moveRemote"])
    /\ UNCHANGED shared

EnqueueRemoteRename(c) ==
    /\ client[c].pc = "moveRemote"
    /\ LET b == RemoteRenameBatch(store, client[c].path, client[c].dest)
       IN  \/ HasEntry(store, client[c].path) /\ (Batch(b) \/ BatchFails(b))
           \/ ~HasEntry(store, client[c].path) /\ UNCHANGED <<store, fresh>>
    /\ Return(c)
    /\ commitMu' = IF commitMu = c THEN "free" ELSE commitMu
    /\ UNCHANGED <<cache, machine, opMu>>

\* renameLocalUpload takes the lock and looks again.
RenameLocalUpload(c) ==
    /\ client[c].pc = "moveLocal"
    /\ commitMu = "free"
    /\ LET p == client[c].path
           e == store.entries[p]
           rec == [client[c] EXCEPT !.entry = e, !.source = e.cachePath]
       IN  \/ /\ ~HasEntry(store, p)
              /\ Return(c) /\ UNCHANGED <<cache, commitMu>>
           \/ /\ HasEntry(store, p) /\ ~CanRenameLocalUpload(p)
              /\ Become(c, [client[c] EXCEPT !.pc = "moveRemote"])   \* with the lock held
              /\ commitMu' = c /\ UNCHANGED cache
           \/ /\ HasEntry(store, p) /\ CanRenameLocalUpload(p)
              /\ e.cachePath # client[c].dest
              /\ BackupCacheTarget(c, rec, client[c].dest)
           \/ /\ HasEntry(store, p) /\ CanRenameLocalUpload(p)
              /\ e.cachePath = client[c].dest     \* the file has its name already
              /\ Become(c, [rec EXCEPT !.pc = "commit"])
              /\ commitMu' = c /\ UNCHANGED cache
    /\ UNCHANGED <<store, machine, opMu, fresh>>

-----------------------------------------------------------------------------
(* RetryJob                                                                 *)

RestoreEntryStateForRetry(b, j) ==
    LET e == b.entries[j.path]
    IN  CASE j.kind = "upload" /\ ~HasEntry(b, j.path) ->
                 PutEntry(b, j.path, [sync |-> "pending_upload", md5 |-> j.md5, size |-> j.size,
                                      cachePath |-> j.cachePath, cacheState |-> "ready"])
          [] j.kind = "upload" /\ HasEntry(b, j.path) ->
                 IF e.cachePath = j.cachePath /\ e.md5 = j.md5 /\ e.size = j.size
                 THEN SetEntrySync(b, j.path, "pending_upload") ELSE b
          [] j.kind = "delete" -> SetEntrySync(b, j.path, "pending_delete")
          [] j.kind = "rename" -> SetEntrySync(b, j.path, "pending_rename")

Retry(c, id) ==
    /\ Call(c, "retry")
    /\ CanRetry(store, id)
    /\ LET b == RetryJob(RestoreEntryStateForRetry(store, store.jobs[id]), id)
       IN  Batch(b) \/ BatchFails(b)
    /\ UNCHANGED <<cache, machine, opMu, commitMu, client>>

-----------------------------------------------------------------------------
(* FetchToCache                                                             *)

\* ReadCache has no bytes to serve: Open fetches them.
NotCached(p) ==
    LET e == store.entries[p]
    IN  \/ e.cachePath = None \/ e.cacheState = "none"
        \/ e.cacheState = "ready" /\ cache[e.cachePath] = None

Fetch(c, p) ==
    /\ Call(c, "fetch")
    /\ HasEntry(store, p)
    /\ NotCached(p)
    /\ Look(c, {p})
    /\ Become(c, [ClientIdle EXCEPT !.op = "fetch", !.path = p, !.pc = "download"])
    /\ UNCHANGED <<store, cache, machine, opMu, commitMu>>

\* The download runs under the arbiter; it may also fail or be refused.
Download(c) ==
    /\ client[c].pc = "download"
    /\ opMu = "free"
    /\ \/ /\ machine[client[c].path] # None
          /\ Become(c, [client[c] EXCEPT !.pc = "install", !.val = machine[client[c].path]])
          /\ UNCHANGED fresh
       \/ ReturnAndForget(c)
    /\ UNCHANGED <<store, cache, machine, opMu, commitMu>>

InstallFetched(c) ==
    /\ client[c].pc = "install"
    /\ BackupCacheTarget(c, client[c], client[c].path)
    /\ UNCHANGED <<store, machine, opMu, fresh>>

FetchStillWanted(c) ==
    /\ store.entries[client[c].path].sync = "remote_only"
    /\ client[c].path \in fresh[c]

CommitFetch(c) ==
    /\ client[c].pc = "commit"
    /\ client[c].op = "fetch"
    /\ LET b == PutEntry(store, client[c].path,
                         CachedEntry(client[c].path, client[c].val, "synced"))
       IN  \/ FetchStillWanted(c) /\ Batch(b) /\ UNCHANGED cache
           \/ /\ FetchStillWanted(c) /\ BatchFails(b)
              /\ cache' = RolledBack(c)
           \/ /\ ~FetchStillWanted(c) /\ UNCHANGED store
              /\ fresh' = [fresh EXCEPT ![c] = {}]
              /\ cache' = RolledBack(c)
    /\ Return(c)
    /\ Unlock(c)
    /\ UNCHANGED <<machine, opMu>>

-----------------------------------------------------------------------------
(* RunMaintenance.  maxFailedJobsPerPath is taken as 1.                     *)

ReferencedFiles ==
    {store.entries[p].cachePath : p \in Paths}
        \cup {store.jobs[i].cachePath : i \in {i \in JobIds(store) :
                                                   store.jobs[i].state \in {"queued", "running"}}}

PruneJobs(c) ==
    /\ Call(c, "prune")
    /\ \/ \E ids \in SUBSET JobIds(store) :
              Batch(PruneDoneJobs(store, ids)) \/ BatchFails(PruneDoneJobs(store, ids))
       \/ Batch(PruneFailedJobs(store, 1)) \/ BatchFails(PruneFailedJobs(store, 1))
    /\ UNCHANGED <<cache, machine, opMu, commitMu, client>>

\* Which orphans are old enough is left to chance.
PruneCache(c) ==
    /\ Call(c, "prune")
    /\ commitMu = "free"
    /\ commitMu' = c
    /\ \E files \in SUBSET (Paths \ ReferencedFiles) :
           Become(c, [ClientIdle EXCEPT !.op = "prune", !.pc = "sweep", !.files = files])
    /\ UNCHANGED <<store, cache, machine, opMu, fresh>>

PruneCacheRemove(c) ==
    /\ client[c].pc = "sweep"
    /\ cache' = [p \in Paths |-> IF p \in client[c].files THEN None ELSE cache[p]]
    /\ Return(c)
    /\ Unlock(c)
    /\ UNCHANGED <<store, machine, opMu, fresh>>

ServiceNext ==
    \E c \in Clients :
        \/ \E p \in Paths, v \in Contents, op \in {"upload", "range"} : Upload(c, p, v, op)
        \/ ReplaceCacheFile(c) \/ CommitReplacement(c)
        \/ \E p \in Paths : Delete(c, p) \/ DiscardLocal(c, p) \/ Fetch(c, p)
        \/ EnqueueDelete(c) \/ DiscardBatch(c) \/ DiscardJobsBatch(c) \/ UnlinkDiscarded(c)
        \/ \E p, dest \in Paths : Rename(c, p, dest)
        \/ EnqueueRemoteRename(c) \/ RenameLocalUpload(c)
        \/ \E id \in JobIds(store) : Retry(c, id)
        \/ Download(c) \/ InstallFetched(c) \/ CommitFetch(c)
        \/ PruneJobs(c) \/ PruneCache(c) \/ PruneCacheRemove(c)
=============================================================================
