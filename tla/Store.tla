------------------------------- MODULE Store --------------------------------
(***************************************************************************)
(* The durable store (internal/store/store.go): the catalog of files and    *)
(* the ordered job queue.  Every change goes through Batch, which holds the *)
(* store lock, applies its operations to the model, and writes the whole    *)
(* model to disk, or leaves it as it was.  So an operation of Batch is a    *)
(* function from a model to a model, and a batch is their composition:      *)
(*                                                                          *)
(*     store' = Enqueue(SetEntrySync(store, p, "pending_delete"), job)      *)
(*                                                                          *)
(* Directories, modification times and error texts are left out.  UpdatedAt *)
(* serves only to see whether an entry was written since a reader looked:   *)
(* "written" collects the paths a batch writes, for that purpose.  Jobs get *)
(* ascending numbers and are never reordered, so the queue is a function    *)
(* from numbers to jobs, whose order is the order of the numbers.           *)
(***************************************************************************)
EXTENDS Naturals, FiniteSetsExt

CONSTANTS
    Paths,         \* machine-absolute paths of files
    Contents,      \* file contents; an MD5 is modelled by the content it names
    SizeOf,        \* their sizes: SizeOf[v]
    None           \* the empty MD5, CachePath or DestPath; an absent file

ASSUME StoreAssumption ==
    /\ None \notin Paths \cup Contents
    /\ SizeOf \in [Contents -> Nat]

SyncStates == {"synced", "local_only", "pending_upload", "uploading",
               "pending_delete", "deleting", "pending_rename", "remote_only", "error"}
JobKinds == {"upload", "delete", "rename"}
JobStates == {"queued", "running", "done", "failed"}
CacheStates == {"none", "ready", "validating"}

\* A catalog entry; sync = "absent" stands for a path with no entry.
Entry == [sync : SyncStates \cup {"absent"}, md5 : Contents \cup {None}, size : Nat,
          cachePath : Paths \cup {None}, cacheState : CacheStates]

NoEntry == [sync |-> "absent", md5 |-> None, size |-> 0, cachePath |-> None,
            cacheState |-> "none"]

Job == [kind : JobKinds, path : Paths, dest : Paths \cup {None},
        cachePath : Paths \cup {None}, md5 : Contents \cup {None}, size : Nat,
        state : JobStates, attempts : Nat]

\* Jobs by their numbers
IsQueue(jobs) == jobs \in [DOMAIN jobs -> Job] /\ DOMAIN jobs \subseteq Nat \ {0}

IsStore(b) ==
    /\ b \in [entries : [Paths -> Entry], jobs : {b.jobs}, nextJob : Nat \ {0},
              written : SUBSET Paths]
    /\ IsQueue(b.jobs) /\ \A i \in DOMAIN b.jobs : i < b.nextJob

EmptyStore == [entries |-> [p \in Paths |-> NoEntry], jobs |-> <<>>, nextJob |-> 1,
               written |-> {}]

-----------------------------------------------------------------------------
(* Catalog                                                                  *)

HasEntry(b, p) == b.entries[p].sync # "absent"

\* An entry without local bytes has no cache state.
NormalizeNewEntry(e) == IF e.cachePath = None THEN [e EXCEPT !.cacheState = "none"] ELSE e

PutEntry(b, p, e) ==
    [b EXCEPT !.entries[p] = NormalizeNewEntry(e), !.written = @ \cup {p}]

SetEntrySync(b, p, s) ==
    IF HasEntry(b, p)
    THEN [b EXCEPT !.entries[p].sync = s, !.written = @ \cup {p}]
    ELSE b

SetEntrySyncIf(b, p, s, allowed) ==
    IF b.entries[p].sync \in allowed THEN SetEntrySync(b, p, s) ELSE b

DeleteEntry(b, p) == [b EXCEPT !.entries[p] = NoEntry, !.written = @ \cup {p}]

DeleteEntryIfSync(b, p, allowed) ==
    IF b.entries[p].sync \in allowed THEN DeleteEntry(b, p) ELSE b

-----------------------------------------------------------------------------
(* Queue                                                                    *)

JobIds(b) == DOMAIN b.jobs

Unfinished(j) == j.state \in {"queued", "failed"}

DiscardJobs(b, p, kinds) ==
    [b EXCEPT !.jobs = [i \in DOMAIN b.jobs |->
        IF b.jobs[i].path = p /\ b.jobs[i].kind \in kinds /\ Unfinished(b.jobs[i])
        THEN [b.jobs[i] EXCEPT !.state = "done"] ELSE b.jobs[i]]]

DiscardEntry(b, p, kinds) == DiscardJobs(DeleteEntry(b, p), p, kinds)

SupersedeQueuedUploads(b, p) == DiscardJobs(b, p, {"upload"})

NewJob(kind, p, dest, e) ==
    [kind |-> kind, path |-> p, dest |-> dest, cachePath |-> e.cachePath,
     md5 |-> e.md5, size |-> e.size, state |-> "queued", attempts |-> 0]

Enqueue(b, j) ==
    [b EXCEPT !.jobs = [i \in DOMAIN b.jobs \cup {b.nextJob} |->
                            IF i = b.nextJob THEN j ELSE b.jobs[i]],
              !.nextJob = b.nextJob + 1]

\* A job that is no longer there is not updated.
UpdateJob(b, id, state, attempts) ==
    IF id \in JobIds(b)
    THEN [b EXCEPT !.jobs[id] = [@ EXCEPT !.state = state, !.attempts = attempts]] ELSE b

\* StartJob and RetryJob refuse a job in any other state.
CanStart(b, id) == id \in JobIds(b) /\ b.jobs[id].state = "queued"

StartJob(b, id) == UpdateJob(b, id, "running", b.jobs[id].attempts)

CanRetry(b, id) == id \in JobIds(b) /\ b.jobs[id].state = "failed"

RetryJob(b, id) == UpdateJob(b, id, "queued", 0)

QueuedJobs(b) == Restrict(b.jobs, {i \in JobIds(b) : b.jobs[i].state = "queued"})

\* Which done jobs are old enough is left to chance.
PruneDoneJobs(b, ids) ==
    [b EXCEPT !.jobs = Restrict(@, {i \in JobIds(b) : ~(b.jobs[i].state = "done" /\ i \in ids)})]

\* The newest maxPerPath failed jobs of each path stay.
PruneFailedJobs(b, maxPerPath) ==
    LET Newer(i) == {k \in JobIds(b) :
                         k > i /\ b.jobs[k].path = b.jobs[i].path /\ b.jobs[k].state = "failed"}
    IN  [b EXCEPT !.jobs = Restrict(@, {i \in JobIds(b) :
             b.jobs[i].state # "failed" \/ Cardinality(Newer(i)) < maxPerPath})]

HasJob(b, p, kinds, states) ==
    \E i \in JobIds(b) :
        b.jobs[i].path = p /\ b.jobs[i].kind \in kinds /\ b.jobs[i].state \in states
=============================================================================
