--------------------------- MODULE FileSyncProofs ---------------------------
(***************************************************************************)
(* Proofs about FileSync, for any number of callers, sweeps, paths,         *)
(* contents and jobs, and for every scene.                                  *)
(***************************************************************************)
EXTENDS FileSync, WellFoundedInduction, TLAPS

-----------------------------------------------------------------------------
(* The store's operations: what each does to the catalog and to the queue.  *)

\* b is the catalog and queue given, after a batch has written the paths ps.
Holds(b, entries, jobs, nextJob, ps) ==
    /\ IsStore(b)
    /\ b.entries = entries /\ b.jobs = jobs /\ b.nextJob = nextJob /\ b.written = ps

\* PutEntry writes one entry and leaves the queue alone.
LEMMA PutEntryHolds ==
    ASSUME NEW b, IsStore(b), NEW p \in Paths, NEW e \in Entry
    PROVE  Holds(PutEntry(b, p, e), [b.entries EXCEPT ![p] = NormalizeNewEntry(e)],
                 b.jobs, b.nextJob, b.written \cup {p})
<1>1. NormalizeNewEntry(e) \in Entry
  BY DEF NormalizeNewEntry, Entry, CacheStates
<1>2. b.entries \in [Paths -> Entry] /\ b.written \in SUBSET Paths /\ b.nextJob \in Nat \ {0}
  BY DEF IsStore
<1>3. [b.entries EXCEPT ![p] = NormalizeNewEntry(e)] \in [Paths -> Entry]
  BY <1>1, <1>2
<1> QED BY <1>2, <1>3 DEF Holds, IsStore, PutEntry

\* SetEntrySync changes the state of an entry that is there.
LEMMA SetEntrySyncHolds ==
    ASSUME NEW b, IsStore(b), NEW p \in Paths, NEW s \in SyncStates, HasEntry(b, p)
    PROVE  Holds(SetEntrySync(b, p, s), [b.entries EXCEPT ![p].sync = s],
                 b.jobs, b.nextJob, b.written \cup {p})
<1>2. b.entries \in [Paths -> Entry] /\ b.written \in SUBSET Paths /\ b.nextJob \in Nat \ {0}
  BY DEF IsStore
<1>3. [b.entries EXCEPT ![p].sync = s] \in [Paths -> Entry]
  BY <1>2 DEF Entry
<1> QED BY <1>2, <1>3 DEF Holds, IsStore, SetEntrySync

\* DeleteEntry drops an entry.
LEMMA DeleteEntryHolds ==
    ASSUME NEW b, IsStore(b), NEW p \in Paths
    PROVE  Holds(DeleteEntry(b, p), [b.entries EXCEPT ![p] = NoEntry],
                 b.jobs, b.nextJob, b.written \cup {p})
<1>1. NoEntry \in Entry
  BY DEF NoEntry, Entry, CacheStates
<1>2. b.entries \in [Paths -> Entry] /\ b.written \in SUBSET Paths /\ b.nextJob \in Nat \ {0}
  BY DEF IsStore
<1>3. [b.entries EXCEPT ![p] = NoEntry] \in [Paths -> Entry]
  BY <1>1, <1>2
<1> QED BY <1>2, <1>3 DEF Holds, IsStore, DeleteEntry

\* DiscardJobs closes jobs that wait or have failed.
Closed(jobs, p, kinds) ==
    [i \in DOMAIN jobs |->
        IF jobs[i].path = p /\ jobs[i].kind \in kinds /\ Unfinished(jobs[i])
        THEN [jobs[i] EXCEPT !.state = "done"] ELSE jobs[i]]

LEMMA DiscardJobsHolds ==
    ASSUME NEW b, IsStore(b), NEW p, NEW kinds
    PROVE  Holds(DiscardJobs(b, p, kinds), b.entries, Closed(b.jobs, p, kinds), b.nextJob, b.written)
<1>1. /\ b.jobs \in [DOMAIN b.jobs -> Job] /\ DOMAIN b.jobs \subseteq Nat \ {0}
      /\ \A i \in DOMAIN b.jobs : i < b.nextJob
  BY DEF IsStore, IsQueue
<1>2. Closed(b.jobs, p, kinds) \in [DOMAIN b.jobs -> Job]
  BY <1>1 DEF Closed, Job, JobStates
<1>3. DOMAIN Closed(b.jobs, p, kinds) = DOMAIN b.jobs
  BY DEF Closed
<1>4. DiscardJobs(b, p, kinds) = [b EXCEPT !.jobs = Closed(b.jobs, p, kinds)]
  BY DEF DiscardJobs, Closed
<1>5. b \in [entries : [Paths -> Entry], jobs : {b.jobs}, nextJob : Nat \ {0},
             written : SUBSET Paths]
  BY DEF IsStore
<1>6. IsStore(DiscardJobs(b, p, kinds))
  BY <1>1, <1>2, <1>3, <1>4, <1>5 DEF IsStore, IsQueue
<1> QED BY <1>4, <1>5, <1>6 DEF Holds

\* Enqueue adds a job under the next number.
Added(jobs, n, j) == [i \in DOMAIN jobs \cup {n} |-> IF i = n THEN j ELSE jobs[i]]

LEMMA EnqueueHolds ==
    ASSUME NEW b, IsStore(b), NEW j \in Job
    PROVE  Holds(Enqueue(b, j), b.entries, Added(b.jobs, b.nextJob, j), b.nextJob + 1, b.written)
<1>1. /\ b.jobs \in [DOMAIN b.jobs -> Job] /\ DOMAIN b.jobs \subseteq Nat \ {0}
      /\ \A i \in DOMAIN b.jobs : i < b.nextJob
  BY DEF IsStore, IsQueue
<1>2. Added(b.jobs, b.nextJob, j) \in [DOMAIN b.jobs \cup {b.nextJob} -> Job]
  BY <1>1 DEF Added
<1>3. DOMAIN Added(b.jobs, b.nextJob, j) = DOMAIN b.jobs \cup {b.nextJob}
  BY DEF Added
<1>4. Enqueue(b, j) = [b EXCEPT !.jobs = Added(b.jobs, b.nextJob, j), !.nextJob = b.nextJob + 1]
  BY DEF Enqueue, Added
<1>5. b \in [entries : [Paths -> Entry], jobs : {b.jobs}, nextJob : Nat \ {0},
             written : SUBSET Paths]
  BY DEF IsStore
<1> DEFINE new == Added(b.jobs, b.nextJob, j)
           n == b.nextJob + 1
           c == [b EXCEPT !.jobs = new, !.nextJob = n]
<1>6. /\ c \in [entries : [Paths -> Entry], jobs : {new}, nextJob : Nat \ {0},
               written : SUBSET Paths]
      /\ c.jobs = new /\ c.nextJob = n /\ c.entries = b.entries
      /\ c.written = b.written
  <2>1. n \in Nat \ {0}
    BY <1>5
  <2> HIDE DEF new, n
  <2> QED BY <1>5, <2>1
<1>7. IsQueue(new) /\ \A i \in DOMAIN new : i < b.nextJob + 1
  <2>1. b.nextJob \in Nat \ {0}
    BY <1>5
  <2>2. new \in [DOMAIN b.jobs \cup {b.nextJob} -> Job] /\ DOMAIN new = DOMAIN b.jobs \cup {b.nextJob}
    BY <1>2, <1>3
  <2> HIDE DEF new
  <2> QED BY <1>1, <2>1, <2>2 DEF IsQueue
<1>8. Enqueue(b, j) = c
  BY <1>4
<1> HIDE DEF c, new
<1>9. IsStore(c)
  BY <1>6, <1>7 DEF IsStore
<1> QED BY <1>6, <1>8, <1>9 DEF Holds, new

\* UpdateJob gives a job a new state.
LEMMA UpdateJobHolds ==
    ASSUME NEW b, IsStore(b), NEW id \in JobIds(b), NEW s \in JobStates, NEW n \in Nat
    PROVE  Holds(UpdateJob(b, id, s, n), b.entries,
                 [b.jobs EXCEPT ![id] = [@ EXCEPT !.state = s, !.attempts = n]],
                 b.nextJob, b.written)
<1>1. /\ b.jobs \in [DOMAIN b.jobs -> Job] /\ DOMAIN b.jobs \subseteq Nat \ {0}
      /\ \A i \in DOMAIN b.jobs : i < b.nextJob
  BY DEF IsStore, IsQueue
<1> DEFINE new == [b.jobs EXCEPT ![id] = [@ EXCEPT !.state = s, !.attempts = n]]
<1>2. new \in [DOMAIN b.jobs -> Job]
  BY <1>1 DEF Job, JobIds
<1>3. DOMAIN new = DOMAIN b.jobs
  OBVIOUS
<1>5. b \in [entries : [Paths -> Entry], jobs : {b.jobs}, nextJob : Nat \ {0},
             written : SUBSET Paths]
  BY DEF IsStore
<1>4. UpdateJob(b, id, s, n) = [b EXCEPT !.jobs = new]
  BY <1>5 DEF UpdateJob
<1>6. IsStore(UpdateJob(b, id, s, n))
  <2> HIDE DEF new
  <2> QED BY <1>1, <1>2, <1>3, <1>4, <1>5 DEF IsStore, IsQueue
<1> HIDE DEF new
<1>7. Holds(UpdateJob(b, id, s, n), b.entries, new, b.nextJob, b.written)
  BY <1>4, <1>5, <1>6 DEF Holds
<1> QED BY <1>7 DEF new

\* Pruning removes jobs.
LEMMA RestrictHolds ==
    ASSUME NEW b, IsStore(b), NEW ids \in SUBSET JobIds(b)
    PROVE  Holds([b EXCEPT !.jobs = Restrict(@, ids)], b.entries, Restrict(b.jobs, ids),
                 b.nextJob, b.written)
<1>1. /\ b.jobs \in [DOMAIN b.jobs -> Job] /\ DOMAIN b.jobs \subseteq Nat \ {0}
      /\ \A i \in DOMAIN b.jobs : i < b.nextJob
  BY DEF IsStore, IsQueue
<1>2. Restrict(b.jobs, ids) \in [ids -> Job] /\ DOMAIN Restrict(b.jobs, ids) = ids
  BY <1>1 DEF Restrict, JobIds
<1>5. b \in [entries : [Paths -> Entry], jobs : {b.jobs}, nextJob : Nat \ {0},
             written : SUBSET Paths]
  BY DEF IsStore
<1> DEFINE new == Restrict(b.jobs, ids)
<1> HIDE DEF new
<1>6. IsStore([b EXCEPT !.jobs = new])
  BY <1>1, <1>2, <1>5 DEF IsStore, IsQueue, new, JobIds
<1>7. Holds([b EXCEPT !.jobs = new], b.entries, new, b.nextJob, b.written)
  BY <1>5, <1>6 DEF Holds
<1> QED BY <1>7 DEF new

-----------------------------------------------------------------------------
(* Batches, and the job at hand.                                            *)

\* A batch makes the store what it computed; readers lose what it wrote.
LEMMA BatchEffect ==
    ASSUME NEW b, IsStore(b), Batch(b)
    PROVE  /\ IsStore(store') /\ store'.written = {}
           /\ store'.entries = b.entries /\ store'.jobs = b.jobs /\ store'.nextJob = b.nextJob
           /\ fresh' = [r \in Readers |-> fresh[r] \ b.written]
<1>1. b \in [entries : [Paths -> Entry], jobs : {b.jobs}, nextJob : Nat \ {0},
             written : SUBSET Paths]
  BY DEF IsStore
<1>2. /\ store' \in [entries : [Paths -> Entry], jobs : {b.jobs}, nextJob : Nat \ {0},
                     written : SUBSET Paths]
      /\ store'.entries = b.entries /\ store'.jobs = b.jobs /\ store'.nextJob = b.nextJob
      /\ store'.written = {}
  BY <1>1 DEF Batch
<1>3. IsStore(store')
  BY <1>2 DEF IsStore
<1> QED BY <1>2, <1>3 DEF Batch

\* A set of natural numbers has a least element, which Min chooses.
LEMMA MinIsLeast ==
    ASSUME NEW S \in SUBSET Nat, S # {}
    PROVE  Min(S) \in S /\ \A k \in S : Min(S) <= k
<1>1. \E x \in S : \A y \in S : ~(<<y, x>> \in OpToRel(<, Nat))
  BY NatLessThanWellFounded, WFMin
<1>2. PICK x \in S : \A y \in S : ~(<<y, x>> \in OpToRel(<, Nat))
  BY <1>1
<1>3. \A y \in S : x <= y
  <2> SUFFICES ASSUME NEW y \in S PROVE x <= y
    OBVIOUS
  <2>1. <<y, x>> \in Nat \X Nat /\ <<y, x>>[1] = y /\ <<y, x>>[2] = x
    OBVIOUS
  <2>2. ~(y < x)
    BY <2>1, <1>2 DEF OpToRel
  <2> QED BY <2>2
<1> QED BY <1>3 DEF Min

\* The job at hand is one of the pass, and the first.
LEMMA CurrentIsFirst ==
    ASSUME IsQueue(engine.queue), Left # {}
    PROVE  /\ CurrentId \in Left /\ CurrentId \in Nat \ {0} /\ Current \in Job
           /\ \A k \in Left : CurrentId <= k
<1>1. Left \in SUBSET Nat
  BY DEF IsQueue, Left
<1>2. CurrentId \in Left /\ \A k \in Left : CurrentId <= k
  BY <1>1, MinIsLeast DEF CurrentId
<1> QED BY <1>2 DEF IsQueue, Left, Current

-----------------------------------------------------------------------------
(* The batches of the service and of the engine.                            *)

\* A new job is one, and waits.
LEMMA NewJobIsJob ==
    ASSUME NEW kind \in JobKinds, NEW p \in Paths, NEW dest \in Paths \cup {None}, NEW e \in Entry
    PROVE  NewJob(kind, p, dest, e) \in Job
BY DEF NewJob, Job, Entry, JobStates

LEMMA CachedEntryIsEntry ==
    ASSUME NEW p \in Paths, NEW v \in Contents, NEW sync \in SyncStates
    PROVE  CachedEntry(p, v, sync) \in Entry
BY StoreAssumption DEF CachedEntry, Entry, CacheStates

\* An Upload replaces the entry and the jobs that write the path.
LEMMA UploadBatchHolds ==
    ASSUME NEW b, IsStore(b), NEW p \in Paths, NEW e \in Entry
    PROVE  Holds(UploadBatch(b, p, e), [b.entries EXCEPT ![p] = NormalizeNewEntry(e)],
                 Added(Closed(Closed(b.jobs, p, {"delete"}), p, {"upload"}), b.nextJob,
                       NewJob("upload", p, None, e)),
                 b.nextJob + 1, b.written \cup {p})
<1> DEFINE b1 == PutEntry(b, p, e)
           b2 == DiscardJobs(b1, p, {"delete"})
           b3 == DiscardJobs(b2, p, {"upload"})
           j == NewJob("upload", p, None, e)
           entries == [b.entries EXCEPT ![p] = NormalizeNewEntry(e)]
           written == b.written \cup {p}
<1>1. UploadBatch(b, p, e) = Enqueue(b3, j)
  BY DEF UploadBatch, SupersedeQueuedUploads
<1>2. j \in Job
  BY NewJobIsJob DEF JobKinds
<1>3. Holds(b1, entries, b.jobs, b.nextJob, written)
  BY PutEntryHolds
<1> HIDE DEF b1, b2, b3, j, entries, written
<1>4. Holds(b2, entries, Closed(b.jobs, p, {"delete"}), b.nextJob, written)
  BY <1>3, DiscardJobsHolds DEF Holds, b2
<1>5. Holds(b3, entries, Closed(Closed(b.jobs, p, {"delete"}), p, {"upload"}), b.nextJob, written)
  BY <1>4, DiscardJobsHolds DEF Holds, b3
<1>6. Holds(Enqueue(b3, j), b3.entries, Added(b3.jobs, b3.nextJob, j), b3.nextJob + 1, b3.written)
  BY <1>2, <1>5, EnqueueHolds DEF Holds
<1>7. Holds(Enqueue(b3, j), entries,
            Added(Closed(Closed(b.jobs, p, {"delete"}), p, {"upload"}), b.nextJob, j),
            b.nextJob + 1, written)
  BY <1>5, <1>6 DEF Holds
<1> QED BY <1>1, <1>7 DEF j, entries, written

\* An UploadRange does the same but queues nothing.
LEMMA RangeBatchHolds ==
    ASSUME NEW b, IsStore(b), NEW p \in Paths, NEW v \in Contents
    PROVE  Holds(RangeBatch(b, p, v),
                 [b.entries EXCEPT ![p] =
                      NormalizeNewEntry([CachedEntry(p, v, "local_only") EXCEPT !.md5 = None])],
                 Closed(Closed(b.jobs, p, {"delete"}), p, {"upload"}),
                 b.nextJob, b.written \cup {p})
<1> DEFINE e == [CachedEntry(p, v, "local_only") EXCEPT !.md5 = None]
           b1 == PutEntry(b, p, e)
           b2 == DiscardJobs(b1, p, {"delete"})
           b3 == DiscardJobs(b2, p, {"upload"})
           entries == [b.entries EXCEPT ![p] = NormalizeNewEntry(e)]
           written == b.written \cup {p}
<1>1. RangeBatch(b, p, v) = b3
  BY DEF RangeBatch, SupersedeQueuedUploads
<1>2. e \in Entry
  BY StoreAssumption DEF Entry, CachedEntry, SyncStates, CacheStates
<1>3. Holds(b1, entries, b.jobs, b.nextJob, written)
  BY <1>2, PutEntryHolds
<1> HIDE DEF b1, b2, b3, e, entries, written
<1>4. Holds(b2, entries, Closed(b.jobs, p, {"delete"}), b.nextJob, written)
  BY <1>3, DiscardJobsHolds DEF Holds, b2
<1>5. Holds(b3, entries, Closed(Closed(b.jobs, p, {"delete"}), p, {"upload"}), b.nextJob, written)
  BY <1>4, DiscardJobsHolds DEF Holds, b3
<1> QED BY <1>1, <1>5 DEF e, entries, written

\* A file that was never uploaded moves with its job.
MovedEntry(c) ==
    [client[c].entry EXCEPT !.cachePath = client[c].dest, !.cacheState = "ready",
                            !.sync = "pending_upload"]

LEMMA RenameLocalBatchHolds ==
    ASSUME NEW b, IsStore(b), NEW c, client[c].path \in Paths, client[c].dest \in Paths,
           client[c].entry \in Entry
    PROVE  /\ MovedEntry(c) \in Entry
           /\ Holds(RenameLocalBatch(b, c),
                    [[b.entries EXCEPT ![client[c].path] = NoEntry]
                        EXCEPT ![client[c].dest] = NormalizeNewEntry(MovedEntry(c))],
                    Added(Closed(Closed(b.jobs, client[c].path, {"upload"}), client[c].dest, {"upload"}),
                          b.nextJob, NewJob("upload", client[c].dest, None, MovedEntry(c))),
                    b.nextJob + 1, (b.written \cup {client[c].path}) \cup {client[c].dest})
<1> DEFINE p == client[c].path
           q == client[c].dest
           e == MovedEntry(c)
           b1 == DiscardJobs(b, p, {"upload"})
           b2 == DeleteEntry(b1, p)
           b3 == PutEntry(b2, q, e)
           b4 == DiscardJobs(b3, q, {"upload"})
           j == NewJob("upload", q, None, e)
           entries == [b.entries EXCEPT ![p] = NoEntry]
           jobs == Closed(b.jobs, p, {"upload"})
<1>1. RenameLocalBatch(b, c) = Enqueue(b4, j)
  BY DEF RenameLocalBatch, SupersedeQueuedUploads, MovedEntry
<1>2. e \in Entry
  BY DEF MovedEntry, Entry, SyncStates, CacheStates
<1>3. j \in Job
  BY <1>2, NewJobIsJob DEF JobKinds
<1>4. p \in Paths /\ q \in Paths
  OBVIOUS
<1>5. Holds(b1, b.entries, jobs, b.nextJob, b.written)
  BY DiscardJobsHolds
<1> HIDE DEF b1, b2, b3, b4, e, p, q, j, jobs, entries
<1>6. Holds(b2, entries, jobs, b.nextJob, b.written \cup {p})
  BY <1>4, <1>5, DeleteEntryHolds DEF Holds, b2, entries
<1>7. Holds(b3, [entries EXCEPT ![q] = NormalizeNewEntry(e)], jobs, b.nextJob,
            (b.written \cup {p}) \cup {q})
  BY <1>2, <1>4, <1>6, PutEntryHolds DEF Holds, b3
<1>8. Holds(b4, [entries EXCEPT ![q] = NormalizeNewEntry(e)], Closed(jobs, q, {"upload"}), b.nextJob,
            (b.written \cup {p}) \cup {q})
  BY <1>7, DiscardJobsHolds DEF Holds, b4
<1>9. Holds(Enqueue(b4, j), b4.entries, Added(b4.jobs, b4.nextJob, j), b4.nextJob + 1, b4.written)
  BY <1>3, <1>8, EnqueueHolds DEF Holds
<1>10. Holds(Enqueue(b4, j), [entries EXCEPT ![q] = NormalizeNewEntry(e)],
             Added(Closed(jobs, q, {"upload"}), b.nextJob, j), b.nextJob + 1,
             (b.written \cup {p}) \cup {q})
  BY <1>8, <1>9 DEF Holds
<1> QED BY <1>1, <1>2, <1>10 DEF p, q, e, j, jobs, entries

\* A delete or a rename on the machine marks the entry and queues a job.
LEMMA MarkAndEnqueueHolds ==
    ASSUME NEW b, IsStore(b), NEW p \in Paths, NEW s \in SyncStates, HasEntry(b, p), NEW j \in Job
    PROVE  Holds(Enqueue(SetEntrySync(b, p, s), j), [b.entries EXCEPT ![p].sync = s],
                 Added(b.jobs, b.nextJob, j), b.nextJob + 1, b.written \cup {p})
<1> DEFINE b1 == SetEntrySync(b, p, s)
           entries == [b.entries EXCEPT ![p].sync = s]
<1>1. Holds(b1, entries, b.jobs, b.nextJob, b.written \cup {p})
  BY SetEntrySyncHolds
<1> HIDE DEF b1, entries
<1>2. Holds(Enqueue(b1, j), b1.entries, Added(b1.jobs, b1.nextJob, j), b1.nextJob + 1, b1.written)
  BY <1>1, EnqueueHolds DEF Holds
<1>3. Holds(Enqueue(b1, j), entries, Added(b.jobs, b.nextJob, j), b.nextJob + 1, b.written \cup {p})
  BY <1>1, <1>2 DEF Holds
<1> QED BY <1>3 DEF b1, entries

\* A discarded entry goes with the jobs that wait or have failed.
LEMMA DiscardEntryHolds ==
    ASSUME NEW b, IsStore(b), NEW p \in Paths
    PROVE  Holds(DiscardEntry(b, p, JobKinds), [b.entries EXCEPT ![p] = NoEntry],
                 Closed(b.jobs, p, JobKinds), b.nextJob, b.written \cup {p})
<1> DEFINE b1 == DeleteEntry(b, p)
           entries == [b.entries EXCEPT ![p] = NoEntry]
<1>1. Holds(b1, entries, b.jobs, b.nextJob, b.written \cup {p})
  BY DeleteEntryHolds
<1> HIDE DEF b1, entries
<1>2. Holds(DiscardJobs(b1, p, JobKinds), entries, Closed(b.jobs, p, JobKinds), b.nextJob,
            b.written \cup {p})
  BY <1>1, DiscardJobsHolds DEF Holds
<1> QED BY <1>2 DEF DiscardEntry, b1, entries

\* A retried job waits again, and its entry with it if it still is the job's.
Requeued(jobs, id) == [jobs EXCEPT ![id] = [@ EXCEPT !.state = "queued", !.attempts = 0]]

RetriedEntry(j) ==
    [sync |-> "pending_upload", md5 |-> j.md5, size |-> j.size, cachePath |-> j.cachePath,
     cacheState |-> "ready"]

PendingSync(kind) ==
    CASE kind = "upload" -> "pending_upload"
      [] kind = "delete" -> "pending_delete"
      [] kind = "rename" -> "pending_rename"

SameFile(e, j) == e.cachePath = j.cachePath /\ e.md5 = j.md5 /\ e.size = j.size

\* An upload has a cache file, a rename a destination.
JobOK(j) == (j.kind = "upload" => j.cachePath # None) /\ (j.kind = "rename" => j.dest # None)

LEMMA RetryHolds ==
    ASSUME NEW b, IsStore(b), NEW id \in JobIds(b), JobOK(b.jobs[id]),
           NEW j, j = b.jobs[id], NEW r, r = RetryJob(RestoreEntryStateForRetry(b, j), id)
    PROVE  \/ /\ j.kind = "upload" /\ ~HasEntry(b, j.path)
              /\ Holds(r, [b.entries EXCEPT ![j.path] = RetriedEntry(j)], Requeued(b.jobs, id),
                       b.nextJob, b.written \cup {j.path})
           \/ /\ HasEntry(b, j.path)
              /\ j.kind = "upload" => SameFile(b.entries[j.path], j)
              /\ Holds(r, [b.entries EXCEPT ![j.path].sync = PendingSync(j.kind)],
                       Requeued(b.jobs, id), b.nextJob, b.written \cup {j.path})
           \/ Holds(r, b.entries, Requeued(b.jobs, id), b.nextJob, b.written)
<1>1. j \in Job /\ j.path \in Paths /\ j.kind \in JobKinds
  BY DEF IsStore, IsQueue, JobIds, Job
<1> DEFINE b1 == RestoreEntryStateForRetry(b, j)
<1> HIDE DEF b1
<1>2. ASSUME NEW entries, NEW ps, Holds(b1, entries, b.jobs, b.nextJob, ps)
      PROVE  Holds(r, entries, Requeued(b.jobs, id), b.nextJob, ps)
  <2>1. id \in JobIds(b1) /\ IsStore(b1)
    BY <1>2 DEF JobIds, Holds
  <2>2. Holds(UpdateJob(b1, id, "queued", 0), b1.entries,
              [b1.jobs EXCEPT ![id] = [@ EXCEPT !.state = "queued", !.attempts = 0]],
              b1.nextJob, b1.written)
    BY <2>1, UpdateJobHolds DEF JobStates
  <2>3. r = UpdateJob(b1, id, "queued", 0)
    BY DEF RetryJob, b1
  <2> QED BY <2>2, <2>3, <1>2 DEF Holds, Requeued
<1>3. CASE j.kind = "upload" /\ ~HasEntry(b, j.path)
  <2>1. RetriedEntry(j) \in Entry /\ NormalizeNewEntry(RetriedEntry(j)) = RetriedEntry(j)
    BY <1>1, <1>3 DEF RetriedEntry, Entry, Job, SyncStates, CacheStates, NormalizeNewEntry, JobOK
  <2>2. b1 = PutEntry(b, j.path, RetriedEntry(j))
    BY <1>3 DEF RestoreEntryStateForRetry, RetriedEntry, b1
  <2>3. Holds(b1, [b.entries EXCEPT ![j.path] = RetriedEntry(j)], b.jobs, b.nextJob,
              b.written \cup {j.path})
    BY <1>1, <2>1, <2>2, PutEntryHolds
  <2> QED BY <1>3, <1>2, <2>3
<1>4. ASSUME HasEntry(b, j.path), b1 = SetEntrySync(b, j.path, PendingSync(j.kind)),
             j.kind = "upload" => SameFile(b.entries[j.path], j)
      PROVE  Holds(r, [b.entries EXCEPT ![j.path].sync = PendingSync(j.kind)],
                   Requeued(b.jobs, id), b.nextJob, b.written \cup {j.path})
  BY <1>1, <1>4, SetEntrySyncHolds, <1>2 DEF PendingSync, SyncStates, JobKinds
<1>5. ASSUME b1 = b
      PROVE  Holds(r, b.entries, Requeued(b.jobs, id), b.nextJob, b.written)
  BY <1>5, <1>2 DEF Holds
<1>6. CASE j.kind = "upload" /\ HasEntry(b, j.path)
  BY <1>6, <1>4, <1>5 DEF RestoreEntryStateForRetry, SameFile, PendingSync, b1
<1>7. CASE j.kind \in {"delete", "rename"}
  BY <1>7, <1>4, <1>5 DEF RestoreEntryStateForRetry, PendingSync, b1, SetEntrySync
<1> QED BY <1>1, <1>3, <1>6, <1>7 DEF JobKinds

\* The engine's guarded changes: the entry gets a new state, or nothing changes.
Marked(b, c, p, s) ==
    Holds(c, [b.entries EXCEPT ![p].sync = s], b.jobs, b.nextJob, b.written \cup {p})

LEMMA SetEntrySyncIfHolds ==
    ASSUME NEW b, IsStore(b), NEW p \in Paths, NEW s \in SyncStates, NEW allowed,
           "absent" \notin allowed
    PROVE  LET c == SetEntrySyncIf(b, p, s, allowed)
           IN  \/ b.entries[p].sync \in allowed /\ Marked(b, c, p, s)
               \/ b.entries[p].sync \notin allowed /\ c = b
<1>1. CASE b.entries[p].sync \in allowed
  BY <1>1, SetEntrySyncHolds DEF HasEntry, SetEntrySyncIf, Marked
<1>2. CASE b.entries[p].sync \notin allowed
  BY <1>2 DEF SetEntrySyncIf
<1> QED BY <1>1, <1>2

LEMMA SetUploadJobSyncHolds ==
    ASSUME NEW b, IsStore(b), NEW j \in Job, NEW s \in SyncStates
    PROVE  LET c == SetUploadJobSync(b, j, s)
           IN  \/ UploadJobMatches(b, j, s) /\ Marked(b, c, j.path, s)
               \/ ~UploadJobMatches(b, j, s) /\ c = b
<1>1. j.path \in Paths
  BY DEF Job
<1>2. CASE UploadJobMatches(b, j, s)
  BY <1>2, <1>1, SetEntrySyncHolds DEF UploadJobMatches, SetUploadJobSync, Marked
<1>3. CASE ~UploadJobMatches(b, j, s)
  BY <1>3 DEF SetUploadJobSync
<1> QED BY <1>2, <1>3

\* The states that a failure gives, for the entries that are still the job's.
StillOf(b, j, s) ==
    CASE j.kind = "upload" -> UploadJobMatches(b, j, s)
      [] j.kind = "delete" -> b.entries[j.path].sync \in DeletePending
      [] j.kind = "rename" -> b.entries[j.path].sync = "pending_rename"

LEMMA SetFailedEntrySyncHolds ==
    ASSUME NEW b, IsStore(b), NEW j \in Job, NEW s \in SyncStates
    PROVE  LET c == SetFailedEntrySync(b, j, s)
           IN  \/ StillOf(b, j, s) /\ Marked(b, c, j.path, s)
               \/ ~StillOf(b, j, s) /\ c = b
<1>1. j.path \in Paths /\ j.kind \in JobKinds
  BY DEF Job
<1>2. CASE j.kind = "upload"
  BY <1>2, SetUploadJobSyncHolds DEF SetFailedEntrySync, StillOf
<1>3. CASE j.kind = "delete"
  BY <1>3, <1>1, SetEntrySyncIfHolds DEF SetFailedEntrySync, DeletePending, StillOf
<1>4. CASE j.kind = "rename"
  BY <1>4, <1>1, SetEntrySyncIfHolds DEF SetFailedEntrySync, StillOf
<1> QED BY <1>1, <1>2, <1>3, <1>4 DEF JobKinds

\* What a job that the machine has done leaves in the catalog.
SettledAs(b, j, c) ==
    \/ j.kind = "upload" /\ UploadJobMatches(b, j, "synced") /\ Marked(b, c, j.path, "synced")
    \/ /\ j.kind = "delete" /\ b.entries[j.path].sync \in DeletePending
       /\ Holds(c, [b.entries EXCEPT ![j.path] = NoEntry], b.jobs, b.nextJob,
                b.written \cup {j.path})
    \/ /\ j.kind = "rename" /\ RenameEntryMatchesJob(b.entries[j.path], j)
       /\ HasLocalIntent(b.entries[j.dest].sync)
       /\ Holds(c, [b.entries EXCEPT ![j.path] = NoEntry], b.jobs, b.nextJob,
                b.written \cup {j.path})
    \/ /\ j.kind = "rename" /\ RenameEntryMatchesJob(b.entries[j.path], j)
       /\ ~HasLocalIntent(b.entries[j.dest].sync)
       /\ Holds(c, [[b.entries EXCEPT
                       ![j.dest] = NormalizeNewEntry([b.entries[j.path] EXCEPT !.sync = "synced"])]
                       EXCEPT ![j.path] = NoEntry],
                b.jobs, b.nextJob, (b.written \cup {j.dest}) \cup {j.path})
    \/ /\ j.kind = "upload" => ~UploadJobMatches(b, j, "synced")
       /\ j.kind = "delete" => b.entries[j.path].sync \notin DeletePending
       /\ j.kind = "rename" => ~RenameEntryMatchesJob(b.entries[j.path], j)
       /\ c = b

LEMMA SettledHolds ==
    ASSUME NEW b, IsStore(b), NEW j \in Job, JobOK(j), NEW c, c = Settled(b, j)
    PROVE  SettledAs(b, j, c)
<1> USE DEF SettledAs
<1>1. j.path \in Paths /\ j.kind \in JobKinds /\ (j.kind = "rename" => j.dest \in Paths)
  BY DEF Job, JobOK
<1>2. CASE j.kind = "upload"
  BY <1>2, SetUploadJobSyncHolds DEF Settled, SyncStates
<1>3. CASE j.kind = "delete"
  <2>1. c = DeleteEntryIfSync(b, j.path, DeletePending)
    BY <1>3 DEF Settled, SettleDelete
  <2>2. CASE b.entries[j.path].sync \in DeletePending
    BY <1>1, <1>3, <2>1, <2>2, DeleteEntryHolds DEF DeleteEntryIfSync
  <2>3. CASE b.entries[j.path].sync \notin DeletePending
    BY <1>3, <2>1, <2>3 DEF DeleteEntryIfSync
  <2> QED BY <2>2, <2>3
<1>4. CASE j.kind = "rename"
  <2>1. c = SettleRename(b, j)
    BY <1>4 DEF Settled
  <2>2. CASE ~RenameEntryMatchesJob(b.entries[j.path], j)
    BY <1>4, <2>1, <2>2 DEF SettleRename
  <2>3. CASE RenameEntryMatchesJob(b.entries[j.path], j) /\ HasLocalIntent(b.entries[j.dest].sync)
    BY <1>1, <1>4, <2>1, <2>3, DeleteEntryHolds DEF SettleRename
  <2>4. CASE RenameEntryMatchesJob(b.entries[j.path], j) /\ ~HasLocalIntent(b.entries[j.dest].sync)
    <3> DEFINE e == [b.entries[j.path] EXCEPT !.sync = "synced"]
               b1 == PutEntry(b, j.dest, e)
               entries == [b.entries EXCEPT ![j.dest] = NormalizeNewEntry(e)]
    <3>1. c = DeleteEntry(b1, j.path)
      BY <2>1, <2>4 DEF SettleRename
    <3>2. e \in Entry
      BY <1>1 DEF IsStore, Entry, SyncStates
    <3>3. Holds(b1, entries, b.jobs, b.nextJob, b.written \cup {j.dest})
      BY <1>1, <1>4, <3>2, PutEntryHolds
    <3> HIDE DEF b1, entries
    <3>4. Holds(c, [entries EXCEPT ![j.path] = NoEntry], b.jobs, b.nextJob,
                (b.written \cup {j.dest}) \cup {j.path})
      BY <1>1, <3>1, <3>3, DeleteEntryHolds DEF Holds
    <3> QED BY <1>4, <2>4, <3>4 DEF entries
  <2> QED BY <2>2, <2>3, <2>4
<1> QED BY <1>1, <1>2, <1>3, <1>4 DEF JobKinds

-----------------------------------------------------------------------------
(* Types, with what each line of a call may rely on.                        *)

EngineOK ==
    /\ engine.pc \notin {"idle", "loop"} => Left # {}
    /\ engine.pc = "mark" => Current.kind # "rename"
    /\ engine.pc = "open" => Current.kind = "upload"
    /\ engine.pc = "unlink" => engine.file # None

\* What a caller holds while it replaces a cache file, by operation.
ReplacementOK(rec) ==
    CASE rec.op \in {"upload", "range", "fetch"} -> rec.val # None /\ rec.source = None
      [] rec.op = "rename" -> rec.source # None
      [] OTHER -> FALSE

CallOK(rec) ==
    /\ rec.pc \notin {"idle", "sweep"} => rec.path # None
    /\ rec.op = "rename" => rec.dest # None
    /\ rec.pc \in {"replace", "commit"} => ReplacementOK(rec)
    /\ rec.pc = "install" => rec.val # None
    /\ rec.pc \in {"download", "install"} => rec.op = "fetch" /\ rec.source = None
    /\ rec.pc \in {"moveLocal", "moveRemote"} => rec.op = "rename"

CallsOK == \A c \in Clients : CallOK(client[c])

SweepsOK == \A s \in Sweepers : sweeper[s].pc = "idle" => sweeper[s].todo = {}

-----------------------------------------------------------------------------
(* Stores whose jobs are well formed, and what keeps them so.               *)

GoodStore(b) == IsStore(b) /\ \A i \in JobIds(b) : JobOK(b.jobs[i])

\* Closing, adding, updating and pruning jobs keeps them well formed.
LEMMA ClosedJobsOK ==
    ASSUME NEW jobs, IsQueue(jobs), \A i \in DOMAIN jobs : JobOK(jobs[i]), NEW p, NEW kinds
    PROVE  /\ IsQueue(Closed(jobs, p, kinds)) /\ DOMAIN Closed(jobs, p, kinds) = DOMAIN jobs
           /\ \A i \in DOMAIN jobs : JobOK(Closed(jobs, p, kinds)[i])
<1>1. DOMAIN Closed(jobs, p, kinds) = DOMAIN jobs
  BY DEF Closed
<1>2. ASSUME NEW i \in DOMAIN jobs
      PROVE  Closed(jobs, p, kinds)[i] \in Job /\ JobOK(Closed(jobs, p, kinds)[i])
  BY DEF IsQueue, Job, JobOK, JobStates, Closed
<1>3. Closed(jobs, p, kinds) \in [DOMAIN jobs -> Job]
  BY <1>2 DEF Closed
<1> QED BY <1>1, <1>2, <1>3 DEF IsQueue

LEMMA AddedJobsOK ==
    ASSUME NEW jobs, \A i \in DOMAIN jobs : JobOK(jobs[i]), NEW n, NEW j, JobOK(j)
    PROVE  \A i \in DOMAIN Added(jobs, n, j) : JobOK(Added(jobs, n, j)[i])
BY DEF Added

LEMMA UpdatedJobOK ==
    ASSUME NEW b, GoodStore(b), NEW id \in JobIds(b), NEW s \in JobStates, NEW n \in Nat
    PROVE  GoodStore(UpdateJob(b, id, s, n))
<1> DEFINE jobs == [b.jobs EXCEPT ![id] = [@ EXCEPT !.state = s, !.attempts = n]]
           u == [b.jobs[id] EXCEPT !.state = s, !.attempts = n]
<1>1. Holds(UpdateJob(b, id, s, n), b.entries, jobs, b.nextJob, b.written)
  BY UpdateJobHolds DEF GoodStore
<1>2. b.jobs[id] \in Job /\ JobOK(b.jobs[id])
  BY DEF GoodStore, IsStore, IsQueue, JobIds
<1>3. JobOK(u)
  BY <1>2 DEF JobOK, Job
<1> HIDE DEF u
<1>4. \A i \in DOMAIN jobs : JobOK(jobs[i])
  BY <1>3 DEF GoodStore, JobIds, u
<1> HIDE DEF jobs
<1> QED BY <1>1, <1>4 DEF Holds, GoodStore, JobIds

LEMMA RestrictedJobsOK ==
    ASSUME NEW b, GoodStore(b), NEW ids \in SUBSET JobIds(b)
    PROVE  GoodStore([b EXCEPT !.jobs = Restrict(@, ids)])
<1>1. Holds([b EXCEPT !.jobs = Restrict(@, ids)], b.entries, Restrict(b.jobs, ids),
            b.nextJob, b.written)
  BY RestrictHolds DEF GoodStore
<1>2. \A i \in DOMAIN Restrict(b.jobs, ids) : JobOK(Restrict(b.jobs, ids)[i])
  BY DEF Restrict, GoodStore, JobIds
<1> QED BY <1>1, <1>2 DEF Holds, GoodStore, JobIds

\* A batch that was computed from a good store leaves one, also when it fails.
StoreStep(b) == Batch(b) \/ BatchFails(b) \/ UNCHANGED <<store, fresh>>

StoreShape ==
    /\ GoodStore(store) /\ store.written = {}
    /\ fresh \in [Readers -> SUBSET Paths]

LEMMA StoreStepShape ==
    ASSUME StoreShape, NEW b, GoodStore(b), StoreStep(b)
    PROVE  StoreShape'
<1>1. CASE Batch(b)
  BY <1>1, BatchEffect DEF GoodStore, StoreShape, JobIds
<1>2. CASE BatchFails(b)
  BY <1>2 DEF BatchFails, StoreShape, GoodStore
<1>3. CASE UNCHANGED <<store, fresh>>
  BY <1>3 DEF StoreShape, GoodStore
<1> QED BY <1>1, <1>2, <1>3 DEF StoreStep

\* A store with the jobs of a good one, and new entries, is good.
LEMMA SameJobsGood ==
    ASSUME NEW b, GoodStore(b), NEW c, NEW entries, NEW n, NEW ps, Holds(c, entries, b.jobs, n, ps)
    PROVE  GoodStore(c)
BY DEF GoodStore, Holds, JobIds

LEMMA MarkedGood ==
    ASSUME NEW b, GoodStore(b), NEW c, NEW p, NEW s, Marked(b, c, p, s) \/ c = b
    PROVE  GoodStore(c) /\ c.jobs = b.jobs
BY DEF GoodStore, Holds, JobIds, Marked

-----------------------------------------------------------------------------
(* The service's batches keep a good store good.                            *)

LEMMA UploadBatchGood ==
    ASSUME NEW b, GoodStore(b), NEW p \in Paths, NEW e \in Entry, e.cachePath # None
    PROVE  GoodStore(UploadBatch(b, p, e))
<1> DEFINE jobs == Closed(Closed(b.jobs, p, {"delete"}), p, {"upload"})
           j == NewJob("upload", p, None, e)
           entries == [b.entries EXCEPT ![p] = NormalizeNewEntry(e)]
<1>1. Holds(UploadBatch(b, p, e), entries, Added(jobs, b.nextJob, j), b.nextJob + 1, b.written \cup {p})
  BY UploadBatchHolds DEF GoodStore
<1>2. \A i \in DOMAIN jobs : JobOK(jobs[i])
  BY ClosedJobsOK DEF GoodStore, IsStore, JobIds
<1>3. JobOK(j)
  BY DEF JobOK, NewJob
<1>4. \A i \in DOMAIN Added(jobs, b.nextJob, j) : JobOK(Added(jobs, b.nextJob, j)[i])
  BY <1>2, <1>3, AddedJobsOK
<1> HIDE DEF jobs, j, entries
<1> QED BY <1>1, <1>4 DEF Holds, GoodStore, JobIds

LEMMA RangeBatchGood ==
    ASSUME NEW b, GoodStore(b), NEW p \in Paths, NEW v \in Contents
    PROVE  GoodStore(RangeBatch(b, p, v))
<1> DEFINE jobs == Closed(Closed(b.jobs, p, {"delete"}), p, {"upload"})
           entries == [b.entries EXCEPT ![p] =
                         NormalizeNewEntry([CachedEntry(p, v, "local_only") EXCEPT !.md5 = None])]
<1>1. Holds(RangeBatch(b, p, v), entries, jobs, b.nextJob, b.written \cup {p})
  BY RangeBatchHolds DEF GoodStore
<1>2. \A i \in DOMAIN jobs : JobOK(jobs[i])
  BY ClosedJobsOK DEF GoodStore, IsStore, JobIds
<1> HIDE DEF jobs, entries
<1> QED BY <1>1, <1>2 DEF Holds, GoodStore, JobIds

LEMMA RenameLocalBatchGood ==
    ASSUME NEW b, GoodStore(b), NEW c, client[c].path \in Paths, client[c].dest \in Paths,
           client[c].entry \in Entry
    PROVE  GoodStore(RenameLocalBatch(b, c))
<1> DEFINE p == client[c].path
           q == client[c].dest
           jobs == Closed(Closed(b.jobs, p, {"upload"}), q, {"upload"})
           j == NewJob("upload", q, None, MovedEntry(c))
           entries == [[b.entries EXCEPT ![p] = NoEntry]
                         EXCEPT ![q] = NormalizeNewEntry(MovedEntry(c))]
<1>1. Holds(RenameLocalBatch(b, c), entries, Added(jobs, b.nextJob, j), b.nextJob + 1,
            (b.written \cup {p}) \cup {q})
  BY RenameLocalBatchHolds DEF GoodStore
<1>2. \A i \in DOMAIN jobs : JobOK(jobs[i])
  BY ClosedJobsOK DEF GoodStore, IsStore, JobIds
<1>3. JobOK(j)
  BY StoreAssumption DEF JobOK, NewJob, MovedEntry, Entry
<1>4. \A i \in DOMAIN Added(jobs, b.nextJob, j) : JobOK(Added(jobs, b.nextJob, j)[i])
  BY <1>2, <1>3, AddedJobsOK
<1> HIDE DEF jobs, j, entries, p, q
<1> QED BY <1>1, <1>4 DEF Holds, GoodStore, JobIds

LEMMA MarkAndEnqueueGood ==
    ASSUME NEW b, GoodStore(b), NEW p \in Paths, NEW s \in SyncStates, HasEntry(b, p),
           NEW j \in Job, JobOK(j)
    PROVE  GoodStore(Enqueue(SetEntrySync(b, p, s), j))
<1> DEFINE entries == [b.entries EXCEPT ![p].sync = s]
<1>1. Holds(Enqueue(SetEntrySync(b, p, s), j), entries, Added(b.jobs, b.nextJob, j),
            b.nextJob + 1, b.written \cup {p})
  BY MarkAndEnqueueHolds DEF GoodStore
<1>2. \A i \in DOMAIN Added(b.jobs, b.nextJob, j) : JobOK(Added(b.jobs, b.nextJob, j)[i])
  BY AddedJobsOK DEF GoodStore, JobIds
<1> HIDE DEF entries
<1> QED BY <1>1, <1>2 DEF Holds, GoodStore, JobIds

LEMMA DiscardGood ==
    ASSUME NEW b, GoodStore(b), NEW p \in Paths
    PROVE  GoodStore(DiscardEntry(b, p, JobKinds)) /\ GoodStore(DiscardJobs(b, p, JobKinds))
<1> DEFINE entries == [b.entries EXCEPT ![p] = NoEntry]
<1>1. Holds(DiscardEntry(b, p, JobKinds), entries, Closed(b.jobs, p, JobKinds), b.nextJob,
            b.written \cup {p})
  BY DiscardEntryHolds DEF GoodStore
<1>2. Holds(DiscardJobs(b, p, JobKinds), b.entries, Closed(b.jobs, p, JobKinds), b.nextJob, b.written)
  BY DiscardJobsHolds DEF GoodStore
<1>3. \A i \in DOMAIN Closed(b.jobs, p, JobKinds) : JobOK(Closed(b.jobs, p, JobKinds)[i])
  BY ClosedJobsOK DEF GoodStore, IsStore, JobIds
<1> HIDE DEF entries
<1> QED BY <1>1, <1>2, <1>3 DEF Holds, GoodStore, JobIds

LEMMA RetryGood ==
    ASSUME NEW b, GoodStore(b), NEW id \in JobIds(b)
    PROVE  GoodStore(RetryJob(RestoreEntryStateForRetry(b, b.jobs[id]), id))
<1> DEFINE r == RetryJob(RestoreEntryStateForRetry(b, b.jobs[id]), id)
           jobs == Requeued(b.jobs, id)
<1>1. r.jobs = jobs /\ IsStore(r)
  <2>1. JobOK(b.jobs[id]) /\ IsStore(b)
    BY DEF GoodStore
  <2> HIDE DEF r
  <2>2. r = RetryJob(RestoreEntryStateForRetry(b, b.jobs[id]), id)
    BY DEF r
  <2> QED BY <2>1, <2>2, RetryHolds DEF Holds
<1>2. b.jobs[id] \in Job /\ JobOK(b.jobs[id])
  BY DEF GoodStore, IsStore, IsQueue, JobIds
<1> DEFINE u == [b.jobs[id] EXCEPT !.state = "queued", !.attempts = 0]
<1>3. JobOK(u)
  BY <1>2 DEF JobOK, Job
<1> HIDE DEF u
<1>4. \A i \in DOMAIN jobs : JobOK(jobs[i])
  BY <1>3 DEF GoodStore, JobIds, Requeued, u
<1> HIDE DEF jobs, r
<1>5. GoodStore(r)
  BY <1>1, <1>4 DEF GoodStore, JobIds
<1> QED BY <1>5 DEF r

LEMMA PruneGood ==
    ASSUME NEW b, GoodStore(b)
    PROVE  /\ \A ids : GoodStore(PruneDoneJobs(b, ids))
           /\ GoodStore(PruneFailedJobs(b, 1))
BY RestrictedJobsOK DEF PruneDoneJobs, PruneFailedJobs

-----------------------------------------------------------------------------
(* The service                                                              *)

CallRecords ==
    [pc : ClientPCs, op : OpNames, path : Paths \cup {None}, dest : Paths \cup {None}, val : Files,
     source : Paths \cup {None}, backup : Files, entry : Entry, files : SUBSET Paths]

LEMMA IdleCallOK == ClientIdle \in CallRecords /\ CallOK(ClientIdle)
BY StoreAssumption
   DEF ClientIdle, CallRecords, ClientPCs, OpNames, Files, NoEntry, Entry, CacheStates, CallOK

LEMMA BecomeShape ==
    ASSUME ClientTypeOK, CallsOK, NEW c \in Clients, NEW rec \in CallRecords, CallOK(rec),
           Become(c, rec)
    PROVE  ClientTypeOK' /\ CallsOK'
<1>1. client \in [Clients -> CallRecords]
  BY DEF ClientTypeOK, CallRecords
<1>2. client' = [client EXCEPT ![c] = rec]
  BY DEF Become
<1> HIDE DEF CallRecords
<1>3. client' \in [Clients -> CallRecords]
  BY <1>1, <1>2
<1>4. \A k \in Clients : client'[k] = IF k = c THEN rec ELSE client[k]
  BY <1>1, <1>2
<1>5. CallsOK'
  BY <1>4 DEF CallsOK
<1> QED BY <1>3, <1>5 DEF ClientTypeOK, CallRecords

LEMMA ReturnShape ==
    ASSUME ClientTypeOK, CallsOK, NEW c \in Clients, Return(c)
    PROVE  ClientTypeOK' /\ CallsOK'
BY IdleCallOK, BecomeShape DEF Return

CacheTyped == cache \in [Paths -> Files]
MachineTyped == machine \in [Paths -> Files]
LockTyped == commitMu \in {"free"} \cup Clients

\* What a service call leaves behind.
ServiceShape == StoreShape /\ CacheTyped /\ LockTyped /\ ClientTypeOK /\ CallsOK

LEMMA ForgetShape ==
    ASSUME StoreShape, NEW r, NEW ps \in SUBSET Paths, fresh' = [fresh EXCEPT ![r] = ps],
           UNCHANGED store
    PROVE  StoreShape'
BY DEF StoreShape, GoodStore

LEMMA BackupShape ==
    ASSUME CacheTyped, LockTyped, ClientTypeOK, CallsOK,
           NEW c \in Clients, NEW rec \in CallRecords, NEW target \in Paths,
           CallOK([rec EXCEPT !.pc = "replace", !.backup = cache[target]]),
           BackupCacheTarget(c, rec, target)
    PROVE  CacheTyped' /\ LockTyped' /\ ClientTypeOK' /\ CallsOK'
<1>1. cache[target] \in Files /\ None \in Files
  BY DEF CacheTyped, Files
<1>2. CacheTyped' /\ LockTyped'
  BY <1>1 DEF CacheTyped, LockTyped, BackupCacheTarget
<1> DEFINE new == [rec EXCEPT !.pc = "replace", !.backup = cache[target]]
<1>3. new \in CallRecords
  BY <1>1 DEF CallRecords, ClientPCs
<1>4. Become(c, new)
  BY DEF BackupCacheTarget
<1> HIDE DEF new
<1>5. CallOK(new)
  BY DEF new
<1> QED BY <1>2, <1>3, <1>4, <1>5, BecomeShape

\* A caller's record, and what its line tells of it.
LEMMA CallerFacts ==
    ASSUME ClientTypeOK, CallsOK, NEW c \in Clients
    PROVE  client[c] \in CallRecords /\ CallOK(client[c])
BY DEF ClientTypeOK, CallsOK, CallRecords

LEMMA RolledBackTyped ==
    ASSUME CacheTyped, ClientTypeOK, CallsOK, NEW c \in Clients, client[c].pc = "commit"
    PROVE  RolledBack(c) \in [Paths -> Files] /\ Target(c) \in Paths
<1>1. client[c] \in CallRecords /\ CallOK(client[c])
  BY CallerFacts
<1>2. Target(c) \in Paths
  BY <1>1 DEF CallRecords, CallOK, Target, ReplacementOK
<1>3. client[c].backup \in Files /\ client[c].source \in Paths \cup {None}
  BY <1>1 DEF CallRecords
<1> QED BY <1>2, <1>3 DEF RolledBack, CacheTyped

LEMMA ServiceKeepsShape ==
    ASSUME ServiceShape, MachineTyped, ServiceNext
    PROVE  ServiceShape'
<1>0. PICK c \in Clients :
        \/ \E p \in Paths, v \in Contents, op \in {"upload", "range"} : Upload(c, p, v, op)
        \/ ReplaceCacheFile(c) \/ CommitReplacement(c)
        \/ \E p \in Paths : Delete(c, p) \/ DiscardLocal(c, p) \/ Fetch(c, p)
        \/ EnqueueDelete(c) \/ DiscardBatch(c) \/ DiscardJobsBatch(c) \/ UnlinkDiscarded(c)
        \/ \E p, dest \in Paths : Rename(c, p, dest)
        \/ EnqueueRemoteRename(c) \/ RenameLocalUpload(c)
        \/ \E id \in JobIds(store) : Retry(c, id)
        \/ Download(c) \/ InstallFetched(c) \/ CommitFetch(c)
        \/ PruneJobs(c) \/ PruneCache(c) \/ PruneCacheRemove(c)
  BY DEF ServiceNext
<1>f. /\ client[c] \in CallRecords /\ CallOK(client[c])
      /\ StoreShape /\ CacheTyped /\ LockTyped /\ ClientTypeOK /\ CallsOK
      /\ GoodStore(store) /\ IsStore(store)
  BY CallerFacts DEF ServiceShape, StoreShape, GoodStore
<1>n. None \notin Paths /\ None \notin Contents
  BY StoreAssumption
<1>k. /\ UNCHANGED <<store, fresh>> => StoreShape'
      /\ UNCHANGED cache => CacheTyped'
      /\ UNCHANGED commitMu => LockTyped'
      /\ commitMu' = "free" => LockTyped'
      /\ UNCHANGED client => ClientTypeOK' /\ CallsOK'
  BY <1>f DEF StoreShape, GoodStore, CacheTyped, LockTyped, ClientTypeOK, CallsOK
<1>r. ASSUME Return(c) PROVE ClientTypeOK' /\ CallsOK'
  BY <1>f, <1>r, ReturnShape
<1>1. ASSUME NEW p \in Paths, NEW v \in Contents, NEW op \in {"upload", "range"}, Upload(c, p, v, op)
      PROVE  ServiceShape'
  <2> DEFINE rec == [ClientIdle EXCEPT !.op = op, !.path = p, !.val = v]
  <2>1. rec \in CallRecords
    BY IdleCallOK DEF CallRecords, OpNames, Files
  <2>2. CallOK([rec EXCEPT !.pc = "replace", !.backup = cache[p]])
    BY <1>n DEF ClientIdle, CallOK, ReplacementOK
  <2>3. BackupCacheTarget(c, rec, p) /\ UNCHANGED <<store, fresh>>
    BY <1>1 DEF Upload
  <2> HIDE DEF rec
  <2> QED BY <1>f, <1>k, <2>1, <2>2, <2>3, BackupShape DEF ServiceShape
<1>2. CASE ReplaceCacheFile(c)
  <2>1. client[c].pc = "replace" /\ ReplacementOK(client[c])
    BY <1>2, <1>f DEF ReplaceCacheFile, CallOK
  <2>2. Target(c) \in Paths
    BY <1>f, <2>1 DEF CallRecords, CallOK, Target, ReplacementOK
  <2>3. client[c].backup \in Files /\ client[c].source \in Paths \cup {None} /\ client[c].val \in Files
    BY <1>f DEF CallRecords
  <2>4. CASE cache' = Replaced(c) /\ Become(c, [client[c] EXCEPT !.pc = "commit"])
             /\ UNCHANGED <<commitMu, fresh, store>>
    <3>1. CacheTyped'
      BY <1>f, <2>2, <2>3, <2>4 DEF Replaced, CacheTyped, Files
    <3>2. [client[c] EXCEPT !.pc = "commit"] \in CallRecords /\ CallOK([client[c] EXCEPT !.pc = "commit"])
      BY <1>f, <2>1 DEF CallRecords, CallOK, ReplacementOK, ClientPCs
    <3> QED BY <1>f, <1>k, <2>4, <3>1, <3>2, BecomeShape DEF ServiceShape
  <2>5. CASE cache' = [cache EXCEPT ![Target(c)] = client[c].backup] /\ ReturnAndForget(c)
             /\ Unlock(c) /\ UNCHANGED store
    <3>1. CacheTyped'
      BY <1>f, <2>2, <2>3, <2>5 DEF CacheTyped
    <3>2. StoreShape'
      BY <1>f, <2>5, {} \in SUBSET Paths, ForgetShape DEF ReturnAndForget
    <3> QED BY <1>k, <1>r, <2>5, <3>1, <3>2 DEF ServiceShape, ReturnAndForget, Unlock
  <2> QED BY <1>2, <2>4, <2>5 DEF ReplaceCacheFile
<1>3. CASE CommitReplacement(c)
  <2>1. client[c].pc = "commit" /\ client[c].op \in {"upload", "range", "rename"}
        /\ ReplacementOK(client[c]) /\ client[c].path \in Paths
    BY <1>3, <1>f DEF CommitReplacement, CallOK, CallRecords
  <2>2. GoodStore(CommitBatch(store, c))
    <3>1. CASE client[c].op = "upload"
      <4>1. client[c].val \in Contents
        BY <1>f, <2>1, <3>1 DEF ReplacementOK, CallRecords, Files
      <4> DEFINE e == CachedEntry(client[c].path, client[c].val, "pending_upload")
      <4>2. e \in Entry /\ e.cachePath # None
        BY <1>n, <2>1, <4>1, CachedEntryIsEntry DEF CachedEntry, SyncStates
      <4>3. CommitBatch(store, c) = UploadBatch(store, client[c].path, e)
        BY <3>1 DEF CommitBatch
      <4> HIDE DEF e
      <4> QED BY <1>f, <2>1, <4>2, <4>3, UploadBatchGood
    <3>2. CASE client[c].op = "range"
      BY <1>f, <2>1, <3>2, RangeBatchGood DEF ReplacementOK, CallRecords, Files, CommitBatch
    <3>3. CASE client[c].op = "rename"
      BY <1>f, <3>3, <2>1, RenameLocalBatchGood DEF CallRecords, CallOK, CommitBatch
    <3> QED BY <2>1, <3>1, <3>2, <3>3
  <2>3. StoreStep(CommitBatch(store, c)) /\ Return(c) /\ Unlock(c)
        /\ (UNCHANGED cache \/ cache' = RolledBack(c))
    BY <1>3 DEF CommitReplacement, StoreStep
  <2>4. StoreShape'
    BY <1>f, <2>2, <2>3, StoreStepShape
  <2>5. CacheTyped'
    BY <1>f, <1>k, <2>1, <2>3, RolledBackTyped DEF CacheTyped
  <2> QED BY <1>k, <1>r, <2>3, <2>4, <2>5 DEF ServiceShape, Unlock
<1>4. ASSUME NEW p \in Paths, Delete(c, p) PROVE ServiceShape'
  <2> DEFINE rec == [ClientIdle EXCEPT !.op = "delete", !.path = p,
                        !.pc = IF ShouldDiscardLocalEntry(p) THEN "discard" ELSE "enqueueDelete"]
  <2>1. rec \in CallRecords
    BY IdleCallOK DEF CallRecords, OpNames, ClientPCs
  <2>2. CallOK(rec)
    BY <1>n DEF ClientIdle, CallOK
  <2>3. Become(c, rec) /\ UNCHANGED shared
    BY <1>4 DEF Delete
  <2> HIDE DEF rec
  <2> QED BY <1>f, <1>k, <2>1, <2>2, <2>3, BecomeShape DEF ServiceShape, shared
<1>5. ASSUME NEW p \in Paths, DiscardLocal(c, p) PROVE ServiceShape'
  <2> DEFINE rec == [ClientIdle EXCEPT !.op = "discard", !.path = p,
                        !.pc = IF HasEntry(store, p) THEN "discard" ELSE "dropJobs"]
  <2>1. rec \in CallRecords
    BY IdleCallOK DEF CallRecords, OpNames, ClientPCs
  <2>2. CallOK(rec)
    BY <1>n DEF ClientIdle, CallOK
  <2>3. Become(c, rec) /\ UNCHANGED shared
    BY <1>5 DEF DiscardLocal
  <2> HIDE DEF rec
  <2> QED BY <1>f, <1>k, <2>1, <2>2, <2>3, BecomeShape DEF ServiceShape, shared
<1>6. ASSUME NEW p \in Paths, Fetch(c, p) PROVE ServiceShape'
  <2> DEFINE rec == [ClientIdle EXCEPT !.op = "fetch", !.path = p, !.pc = "download"]
  <2>1. rec \in CallRecords
    BY IdleCallOK DEF CallRecords, OpNames, ClientPCs
  <2>2. CallOK(rec)
    BY <1>n DEF ClientIdle, CallOK
  <2>3. Become(c, rec) /\ UNCHANGED <<store, cache, commitMu>> /\ Look(c, {p})
    BY <1>6 DEF Fetch
  <2>4. StoreShape'
    BY <1>f, <2>3, ForgetShape DEF Look
  <2> HIDE DEF rec
  <2> QED BY <1>f, <1>k, <2>1, <2>2, <2>3, <2>4, BecomeShape DEF ServiceShape
<1>7. CASE EnqueueDelete(c)
  <2>1. client[c].path \in Paths
    BY <1>7, <1>f DEF EnqueueDelete, CallOK, CallRecords
  <2> DEFINE j == NewJob("delete", client[c].path, None, NoEntry)
             b == Enqueue(SetEntrySync(store, client[c].path, "pending_delete"), j)
  <2>2. j \in Job /\ JobOK(j)
    BY <2>1, NewJobIsJob DEF NewJob, JobOK, NoEntry, Entry, CacheStates, JobKinds
  <2>3. HasEntry(store, client[c].path) => GoodStore(b)
    <3> HIDE DEF j
    <3> QED BY <1>f, <2>1, <2>2, MarkAndEnqueueGood DEF SyncStates
  <2>4. /\ \/ HasEntry(store, client[c].path) /\ StoreStep(b)
           \/ UNCHANGED <<store, fresh>>
        /\ Return(c) /\ UNCHANGED <<cache, commitMu>>
    BY <1>7 DEF EnqueueDelete, StoreStep
  <2> HIDE DEF b
  <2>5. StoreShape'
    BY <1>f, <1>k, <2>3, <2>4, StoreStepShape
  <2> QED BY <1>k, <1>r, <2>4, <2>5 DEF ServiceShape
<1>8. CASE DiscardBatch(c)
  <2>1. client[c].path \in Paths
    BY <1>8, <1>f DEF DiscardBatch, CallOK, CallRecords
  <2> DEFINE b == DiscardEntry(store, client[c].path, JobKinds)
             file == store.entries[client[c].path].cachePath
             rec == [client[c] EXCEPT !.pc = "unlink", !.files = {file}]
  <2>2. GoodStore(b)
    BY <1>f, <2>1, DiscardGood
  <2>3. StoreStep(b) /\ UNCHANGED <<cache, commitMu>>
        /\ (Return(c) \/ (file # None /\ Become(c, rec)))
    BY <1>8 DEF DiscardBatch, StoreStep
  <2>4. file # None => rec \in CallRecords /\ CallOK(rec)
    <3>1. file \in Paths \cup {None}
      BY <1>f, <2>1 DEF IsStore, Entry
    <3>2. client[c].pc = "discard"
      BY <1>8 DEF DiscardBatch
    <3> HIDE DEF file
    <3> QED BY <1>f, <3>1, <3>2 DEF CallRecords, CallOK, ClientPCs
  <2> HIDE DEF b, rec, file
  <2>5. StoreShape'
    BY <1>f, <2>2, <2>3, StoreStepShape
  <2>6. ClientTypeOK' /\ CallsOK'
    BY <1>f, <1>r, <2>3, <2>4, BecomeShape
  <2> QED BY <1>k, <2>3, <2>5, <2>6 DEF ServiceShape
<1>9. CASE DiscardJobsBatch(c)
  <2>1. client[c].path \in Paths /\ client[c].pc = "dropJobs"
    BY <1>9, <1>f DEF DiscardJobsBatch, CallOK, CallRecords
  <2> DEFINE p == client[c].path
             b == DiscardJobs(store, p, JobKinds)
             dropped == {i \in JobIds(store) : store.jobs[i].path = p /\ Unfinished(store.jobs[i])}
             files == {store.jobs[i].cachePath : i \in dropped} \ {None}
             rec == [client[c] EXCEPT !.pc = "unlink", !.files = files]
  <2>2. GoodStore(b)
    BY <1>f, <2>1, DiscardGood
  <2>3. StoreStep(b) /\ UNCHANGED <<cache, commitMu>> /\ (Return(c) \/ Become(c, rec))
    BY <1>9 DEF DiscardJobsBatch, StoreStep
  <2>4. rec \in CallRecords /\ CallOK(rec)
    <3>1. \A i \in JobIds(store) : store.jobs[i].cachePath \in Paths \cup {None}
      BY <1>f DEF IsStore, IsQueue, JobIds, Job
    <3>2. files \subseteq Paths
      BY <3>1
    <3> HIDE DEF files
    <3> QED BY <1>f, <3>2, <2>1 DEF CallRecords, CallOK, ClientPCs
  <2> HIDE DEF b, rec, files, dropped, p
  <2>5. StoreShape'
    BY <1>f, <2>2, <2>3, StoreStepShape
  <2>6. ClientTypeOK' /\ CallsOK'
    BY <1>f, <1>r, <2>3, <2>4, BecomeShape
  <2> QED BY <1>k, <2>3, <2>5, <2>6 DEF ServiceShape
<1>10. CASE UnlinkDiscarded(c)
  BY <1>10, <1>f, <1>k, <1>r DEF UnlinkDiscarded, CacheTyped, Files, ServiceShape
<1>11. ASSUME NEW p \in Paths, NEW dest \in Paths, Rename(c, p, dest) PROVE ServiceShape'
  <2> DEFINE rec == [ClientIdle EXCEPT !.op = "rename", !.path = p, !.dest = dest,
                        !.pc = IF CanRenameLocalUpload(p) THEN "moveLocal" ELSE "moveRemote"]
  <2>1. rec \in CallRecords
    BY IdleCallOK DEF CallRecords, OpNames, ClientPCs
  <2>2. CallOK(rec)
    BY <1>n DEF ClientIdle, CallOK
  <2>3. Become(c, rec) /\ UNCHANGED shared
    BY <1>11 DEF Rename
  <2> HIDE DEF rec
  <2> QED BY <1>f, <1>k, <2>1, <2>2, <2>3, BecomeShape DEF ServiceShape, shared
<1>12. CASE EnqueueRemoteRename(c)
  <2>1. client[c].path \in Paths /\ client[c].dest \in Paths
    BY <1>12, <1>f DEF EnqueueRemoteRename, CallOK, CallRecords
  <2> DEFINE p == client[c].path
             j == NewJob("rename", p, client[c].dest, store.entries[p])
             b == Enqueue(SetEntrySync(store, p, "pending_rename"), j)
  <2>2. j \in Job /\ JobOK(j)
    <3>1. store.entries[p] \in Entry
      BY <1>f, <2>1 DEF IsStore
    <3>2. j \in Job
      BY <2>1, <3>1, NewJobIsJob DEF JobKinds
    <3>3. JobOK(j)
      BY <1>n, <2>1 DEF NewJob, JobOK
    <3> QED BY <3>2, <3>3
  <2>3. HasEntry(store, p) => GoodStore(b)
    <3> HIDE DEF j
    <3> QED BY <1>f, <2>1, <2>2, MarkAndEnqueueGood DEF SyncStates
  <2>4. /\ \/ HasEntry(store, p) /\ StoreStep(b)
           \/ UNCHANGED <<store, fresh>>
        /\ Return(c) /\ UNCHANGED cache
        /\ commitMu' = "free" \/ UNCHANGED commitMu
    BY <1>12 DEF EnqueueRemoteRename, StoreStep, RemoteRenameBatch
  <2> HIDE DEF b, p
  <2>5. StoreShape'
    BY <1>f, <1>k, <2>3, <2>4, StoreStepShape
  <2> QED BY <1>k, <1>r, <2>4, <2>5 DEF ServiceShape
<1>13. CASE RenameLocalUpload(c)
  <2>1. client[c].path \in Paths /\ client[c].dest \in Paths /\ client[c].op = "rename"
        /\ client[c].pc = "moveLocal"
    BY <1>13, <1>f DEF RenameLocalUpload, CallOK, CallRecords
  <2> DEFINE e == store.entries[client[c].path]
             rec == [client[c] EXCEPT !.entry = e, !.source = e.cachePath]
  <2>2. e \in Entry
    BY <1>f, <2>1 DEF IsStore
  <2>3. rec \in CallRecords
    <3> HIDE DEF e
    <3> QED BY <1>f, <2>2 DEF CallRecords, Entry
  <2>4. UNCHANGED <<store, fresh>>
    BY <1>13 DEF RenameLocalUpload
  <2>5. CASE Return(c) /\ UNCHANGED <<cache, commitMu>>
    BY <1>k, <1>r, <2>4, <2>5 DEF ServiceShape
  <2>6. CASE Become(c, [client[c] EXCEPT !.pc = "moveRemote"]) /\ commitMu' = c /\ UNCHANGED cache
    <3>1. [client[c] EXCEPT !.pc = "moveRemote"] \in CallRecords
          /\ CallOK([client[c] EXCEPT !.pc = "moveRemote"])
      BY <1>f, <2>1 DEF CallRecords, CallOK, ClientPCs
    <3>2. LockTyped'
      BY <2>6 DEF LockTyped
    <3> QED BY <1>f, <1>k, <2>4, <2>6, <3>1, <3>2, BecomeShape DEF ServiceShape
  <2>7. CASE e.cachePath # None /\ BackupCacheTarget(c, rec, client[c].dest)
    <3>1. CallOK([rec EXCEPT !.pc = "replace", !.backup = cache[client[c].dest]])
      <4> HIDE DEF e
      <4> QED BY <1>f, <2>1, <2>7 DEF CallRecords, CallOK, ReplacementOK
    <3> HIDE DEF rec
    <3> QED BY <1>f, <1>k, <2>1, <2>3, <2>4, <2>7, <3>1, BackupShape DEF ServiceShape
  <2>8. CASE e.cachePath # None /\ Become(c, [rec EXCEPT !.pc = "commit"]) /\ commitMu' = c
             /\ UNCHANGED cache
    <3>1. [rec EXCEPT !.pc = "commit"] \in CallRecords
      <4> HIDE DEF e
      <4> QED BY <2>3 DEF CallRecords, ClientPCs
    <3>2. CallOK([rec EXCEPT !.pc = "commit"])
      <4> HIDE DEF e
      <4> QED BY <1>f, <2>1, <2>8 DEF CallRecords, CallOK, ReplacementOK
    <3>3. LockTyped'
      BY <2>8 DEF LockTyped
    <3> HIDE DEF rec
    <3> QED BY <1>f, <1>k, <2>4, <2>8, <3>1, <3>2, <3>3, BecomeShape DEF ServiceShape
  <2> QED BY <1>13, <2>5, <2>6, <2>7, <2>8 DEF RenameLocalUpload, CanRenameLocalUpload
<1>14. ASSUME NEW id \in JobIds(store), Retry(c, id) PROVE ServiceShape'
  <2> DEFINE b == RetryJob(RestoreEntryStateForRetry(store, store.jobs[id]), id)
  <2>1. GoodStore(b)
    BY <1>f, RetryGood
  <2>2. StoreStep(b) /\ UNCHANGED <<cache, commitMu, client>>
    BY <1>14 DEF Retry, StoreStep
  <2> HIDE DEF b
  <2>3. StoreShape'
    BY <1>f, <2>1, <2>2, StoreStepShape
  <2> QED BY <1>k, <2>2, <2>3 DEF ServiceShape
<1>15. CASE Download(c)
  <2>1. client[c].pc = "download" /\ client[c].op = "fetch" /\ client[c].path \in Paths
    BY <1>15, <1>f DEF Download, CallOK, CallRecords
  <2>2. UNCHANGED <<store, cache, commitMu>>
    BY <1>15 DEF Download
  <2> DEFINE v == machine[client[c].path]
             rec == [client[c] EXCEPT !.pc = "install", !.val = v]
  <2>3. CASE v # None /\ Become(c, rec) /\ UNCHANGED fresh
    <3>1. v \in Files
      BY <2>1 DEF MachineTyped
    <3>2. rec \in CallRecords /\ CallOK(rec)
      <4> HIDE DEF v
      <4> QED BY <1>f, <2>1, <2>3, <3>1 DEF CallRecords, CallOK, ClientPCs
    <3> HIDE DEF rec
    <3> QED BY <1>f, <1>k, <2>2, <2>3, <3>2, BecomeShape DEF ServiceShape
  <2>4. CASE ReturnAndForget(c)
    <3>1. StoreShape'
      BY <1>f, <2>2, <2>4, {} \in SUBSET Paths, ForgetShape DEF ReturnAndForget
    <3> QED BY <1>k, <1>r, <2>2, <2>4, <3>1 DEF ServiceShape, ReturnAndForget
  <2> QED BY <1>15, <2>3, <2>4 DEF Download
<1>16. CASE InstallFetched(c)
  <2>1. client[c].pc = "install" /\ client[c].op = "fetch" /\ client[c].path \in Paths
        /\ BackupCacheTarget(c, client[c], client[c].path) /\ UNCHANGED <<store, fresh>>
    BY <1>16, <1>f DEF InstallFetched, CallOK, CallRecords
  <2>2. CallOK([client[c] EXCEPT !.pc = "replace", !.backup = cache[client[c].path]])
    BY <1>f, <2>1 DEF CallOK, CallRecords, ReplacementOK
  <2> QED BY <1>f, <1>k, <2>1, <2>2, BackupShape DEF ServiceShape
<1>17. CASE CommitFetch(c)
  <2>1. client[c].pc = "commit" /\ client[c].path \in Paths /\ client[c].val \in Contents
    BY <1>17, <1>f DEF CommitFetch, CallOK, CallRecords, ReplacementOK, Files
  <2> DEFINE e == CachedEntry(client[c].path, client[c].val, "synced")
             b == PutEntry(store, client[c].path, e)
  <2>2. GoodStore(b)
    <3>1. e \in Entry
      BY <2>1, CachedEntryIsEntry DEF SyncStates
    <3> HIDE DEF e
    <3> QED BY <1>f, <2>1, <3>1, PutEntryHolds, SameJobsGood
  <2>3. /\ StoreStep(b) \/ (UNCHANGED store /\ fresh' = [fresh EXCEPT ![c] = {}])
        /\ Return(c) /\ Unlock(c) /\ (UNCHANGED cache \/ cache' = RolledBack(c))
    BY <1>17 DEF CommitFetch, StoreStep
  <2> HIDE DEF b
  <2>4. StoreShape'
    BY <1>f, <2>2, <2>3, StoreStepShape, ForgetShape
  <2>5. CacheTyped'
    BY <1>f, <1>k, <2>1, <2>3, RolledBackTyped DEF CacheTyped
  <2> QED BY <1>k, <1>r, <2>3, <2>4, <2>5 DEF ServiceShape, Unlock
<1>18. CASE PruneJobs(c)
  BY <1>18, <1>f, PruneGood, StoreStepShape, <1>k DEF PruneJobs, StoreStep, ServiceShape
<1>19. CASE PruneCache(c)
  <2>1. PICK files \in SUBSET (Paths \ ReferencedFiles) :
           Become(c, [ClientIdle EXCEPT !.op = "prune", !.pc = "sweep", !.files = files])
    BY <1>19 DEF PruneCache
  <2> DEFINE rec == [ClientIdle EXCEPT !.op = "prune", !.pc = "sweep", !.files = files]
  <2>2. rec \in CallRecords /\ CallOK(rec)
    BY IdleCallOK DEF CallRecords, OpNames, ClientPCs, ClientIdle, CallOK
  <2>3. LockTyped' /\ UNCHANGED <<store, cache, fresh>>
    BY <1>19 DEF PruneCache, LockTyped
  <2> HIDE DEF rec
  <2>4. Become(c, rec)
    BY <2>1 DEF rec
  <2> QED BY <1>f, <1>k, <2>2, <2>3, <2>4, BecomeShape DEF ServiceShape
<1>20. CASE PruneCacheRemove(c)
  <2>1. CacheTyped'
    BY <1>20, <1>f DEF PruneCacheRemove, CacheTyped, Files
  <2> QED BY <1>20, <1>k, <1>r, <2>1 DEF ServiceShape, PruneCacheRemove, Unlock
<1> QED BY <1>0, <1>1, <1>2, <1>3, <1>4, <1>5, <1>6, <1>7, <1>8, <1>9, <1>10, <1>11, <1>12, <1>13,
           <1>14, <1>15, <1>16, <1>17, <1>18, <1>19, <1>20

-----------------------------------------------------------------------------
(* The engine                                                               *)

OpMuTyped == opMu \in {"free", "engine"} \cup Sweepers
QueueOK == \A i \in Left : JobOK(engine.queue[i])
EngineShape == EngineTypeOK /\ EngineOK /\ QueueOK

EnginePCs == {"idle", "loop"} \cup ExecutePCs \cup OutcomePCs

\* The goroutine goes to another line with the same jobs left.
MovedOn(pc) ==
    engine'.pc = pc /\ engine'.queue = engine.queue /\ engine'.deferred = engine.deferred

LEMMA GotoShape ==
    ASSUME EngineShape, NEW pc \in EnginePCs, NEW bytes \in Files, NEW file \in Paths \cup {None},
           engine' = [engine EXCEPT !.pc = pc, !.bytes = bytes, !.file = file],
           pc \notin {"idle", "loop"} => Left # {},
           pc = "mark" => Current.kind # "rename",
           pc = "open" => Current.kind = "upload",
           pc = "unlink" => file # None
    PROVE  EngineShape' /\ MovedOn(pc)
<1>1. engine'.pc = pc /\ engine'.queue = engine.queue /\ engine'.file = file /\ IsQueue(engine.queue)
      /\ engine'.deferred = engine.deferred
  BY DEF EngineShape, EngineTypeOK
<1>2. Left' = Left /\ CurrentId' = CurrentId /\ Current' = Current
  BY <1>1 DEF Left, CurrentId, Current
<1>3. EngineTypeOK'
  BY <1>1 DEF EngineShape, EngineTypeOK, EnginePCs
<1>4. EngineOK'
  BY <1>1, <1>2 DEF EngineShape, EngineOK
<1>5. QueueOK'
  BY <1>1, <1>2 DEF EngineShape, QueueOK
<1> QED BY <1>1, <1>3, <1>4, <1>5 DEF EngineShape, MovedOn

\* Goto and Leave are such moves.
LEMMA MovesShape ==
    ASSUME EngineShape, NEW pc \in EnginePCs,
           Goto(pc) \/ Leave(pc),
           pc \notin {"idle", "loop"} => Left # {},
           pc = "mark" => Current.kind # "rename",
           pc = "open" => Current.kind = "upload",
           pc # "unlink"
    PROVE  EngineShape' /\ MovedOn(pc)
<1>1. engine.bytes \in Files /\ engine.file \in Paths \cup {None} /\ None \in Files
  BY DEF EngineShape, EngineTypeOK, Files
<1>2. CASE Goto(pc)
  <2>1. engine' = [engine EXCEPT !.pc = pc, !.bytes = engine.bytes, !.file = engine.file]
    BY <1>2 DEF Goto, EngineShape, EngineTypeOK
  <2> QED BY <1>1, <2>1, GotoShape
<1>3. CASE Leave(pc)
  BY <1>1, <1>3, GotoShape DEF Leave
<1> QED BY <1>2, <1>3

\* The pass goes on without the job at hand.
LEMMA NextJobShape ==
    ASSUME EngineShape, NEW deferred \in SUBSET Paths, NextJob(deferred)
    PROVE  EngineShape' /\ engine'.pc = "loop" /\ Left' = Left \ {CurrentId}
           /\ engine'.queue = Restrict(engine.queue, Left \ {CurrentId})
           /\ engine'.deferred = deferred
           /\ \A i \in Left' : engine'.queue[i] = engine.queue[i]
<1> DEFINE q == Restrict(engine.queue, Left \ {CurrentId})
<1>1. IsQueue(engine.queue) /\ engine' = [engine EXCEPT !.pc = "loop", !.queue = q, !.deferred = deferred]
  BY DEF EngineShape, EngineTypeOK, NextJob
<1>2. DOMAIN q = Left \ {CurrentId} /\ \A i \in Left \ {CurrentId} : q[i] = engine.queue[i]
  BY DEF Restrict
<1>3. IsQueue(q)
  BY <1>1, <1>2 DEF IsQueue, Left, Restrict
<1> HIDE DEF q
<1>4. engine'.pc = "loop" /\ engine'.queue = q /\ engine'.deferred = deferred
  BY <1>1 DEF EngineShape, EngineTypeOK
<1>5. EngineTypeOK'
  BY <1>1, <1>3, <1>4 DEF EngineShape, EngineTypeOK
<1>6. Left' = Left \ {CurrentId}
  BY <1>2, <1>4 DEF Left
<1>7. EngineOK'
  BY <1>4 DEF EngineOK
<1>8. QueueOK'
  BY <1>2, <1>4, <1>6 DEF QueueOK, EngineShape
<1> QED BY <1>2, <1>4, <1>5, <1>6, <1>7, <1>8 DEF EngineShape, q

LEMMA IdleEngineShape ==
    ASSUME engine' = EngineIdle
    PROVE  EngineShape' /\ engine'.pc = "idle" /\ Left' = {}
<1>1. engine'.pc = "idle" /\ engine'.queue = <<>> /\ EngineTypeOK'
  BY DEF EngineTypeOK, EngineIdle, Files, IsQueue
<1>2. Left' = {}
  BY <1>1 DEF Left
<1> QED BY <1>1, <1>2 DEF EngineShape, EngineOK, QueueOK

\* The job at hand.
LEMMA CurrentFacts ==
    ASSUME EngineShape, Left # {}
    PROVE  /\ CurrentId \in Left /\ CurrentId \in Nat \ {0}
           /\ Current \in Job /\ JobOK(Current) /\ Current.path \in Paths
           /\ Current.kind \in JobKinds /\ Current.attempts \in Nat
           /\ TouchedPaths(Current) \in SUBSET Paths
           /\ \A k \in Left : CurrentId <= k
<1>1. IsQueue(engine.queue)
  BY DEF EngineShape, EngineTypeOK
<1>2. CurrentId \in Left /\ CurrentId \in Nat \ {0} /\ Current \in Job /\ \A k \in Left : CurrentId <= k
  BY <1>1, CurrentIsFirst
<1>3. JobOK(Current)
  BY <1>2 DEF EngineShape, QueueOK, Current
<1> QED BY <1>2, <1>3 DEF Job, TouchedPaths

LEMMA FailedStateTyped ==
    ASSUME NEW kind \in JobKinds, NEW terminal \in BOOLEAN
    PROVE  /\ FailedEntrySyncState(kind, terminal) \in SyncStates
           /\ terminal => FailedEntrySyncState(kind, terminal) = "error"
           /\ ~terminal => FailedEntrySyncState(kind, terminal) = PendingSync(kind)
BY DEF FailedEntrySyncState, PendingSync, SyncStates, JobKinds

\* The batches of an outcome, and what they do to the queue.
JobUpdate(b, id, s, n) == [b.jobs EXCEPT ![id] = [@ EXCEPT !.state = s, !.attempts = n]]

\* Store c is b with job id's new state, and its entry's if that still is job j's.
OutcomeOf(b, c, j, id, s, n, sync) ==
    /\ GoodStore(c)
    /\ id \in JobIds(b) => c.jobs = JobUpdate(b, id, s, n)
    /\ id \notin JobIds(b) => c.jobs = b.jobs
    /\ \/ StillOf(b, j, sync) /\ c.entries = [b.entries EXCEPT ![j.path].sync = sync]
          /\ c.written = b.written \cup {j.path}
       \/ ~StillOf(b, j, sync) /\ c.entries = b.entries /\ c.written = b.written
    /\ c.nextJob = b.nextJob

LEMMA OutcomeGood ==
    ASSUME NEW b, GoodStore(b), NEW j \in Job, NEW id, NEW s \in JobStates, NEW n \in Nat,
           NEW sync \in SyncStates, NEW c, c = SetFailedEntrySync(UpdateJob(b, id, s, n), j, sync)
    PROVE  OutcomeOf(b, c, j, id, s, n, sync)
<1> DEFINE u == UpdateJob(b, id, s, n)
<1>1. /\ GoodStore(u) /\ u.entries = b.entries /\ u.nextJob = b.nextJob /\ u.written = b.written
      /\ id \in JobIds(b) => u.jobs = JobUpdate(b, id, s, n)
      /\ id \notin JobIds(b) => u.jobs = b.jobs
  <2>1. CASE id \in JobIds(b)
    <3>1. GoodStore(u)
      BY <2>1, UpdatedJobOK
    <3>2. Holds(u, b.entries, [b.jobs EXCEPT ![id] = [@ EXCEPT !.state = s, !.attempts = n]],
                b.nextJob, b.written)
      BY <2>1, UpdateJobHolds DEF GoodStore
    <3> HIDE DEF u
    <3> QED BY <2>1, <3>1, <3>2 DEF Holds, JobUpdate
  <2>2. CASE id \notin JobIds(b)
    BY <2>2 DEF UpdateJob
  <2> QED BY <2>1, <2>2
<1>2. c = SetFailedEntrySync(u, j, sync)
  OBVIOUS
<1> HIDE DEF u
<1>3. StillOf(u, j, sync) <=> StillOf(b, j, sync)
  BY <1>1 DEF StillOf, UploadJobMatches, HasEntry
<1>4. \/ StillOf(u, j, sync) /\ Marked(u, c, j.path, sync)
      \/ ~StillOf(u, j, sync) /\ c = u
  BY <1>1, <1>2, SetFailedEntrySyncHolds DEF GoodStore
<1>5. GoodStore(c) /\ c.jobs = u.jobs
  BY <1>1, <1>4, MarkedGood
<1> QED BY <1>1, <1>3, <1>4, <1>5 DEF Marked, Holds, OutcomeOf

SyncShape == StoreShape /\ CacheTyped /\ MachineTyped /\ OpMuTyped /\ EngineShape

LEMMA SetSyncGood ==
    ASSUME GoodStore(store), Left # {}, EngineShape
    PROVE  /\ GoodStore(SetEntrySyncIf(store, Current.path, "deleting", DeletePending))
           /\ SetEntrySyncIf(store, Current.path, "deleting", DeletePending).jobs = store.jobs
           /\ GoodStore(SetUploadJobSync(store, Current, "uploading"))
           /\ SetUploadJobSync(store, Current, "uploading").jobs = store.jobs
<1>1. Current \in Job /\ Current.path \in Paths /\ IsStore(store)
  BY CurrentFacts DEF GoodStore
<1>2. "deleting" \in SyncStates /\ "uploading" \in SyncStates /\ "absent" \notin DeletePending
  BY DEF SyncStates, DeletePending
<1> DEFINE b == SetEntrySyncIf(store, Current.path, "deleting", DeletePending)
           c == SetUploadJobSync(store, Current, "uploading")
<1>3. Marked(store, b, Current.path, "deleting") \/ b = store
  BY <1>1, <1>2, SetEntrySyncIfHolds
<1>4. Marked(store, c, Current.path, "uploading") \/ c = store
  BY <1>1, <1>2, SetUploadJobSyncHolds
<1> HIDE DEF b, c
<1>5. GoodStore(b) /\ b.jobs = store.jobs /\ GoodStore(c) /\ c.jobs = store.jobs
  BY <1>3, <1>4, MarkedGood
<1> QED BY <1>5 DEF b, c

\* c has b's queue.
SameQueue(b, c) == IsStore(c) /\ c.jobs = b.jobs /\ c.nextJob = b.nextJob

LEMMA HoldsSameQueue ==
    ASSUME NEW b, IsStore(b), NEW c
    PROVE  /\ \A entries, ps : Holds(c, entries, b.jobs, b.nextJob, ps) => SameQueue(b, c)
           /\ c = b => SameQueue(b, c)
BY DEF SameQueue, Holds

LEMMA SettledGood ==
    ASSUME NEW b, GoodStore(b), NEW j \in Job, JobOK(j)
    PROVE  GoodStore(Settled(b, j)) /\ Settled(b, j).jobs = b.jobs /\ Settled(b, j).nextJob = b.nextJob
<1> DEFINE c == Settled(b, j)
<1>1. IsStore(c) /\ c.jobs = b.jobs /\ c.nextJob = b.nextJob
  <2> HIDE DEF c
  <2>1. c = Settled(b, j)
    BY DEF c
  <2>2. IsStore(b)
    BY DEF GoodStore
  <2>3. SettledAs(b, j, c)
    BY <2>1, <2>2, SettledHolds
  <2>4. SameQueue(b, c)
    BY <2>2, <2>3, HoldsSameQueue DEF SettledAs, Marked
  <2> QED BY <2>4 DEF SameQueue
<1> HIDE DEF c
<1>2. GoodStore(c)
  BY <1>1 DEF GoodStore, JobIds
<1> QED BY <1>1, <1>2 DEF c

LEMMA EffectTyped ==
    ASSUME MachineTyped, EngineShape, Left # {}
    PROVE  Effect(Current) \in [Paths -> Files]
<1>1. Current \in Job /\ JobOK(Current)
  BY CurrentFacts
<1>2. engine.bytes \in Files
  BY DEF EngineShape, EngineTypeOK
<1> QED BY <1>1, <1>2 DEF Effect, MachineTyped, Job, JobOK, JobKinds, Files

LEMMA EngineKeepsShape ==
    ASSUME SyncShape, EngineNext
    PROVE  SyncShape'
<1>f. /\ StoreShape /\ CacheTyped /\ MachineTyped /\ OpMuTyped /\ EngineShape
      /\ GoodStore(store) /\ IsStore(store)
  BY DEF SyncShape, StoreShape, GoodStore
<1>k. /\ UNCHANGED <<store, fresh>> => StoreShape'
      /\ UNCHANGED cache => CacheTyped'
      /\ UNCHANGED machine => MachineTyped'
      /\ UNCHANGED opMu => OpMuTyped'
      /\ opMu' \in {"free", "engine"} => OpMuTyped'
  BY <1>f DEF StoreShape, GoodStore, CacheTyped, MachineTyped, OpMuTyped
<1>d. engine.deferred \in SUBSET Paths /\ (Left # {} => DeferJobPaths \in SUBSET Paths)
  BY <1>f, CurrentFacts DEF EngineShape, EngineTypeOK, DeferJobPaths
<1>l. engine.pc \notin {"idle", "loop"} => Left # {}
  BY <1>f DEF EngineShape, EngineOK
<1> DEFINE Kept == UNCHANGED shared
<1>s. Kept /\ EngineShape' => SyncShape'
  BY <1>k DEF SyncShape, shared
<1>1. CASE DrainStart
  <2> DEFINE q == QueuedJobs(store)
  <2>1. engine'.pc = "loop" /\ engine'.queue = q /\ engine'.deferred = {}
        /\ engine'.bytes = None /\ engine'.file = None
        /\ engine' = [pc |-> "loop", queue |-> q, deferred |-> {}, bytes |-> None, file |-> None]
    BY <1>1 DEF DrainStart, EngineIdle
  <2>2. IsQueue(q) /\ \A i \in DOMAIN q : JobOK(q[i])
    BY <1>f DEF QueuedJobs, IsQueue, IsStore, GoodStore, Restrict, JobIds
  <2> HIDE DEF q
  <2>3. EngineTypeOK'
    BY <2>1, <2>2 DEF EngineTypeOK, Files
  <2>4. EngineOK' /\ QueueOK'
    BY <2>1, <2>2 DEF EngineOK, QueueOK, Left
  <2> QED BY <1>1, <1>s, <2>3, <2>4 DEF DrainStart, EngineShape
<1>2. CASE DrainEnd \/ SessionBlocked
  BY <1>2, <1>s, IdleEngineShape DEF DrainEnd, SessionBlocked
<1>3. CASE SkipDeferred \/ NoLongerQueued
  BY <1>3, <1>f, <1>d, <1>s, NextJobShape DEF SkipDeferred, NoLongerQueued
<1>4. CASE BackOff
  BY <1>4, <1>f, <1>d, <1>s, NextJobShape DEF BackOff, MayAttempt
<1>5. CASE Unreachable
  BY <1>5, <1>f, <1>s, MovesShape DEF Unreachable, MayAttempt, EnginePCs, OutcomePCs
<1>6. CASE RecordRunning
  <2>1. GoodStore(StartJob(store, CurrentId))
    <3>1. CurrentId \in JobIds(store) /\ store.jobs[CurrentId].attempts \in Nat
      BY <1>6, <1>f DEF RecordRunning, CanStart, IsStore, IsQueue, JobIds, Job
    <3> QED BY <1>f, <3>1, UpdatedJobOK DEF StartJob, JobStates
  <2>2. StoreStep(StartJob(store, CurrentId)) /\ UNCHANGED <<cache, machine>>
        /\ (opMu' = "engine" \/ UNCHANGED opMu) /\ Left # {}
    BY <1>6 DEF RecordRunning, StoreStep, MayAttempt
  <2>3. StoreShape'
    BY <1>f, <2>1, <2>2, StoreStepShape
  <2>4. \E pc \in EnginePCs : Goto(pc) /\ pc \notin {"open", "unlink"}
                              /\ (pc = "mark" => Current.kind # "rename")
    BY <1>6 DEF EnginePCs, ExecutePCs, OutcomePCs, RecordRunning
  <2>5. EngineShape'
    BY <1>f, <2>2, <2>4, MovesShape
  <2> QED BY <1>k, <2>2, <2>3, <2>5 DEF SyncShape
<1>7. CASE MarkDeleting
  <2> DEFINE b == SetEntrySyncIf(store, Current.path, "deleting", DeletePending)
  <2>1. StoreStep(b) /\ UNCHANGED <<cache, machine>> /\ (opMu' = "free" \/ UNCHANGED opMu)
        /\ Left # {}
    BY <1>7, <1>l DEF MarkDeleting, StoreStep, Leave
  <2>2. StoreShape'
    BY <1>f, <2>1, SetSyncGood, StoreStepShape
  <2>3. EngineShape'
    BY <1>7, <1>f, <2>1, MovesShape DEF MarkDeleting, EnginePCs, ExecutePCs, OutcomePCs
  <2> QED BY <1>k, <2>1, <2>2, <2>3 DEF SyncShape
<1>8. CASE MarkUploading
  <2> DEFINE b == SetUploadJobSync(store, Current, "uploading")
  <2>1. StoreStep(b) /\ UNCHANGED <<cache, machine>> /\ (opMu' = "free" \/ UNCHANGED opMu)
        /\ Left # {} /\ Current.kind = "upload"
    BY <1>8, <1>l DEF MarkUploading, StoreStep, Leave
  <2>2. StoreShape'
    BY <1>f, <2>1, SetSyncGood, StoreStepShape
  <2>3. EngineShape'
    BY <1>8, <1>f, <2>1, MovesShape DEF MarkUploading, EnginePCs, ExecutePCs, OutcomePCs
  <2> QED BY <1>k, <2>1, <2>2, <2>3 DEF SyncShape
<1>9. CASE OpenCacheFile
  <2>1. Left # {} /\ Current.kind = "upload" /\ UNCHANGED <<store, fresh, cache, machine>>
        /\ (opMu' = "free" \/ UNCHANGED opMu)
    BY <1>9, <1>f, <1>l DEF OpenCacheFile, EngineShape, EngineOK, Leave
  <2> DEFINE bytes == cache[Current.cachePath]
  <2>2. bytes \in Files
    BY <1>f, <2>1, CurrentFacts DEF CacheTyped, Job, JobOK
  <2> HIDE DEF bytes
  <2>3. EngineShape'
    <3>1. CASE engine' = [engine EXCEPT !.pc = "call", !.bytes = bytes]
      <4>1. engine' = [engine EXCEPT !.pc = "call", !.bytes = bytes, !.file = engine.file]
            /\ engine.file \in Paths \cup {None}
        BY <1>f, <3>1 DEF EngineShape, EngineTypeOK
      <4>2. "call" \in EnginePCs
        BY DEF EnginePCs, ExecutePCs
      <4> QED BY <1>f, <2>1, <2>2, <4>1, <4>2, GotoShape
    <3>2. CASE Leave("fail")
      BY <1>f, <2>1, <3>2, MovesShape DEF EnginePCs, OutcomePCs
    <3> QED BY <1>9, <3>1, <3>2 DEF OpenCacheFile, bytes
  <2> QED BY <1>k, <2>1, <2>3 DEF SyncShape
<1>10. CASE MachineCall
  <2>1. Left # {} /\ UNCHANGED <<store, fresh, cache>> /\ (opMu' = "free" \/ UNCHANGED opMu)
        /\ (machine' = Effect(Current) \/ UNCHANGED machine)
    BY <1>10, <1>l DEF MachineCall, Leave
  <2>2. MachineTyped'
    BY <1>f, <1>k, <2>1, EffectTyped DEF MachineTyped
  <2>3. EngineShape'
    BY <1>10, <1>f, <2>1, MovesShape DEF MachineCall, EnginePCs, ExecutePCs, OutcomePCs
  <2> QED BY <1>k, <2>1, <2>2, <2>3 DEF SyncShape
<1>11. CASE Settle
  <2> DEFINE b == Settled(store, Current)
  <2>1. StoreStep(b) /\ UNCHANGED <<cache, machine>> /\ (opMu' = "free" \/ UNCHANGED opMu)
        /\ Left # {}
    BY <1>11, <1>l DEF Settle, StoreStep, Leave, CompletedUnrecorded
  <2>2. StoreShape'
    BY <1>f, <2>1, CurrentFacts, SettledGood, StoreStepShape
  <2>3. EngineShape'
    <3>1. CASE CacheFileOfDeleted # None
               /\ engine' = [engine EXCEPT !.pc = "unlink", !.file = CacheFileOfDeleted]
      <4>1. engine' = [engine EXCEPT !.pc = "unlink", !.bytes = engine.bytes, !.file = CacheFileOfDeleted]
            /\ engine.bytes \in Files
        BY <1>f, <3>1 DEF EngineShape, EngineTypeOK
      <4>2. CacheFileOfDeleted \in Paths \cup {None}
        BY <1>f, <2>1, CurrentFacts DEF CacheFileOfDeleted, IsStore, Entry
      <4>3. "unlink" \in EnginePCs
        BY DEF EnginePCs, ExecutePCs
      <4>4. CacheFileOfDeleted # None /\ EngineShape /\ Left # {}
        BY <1>f, <2>1, <3>1
      <4> QED BY <4>1, <4>2, <4>3, <4>4, GotoShape
    <3>2. CASE Leave("done") \/ Leave("complete")
      BY <1>f, <2>1, <3>2, MovesShape DEF EnginePCs, OutcomePCs
    <3> QED BY <1>11, <3>1, <3>2 DEF Settle, CompletedUnrecorded
  <2> QED BY <1>k, <2>1, <2>2, <2>3 DEF SyncShape
<1>12. CASE UnlinkDeleted
  <2>1. Left # {} /\ UNCHANGED <<store, fresh, machine>> /\ opMu' = "free" /\ Leave("done")
        /\ cache' = [cache EXCEPT ![engine.file] = None]
    BY <1>12, <1>l DEF UnlinkDeleted, Leave
  <2>2. CacheTyped'
    BY <1>f, <2>1 DEF CacheTyped, Files
  <2>3. EngineShape'
    BY <1>f, <2>1, MovesShape DEF EnginePCs, OutcomePCs
  <2> QED BY <1>k, <2>1, <2>2, <2>3 DEF SyncShape
<1>13. CASE RecordSuccess
  <2> DEFINE n == store.jobs[CurrentId].attempts + 1
             b == UpdateJob(store, CurrentId, "done", n)
  <2>1. StoreStep(b) /\ UNCHANGED <<cache, machine, opMu>> /\ Left # {}
    BY <1>13, <1>l DEF RecordSuccess, StoreStep
  <2>2. GoodStore(b)
    <3>1. CASE CurrentId \in JobIds(store)
      <4>1. n \in Nat
        BY <1>f, <3>1 DEF IsStore, IsQueue, JobIds, Job
      <4> HIDE DEF n
      <4> QED BY <1>f, <3>1, <4>1, UpdatedJobOK DEF JobStates
    <3>2. CASE CurrentId \notin JobIds(store)
      BY <1>f, <3>2 DEF UpdateJob
    <3> QED BY <3>1, <3>2
  <2> HIDE DEF b
  <2>3. StoreShape'
    BY <1>f, <2>1, <2>2, StoreStepShape
  <2>4. EngineShape'
    <3>1. NextJob(engine.deferred) \/ Goto("complete")
      BY <1>13 DEF RecordSuccess
    <3> QED BY <1>f, <1>d, <2>1, <3>1, NextJobShape, MovesShape DEF EnginePCs, OutcomePCs
  <2> QED BY <1>k, <2>1, <2>3, <2>4 DEF SyncShape
<1>14. CASE RecordFailure
  <2> DEFINE terminal == Current.attempts + 1 >= MaxAttempts
             s == IF terminal THEN "failed" ELSE "queued"
             b == SetFailedEntrySync(FailJob(store, terminal), Current,
                                     FailedEntrySyncState(Current.kind, terminal))
  <2>1. StoreStep(b) /\ UNCHANGED <<cache, machine, opMu>> /\ Left # {} /\ NextJob(DeferJobPaths)
    BY <1>14, <1>l DEF RecordFailure, StoreStep
  <2>2. GoodStore(b)
    <3>1. s \in JobStates /\ Current.attempts + 1 \in Nat /\ Current \in Job
          /\ FailedEntrySyncState(Current.kind, terminal) \in SyncStates
      <4>1. terminal \in BOOLEAN /\ Current.kind \in JobKinds /\ Current \in Job
            /\ Current.attempts + 1 \in Nat
        BY <1>f, <2>1, CurrentFacts
      <4> HIDE DEF terminal
      <4> QED BY <4>1, FailedStateTyped DEF JobStates
    <3>2. b = SetFailedEntrySync(UpdateJob(store, CurrentId, s, Current.attempts + 1), Current,
                                 FailedEntrySyncState(Current.kind, terminal))
      BY DEF FailJob
    <3> HIDE DEF terminal, s, b
    <3> QED BY <1>f, <3>1, <3>2, OutcomeGood DEF OutcomeOf
  <2> HIDE DEF b
  <2>3. StoreShape'
    BY <1>f, <2>1, <2>2, StoreStepShape
  <2>4. EngineShape'
    BY <1>f, <1>d, <2>1, NextJobShape
  <2> QED BY <1>k, <2>1, <2>3, <2>4 DEF SyncShape
<1>15. CASE RecordMachineCompletedFailure
  <2> DEFINE b == FailCompletedJob(store)
             n == store.jobs[CurrentId].attempts + 1
  <2>1. StoreStep(b) /\ UNCHANGED <<cache, machine, opMu>> /\ Left # {} /\ NextJob(DeferJobPaths)
    BY <1>15, <1>l DEF RecordMachineCompletedFailure, StoreStep
  <2>2. GoodStore(b)
    <3>1. Current \in Job /\ "error" \in SyncStates /\ "failed" \in JobStates
      BY <1>f, <2>1, CurrentFacts DEF SyncStates, JobStates
    <3>2. b = SetFailedEntrySync(UpdateJob(store, CurrentId, "failed", n), Current, "error")
      BY DEF FailCompletedJob
    <3>3. CASE CurrentId \in JobIds(store)
      <4>1. n \in Nat
        BY <1>f, <3>3 DEF IsStore, IsQueue, JobIds, Job
      <4> HIDE DEF n, b
      <4> QED BY <1>f, <3>1, <3>2, <4>1, OutcomeGood DEF OutcomeOf
    <3>4. CASE CurrentId \notin JobIds(store)
      <4>1. b = SetFailedEntrySync(UpdateJob(store, CurrentId, "failed", 0), Current, "error")
        BY <3>4, <3>2 DEF UpdateJob
      <4> HIDE DEF n, b
      <4> QED BY <1>f, <3>1, <4>1, OutcomeGood DEF OutcomeOf
    <3> QED BY <3>3, <3>4
  <2> HIDE DEF b
  <2>3. StoreShape'
    BY <1>f, <2>1, <2>2, StoreStepShape
  <2>4. EngineShape'
    BY <1>f, <1>d, <2>1, NextJobShape
  <2> QED BY <1>k, <2>1, <2>3, <2>4 DEF SyncShape
<1> QED BY <1>1, <1>2, <1>3, <1>4, <1>5, <1>6, <1>7, <1>8, <1>9, <1>10, <1>11, <1>12, <1>13, <1>14,
           <1>15 DEF EngineNext

-----------------------------------------------------------------------------
(* The sweeps.  What a sweep still holds fresh is what the store says.      *)

FreshInv ==
    \A s \in Sweepers :
        /\ \A p \in fresh[s] : store.entries[p] = sweeper[s].known[p]
        /\ sweeper[s].pc \notin {"check", "apply"} => fresh[s] = {}

SweepRecords ==
    [pc : {"idle", "list", "check", "read", "apply"},
     kind : {"none", "metadata", "deep", "startup"},
     remote : [Paths -> Files], known : [Paths -> Entry], todo : SUBSET Paths]

SweepShape == SweeperTypeOK /\ SweepsOK

RemoteEntry(v, md5) ==
    [sync |-> "remote_only", md5 |-> md5, size |-> SizeOf[v], cachePath |-> None,
     cacheState |-> "none"]

ReadyEntry(e, v, md5) ==
    [e EXCEPT !.size = SizeOf[v], !.cacheState = "ready", !.md5 = IF md5 = None THEN @ ELSE md5]

\* The three changes a sweep makes.
Wrote(b, c, p, e) == Holds(c, [b.entries EXCEPT ![p] = e], b.jobs, b.nextJob, b.written \cup {p})

LEMMA SweepBatchesHold ==
    ASSUME NEW b, IsStore(b), NEW p \in Paths, NEW v \in Contents, NEW md5 \in Files
    PROVE  /\ RemoteEntry(v, md5) \in Entry
           /\ ReadyEntry(b.entries[p], v, md5) \in Entry
           /\ Wrote(b, MarkRemoteOnly(b, p, v, md5), p, RemoteEntry(v, md5))
           /\ Wrote(b, MarkCacheReady(b, p, v, md5), p,
                    NormalizeNewEntry(ReadyEntry(b.entries[p], v, md5)))
           /\ Wrote(b, DeleteEntry(b, p), p, NoEntry)
<1>1. RemoteEntry(v, md5) \in Entry /\ NormalizeNewEntry(RemoteEntry(v, md5)) = RemoteEntry(v, md5)
  BY StoreAssumption DEF RemoteEntry, Entry, SyncStates, CacheStates, Files, NormalizeNewEntry
<1>2. b.entries[p] \in Entry
  BY DEF IsStore
<1>3. ReadyEntry(b.entries[p], v, md5) \in Entry
  BY <1>2, StoreAssumption DEF ReadyEntry, Entry, CacheStates, Files
<1>4. Wrote(b, MarkRemoteOnly(b, p, v, md5), p, RemoteEntry(v, md5))
  BY <1>1, PutEntryHolds DEF MarkRemoteOnly, RemoteEntry, Wrote
<1>5. Wrote(b, MarkCacheReady(b, p, v, md5), p, NormalizeNewEntry(ReadyEntry(b.entries[p], v, md5)))
  BY <1>3, PutEntryHolds DEF MarkCacheReady, ReadyEntry, Wrote
<1>6. Wrote(b, DeleteEntry(b, p), p, NoEntry)
  BY DeleteEntryHolds DEF Wrote
<1> QED BY <1>1, <1>3, <1>4, <1>5, <1>6

\* What sweep s may do to the entry of p: nothing; discover a file; drop or
\* demote a settled entry; or release a synced copy that the machine confirmed.
Swept(s, p, e, f) ==
    \/ e.sync = "absent" /\ \E v \in Contents, md5 \in Files : f = RemoteEntry(v, md5)
    \/ /\ IsSettled(e.sync)
       /\ f = NoEntry \/ \E v \in Contents, md5 \in Files : f = RemoteEntry(v, md5)
    \/ /\ e.sync = "synced"
       /\ \E v \in Contents, md5 \in Files :
              /\ f = NormalizeNewEntry(ReadyEntry(e, v, md5))
              /\ md5 # None => e.md5 \in {None, md5} /\ md5 \in {sweeper[s].remote[p], machine[p]}
              /\ MetadataMD5 => md5 # None

SweepEffect(s, p) ==
    \/ UNCHANGED <<store, fresh>>
    \/ /\ store' = [store EXCEPT !.entries[p] = store'.entries[p]]
       /\ fresh' = [r \in Readers |-> fresh[r] \ {p}]
       /\ store'.entries[p] \in Entry
       /\ Swept(s, p, store.entries[p], store'.entries[p])

LEMMA SweepBatchEffect ==
    ASSUME IsStore(store), store.written = {}, NEW s, NEW p \in Paths, NEW b, NEW e \in Entry,
           Wrote(store, b, p, e), Swept(s, p, store.entries[p], e), SweepBatch(b)
    PROVE  SweepEffect(s, p)
<1>1. CASE BatchFails(b)
  BY <1>1 DEF BatchFails, SweepEffect
<1>2. CASE Batch(b)
  <2>1. /\ IsStore(b) /\ b.entries = [store.entries EXCEPT ![p] = e] /\ b.jobs = store.jobs
        /\ b.nextJob = store.nextJob /\ b.written = {p}
    BY DEF Wrote, Holds
  <2>2. /\ IsStore(store') /\ store'.written = {}
        /\ store'.entries = [store.entries EXCEPT ![p] = e] /\ store'.jobs = store.jobs
        /\ store'.nextJob = store.nextJob
        /\ fresh' = [r \in Readers |-> fresh[r] \ {p}]
    BY <1>2, <2>1, BatchEffect
  <2>3. store'.entries[p] = e
    BY <2>2 DEF IsStore
  <2>4. store' = [store EXCEPT !.entries[p] = store'.entries[p]]
    BY <2>2, <2>3 DEF IsStore
  <2> QED BY <2>2, <2>3, <2>4 DEF SweepEffect
<1> QED BY <1>1, <1>2 DEF SweepBatch

LEMMA SweepStepEffect ==
    ASSUME StoreShape, MachineTyped, SweepShape, FreshInv, NEW s \in Sweepers, NEW p \in Paths,
           DeepCheck(s, p) \/ Apply(s, p)
    PROVE  SweepEffect(s, p)
<1>1. IsStore(store) /\ store.written = {} /\ store.entries[p] \in Entry
  BY DEF StoreShape, GoodStore, IsStore
<1>2. /\ sweeper[s].remote[p] \in Files /\ sweeper[s].known[p] \in Entry /\ machine[p] \in Files
      /\ None \in Files /\ None \notin Contents
  BY StoreAssumption DEF SweepShape, SweeperTypeOK, MachineTyped, Files
<1>3. p \in fresh[s] => store.entries[p] = sweeper[s].known[p]
  BY DEF FreshInv
<1> DEFINE v == sweeper[s].remote[p]
           e == store.entries[p]
<1>4. ASSUME NEW md5 \in Files, v # None, e.sync = "absent" \/ IsSettled(e.sync),
             SweepBatch(MarkRemoteOnly(store, p, v, md5))
      PROVE  SweepEffect(s, p)
  <2>1. v \in Contents
    BY <1>2, <1>4 DEF Files
  <2>2. RemoteEntry(v, md5) \in Entry /\ Wrote(store, MarkRemoteOnly(store, p, v, md5), p, RemoteEntry(v, md5))
    BY <1>1, <2>1, SweepBatchesHold
  <2>3. Swept(s, p, e, RemoteEntry(v, md5))
    BY <1>4, <2>1 DEF Swept
  <2> QED BY <1>1, <1>4, <2>2, <2>3, SweepBatchEffect
<1>5. ASSUME NEW md5 \in Files, v # None, e.sync = "synced",
             md5 # None => e.md5 \in {None, md5} /\ md5 \in {sweeper[s].remote[p], machine[p]},
             MetadataMD5 => md5 # None,
             SweepBatch(MarkCacheReady(store, p, v, md5))
      PROVE  SweepEffect(s, p)
  <2>1. v \in Contents
    BY <1>2, <1>5 DEF Files
  <2> DEFINE x == NormalizeNewEntry(ReadyEntry(e, v, md5))
  <2>2. ReadyEntry(e, v, md5) \in Entry /\ Wrote(store, MarkCacheReady(store, p, v, md5), p, x)
    BY <1>1, <2>1, SweepBatchesHold
  <2>3. x \in Entry
    BY <2>2 DEF NormalizeNewEntry, Entry, CacheStates
  <2>4. Swept(s, p, e, x)
    BY <1>5, <2>1 DEF Swept
  <2> HIDE DEF x
  <2> QED BY <1>1, <1>5, <2>2, <2>3, <2>4, SweepBatchEffect
<1>6. ASSUME IsSettled(e.sync), SweepBatch(DeleteEntry(store, p))
      PROVE  SweepEffect(s, p)
  <2>1. Wrote(store, DeleteEntry(store, p), p, NoEntry)
    BY <1>1, DeleteEntryHolds DEF Wrote
  <2>2. Swept(s, p, e, NoEntry)
    BY <1>6 DEF Swept
  <2>3. NoEntry \in Entry
    BY DEF NoEntry, Entry, CacheStates
  <2> QED BY <1>1, <1>6, <2>1, <2>2, <2>3, SweepBatchEffect
<1>7. ASSUME SweepBatch(store) PROVE SweepEffect(s, p)
  <2>1. CASE BatchFails(store)
    BY <2>1 DEF BatchFails
  <2>2. CASE Batch(store)
    BY <1>1, <2>2 DEF Batch, IsStore, StoreShape, SweepEffect
  <2> QED BY <1>7, <2>1, <2>2 DEF SweepBatch
<1>8. CASE DeepCheck(s, p)
  <2>1. CASE UNCHANGED <<store, fresh>>
    BY <2>1 DEF SweepEffect
  <2>2. CASE DeepCheckable(s, p) /\ (MetadataMD5 => machine[p] # None)
             /\ SweepBatch(DeepCheckBatch(store, s, p))
    <3> DEFINE md5 == IF MetadataMD5 THEN machine[p] ELSE None
    <3>1. md5 \in Files /\ v # None /\ sweeper[s].known[p].sync = "synced"
          /\ (MetadataMD5 => md5 # None) /\ (md5 # None => md5 = machine[p])
      BY <1>2, <2>2 DEF DeepCheckable
    <3>2. CASE ~Unchanged(s, p)
      BY <1>7, <2>2, <3>2 DEF DeepCheckBatch
    <3>3. CASE Unchanged(s, p)
      <4>1. e = sweeper[s].known[p]
        BY <1>3, <3>3 DEF Unchanged
      <4>2. CASE MD5Differs(e, md5)
        BY <1>4, <2>2, <3>1, <3>3, <4>1, <4>2 DEF DeepCheckBatch, IsSettled
      <4>3. CASE ~MD5Differs(e, md5)
        <5>1. md5 # None => e.md5 \in {None, md5}
          BY <4>3 DEF MD5Differs
        <5>2. SweepBatch(MarkCacheReady(store, p, v, md5))
          BY <2>2, <3>3, <4>1, <4>3 DEF DeepCheckBatch
        <5> HIDE DEF md5
        <5> QED BY <1>5, <3>1, <4>1, <5>1, <5>2
      <4> QED BY <4>2, <4>3
    <3> QED BY <3>2, <3>3
  <2> QED BY <1>8, <2>1, <2>2 DEF DeepCheck
<1>9. CASE Apply(s, p) /\ ReconcileEntry(s, p)
  <2>1. CASE UNCHANGED <<store, fresh>>
    BY <2>1 DEF SweepEffect
  <2>2. CASE v # None /\ SweepBatch(PutDiscoveredIfAbsent(store, p, v))
    <3>1. CASE HasEntry(store, p)
      BY <1>7, <2>2, <3>1 DEF PutDiscoveredIfAbsent
    <3>2. CASE ~HasEntry(store, p)
      BY <1>2, <1>4, <2>2, <3>2 DEF PutDiscoveredIfAbsent, HasEntry
    <3> QED BY <3>1, <3>2
  <2>3. CASE v # None /\ IsSettled(sweeper[s].known[p].sync) /\ Unchanged(s, p)
             /\ SweepBatch(MarkRemoteOnly(store, p, v, None))
    BY <1>2, <1>3, <1>4, <2>3 DEF Unchanged
  <2>4. CASE IsSettled(sweeper[s].known[p].sync) /\ Unchanged(s, p)
             /\ SweepBatch(DeleteEntry(store, p))
    BY <1>3, <1>6, <2>4 DEF Unchanged
  <2> QED BY <1>9, <2>1, <2>2, <2>3, <2>4 DEF ReconcileEntry
<1>10. CASE Apply(s, p) /\ ValidateEntry(s, p)
  <2> DEFINE md5 == IF MetadataMD5 THEN v ELSE None
  <2>1. CASE UNCHANGED <<store, fresh>>
    BY <2>1 DEF SweepEffect
  <2>2. CASE AwaitsValidation(e) /\ SweepBatch(DeleteEntry(store, p))
    BY <1>6, <2>2 DEF AwaitsValidation, IsSettled
  <2>3. CASE AwaitsValidation(e) /\ v # None /\ SweepBatch(MarkRemoteOnly(store, p, v, None))
    BY <1>2, <1>4, <2>3 DEF AwaitsValidation, IsSettled
  <2>4. CASE AwaitsValidation(e) /\ v # None /\ SweepBatch(MarkRemoteOnly(store, p, v, md5))
    BY <1>2, <1>4, <2>4 DEF AwaitsValidation, IsSettled
  <2>5. CASE AwaitsValidation(e) /\ v # None /\ ~MD5Differs(e, md5)
             /\ SweepBatch(MarkCacheReady(store, p, v, md5))
    <3>1. md5 \in Files /\ e.sync = "synced" /\ (MetadataMD5 => md5 # None)
          /\ (md5 # None => e.md5 \in {None, md5} /\ md5 = sweeper[s].remote[p])
      BY <1>2, <2>5 DEF AwaitsValidation, MD5Differs
    <3> HIDE DEF md5
    <3> QED BY <1>5, <2>5, <3>1
  <2> QED BY <1>10, <2>1, <2>2, <2>3, <2>4, <2>5 DEF ValidateEntry
<1> QED BY <1>8, <1>9, <1>10 DEF Apply

LEMMA NowShape ==
    ASSUME SweepShape, NEW s \in Sweepers, NEW rec \in SweepRecords, rec.pc = "idle" => rec.todo = {},
           Now(s, rec)
    PROVE  SweepShape' /\ \A r \in Sweepers : sweeper'[r] = IF r = s THEN rec ELSE sweeper[r]
<1>1. sweeper \in [Sweepers -> SweepRecords]
  BY DEF SweepShape, SweeperTypeOK, SweepRecords
<1>2. sweeper' = [sweeper EXCEPT ![s] = rec]
  BY DEF Now
<1> HIDE DEF SweepRecords
<1>3. sweeper' \in [Sweepers -> SweepRecords]
      /\ \A r \in Sweepers : sweeper'[r] = IF r = s THEN rec ELSE sweeper[r]
  BY <1>1, <1>2
<1>4. SweepsOK'
  BY <1>3 DEF SweepsOK, SweepShape
<1> QED BY <1>3, <1>4 DEF SweepShape, SweeperTypeOK, SweepRecords

\* The readers that are left with a path have seen its entry as it is.
Noticed ==
    \A s \in Sweepers :
        fresh'[s] \subseteq fresh[s] /\ \A p \in fresh'[s] : store'.entries[p] = store.entries[p]

LEMMA NoticedKeepsFresh ==
    ASSUME FreshInv, Noticed, UNCHANGED sweeper
    PROVE  FreshInv'
BY DEF FreshInv, Noticed

LEMMA IdleSweepOK == SweeperIdle \in SweepRecords
<1>1. NoEntry \in Entry /\ None \in Files
  BY DEF NoEntry, Entry, CacheStates, Files
<1> QED BY <1>1 DEF SweeperIdle, SweepRecords

LEMMA SweepKeepsShape ==
    ASSUME StoreShape, MachineTyped, OpMuTyped, SweepShape, FreshInv, ReconcilerNext
    PROVE  StoreShape' /\ OpMuTyped' /\ SweepShape' /\ FreshInv'
<1>0. PICK s \in Sweepers :
        \/ \E kind \in SweepKinds : List(s, kind)
        \/ \E p \in Paths : DeepCheck(s, p) \/ Apply(s, p)
        \/ DeepCheckEnd(s) \/ ReadCatalog(s) \/ ApplyEnd(s)
        \/ ValidateStart(s) \/ ValidateList(s)
  BY DEF ReconcilerNext
<1>f. /\ sweeper[s] \in SweepRecords /\ fresh \in [Readers -> SUBSET Paths] /\ s \in Readers
      /\ GoodStore(store) /\ store.entries \in [Paths -> Entry]
  BY DEF SweepShape, SweeperTypeOK, SweepRecords, StoreShape, Readers, GoodStore, IsStore
<1>k. /\ UNCHANGED <<store, fresh>> => StoreShape'
      /\ UNCHANGED opMu => OpMuTyped'
      /\ opMu' \in {"free", s} => OpMuTyped'
  BY DEF StoreShape, GoodStore, OpMuTyped
\* Sweep s looks again and keeps what it saw.
<1>l. ASSUME NEW ps \in SUBSET Paths, Look(s, ps), UNCHANGED store, NEW rec \in SweepRecords,
             rec.pc = "idle" => rec.todo = {}, Now(s, rec),
             \A p \in ps : store.entries[p] = rec.known[p],
             rec.pc \notin {"check", "apply"} => ps = {}
      PROVE  StoreShape' /\ SweepShape' /\ FreshInv'
  <2>1. StoreShape'
    BY <1>l, ForgetShape DEF Look
  <2>2. SweepShape' /\ \A r \in Sweepers : sweeper'[r] = IF r = s THEN rec ELSE sweeper[r]
    BY <1>l, NowShape
  <2>3. \A r \in Sweepers : fresh'[r] = IF r = s THEN ps ELSE fresh[r]
    BY <1>f, <1>l DEF Look, Readers
  <2>4. FreshInv'
    BY <1>l, <2>2, <2>3 DEF FreshInv
  <2> QED BY <2>1, <2>2, <2>4
\* Sweep s only moves on.
<1>m. ASSUME UNCHANGED <<store, fresh>>, NEW rec \in SweepRecords,
             rec.pc = "idle" => rec.todo = {}, Now(s, rec),
             fresh[s] = {}
      PROVE  StoreShape' /\ SweepShape' /\ FreshInv'
  BY <1>m, NowShape, <1>k DEF FreshInv
<1>1. ASSUME NEW kind \in SweepKinds, List(s, kind)
      PROVE  StoreShape' /\ OpMuTyped' /\ SweepShape' /\ FreshInv'
  <2>1. kind \in {"metadata", "deep"} /\ sweeper[s].pc = "idle" /\ UNCHANGED store
        /\ opMu' \in {"free", s} /\ Catalogued \in SUBSET Paths /\ machine \in [Paths -> Files]
    BY <1>1 DEF List, Catalogued, MachineTyped
  <2>2. CASE kind = "deep"
    <3> DEFINE rec == [SweeperIdle EXCEPT !.kind = kind, !.remote = machine, !.pc = "check",
                          !.known = store.entries, !.todo = Catalogued]
    <3>1. rec \in SweepRecords /\ rec.pc = "check" /\ rec.known = store.entries
      BY <1>f, <2>1, IdleSweepOK DEF SweepRecords
    <3>2. Now(s, rec) /\ Look(s, Catalogued)
      BY <1>1, <2>2 DEF List
    <3> HIDE DEF rec
    <3> QED BY <1>k, <1>l, <2>1, <3>1, <3>2
  <2>3. CASE kind = "metadata"
    <3> DEFINE rec == [SweeperIdle EXCEPT !.kind = kind, !.remote = machine, !.pc = "read"]
    <3>1. rec \in SweepRecords /\ rec.pc = "read"
      BY <2>1, IdleSweepOK DEF SweepRecords
    <3>2. Now(s, rec) /\ UNCHANGED fresh
      BY <1>1, <2>3, IdleSweepOK DEF List, SweepRecords
    <3>3. fresh[s] = {}
      BY <2>1 DEF FreshInv
    <3> HIDE DEF rec
    <3> QED BY <1>k, <1>m, <2>1, <3>1, <3>2, <3>3
  <2> QED BY <2>1, <2>2, <2>3
<1>2. ASSUME NEW p \in Paths, DeepCheck(s, p) \/ Apply(s, p)
      PROVE  StoreShape' /\ OpMuTyped' /\ SweepShape' /\ FreshInv'
  <2>1. SweepEffect(s, p)
    BY <1>2, SweepStepEffect
  <2> DEFINE rec == [sweeper[s] EXCEPT !.todo = @ \ {p}]
  <2>2. rec \in SweepRecords /\ rec.known = sweeper[s].known /\ rec.pc = sweeper[s].pc
        /\ rec.pc # "idle" /\ Now(s, rec) /\ UNCHANGED opMu
    BY <1>f, <1>2 DEF SweepRecords, DeepCheck, Apply
  <2> HIDE DEF rec
  <2>3. SweepShape' /\ \A r \in Sweepers : sweeper'[r] = IF r = s THEN rec ELSE sweeper[r]
    BY <2>2, NowShape
  <2>4. CASE UNCHANGED <<store, fresh>>
    BY <2>2, <2>3, <2>4, <1>k DEF FreshInv
  <2>5. CASE /\ store' = [store EXCEPT !.entries[p] = store'.entries[p]]
             /\ fresh' = [r \in Readers |-> fresh[r] \ {p}]
             /\ store'.entries[p] \in Entry
    <3> DEFINE e == store'.entries[p]
    <3>1. /\ store'.entries = [store.entries EXCEPT ![p] = e] /\ store'.jobs = store.jobs
          /\ store'.written = {} /\ IsStore(store')
      <4> HIDE DEF e
      <4>1. store' = [store EXCEPT !.entries[p] = e] /\ e \in Entry
        BY <2>5 DEF e
      <4>2. IsStore(store) /\ store.written = {}
        BY DEF StoreShape, GoodStore
      <4> QED BY <4>1, <4>2 DEF IsStore
    <3>2. StoreShape'
      BY <1>f, <2>5, <3>1 DEF StoreShape, GoodStore, JobIds
    <3>3. FreshInv'
      <4>1. \A r \in Sweepers : fresh'[r] = fresh[r] \ {p}
        BY <2>5 DEF Readers
      <4>2. \A q \in Paths : q # p => store'.entries[q] = store.entries[q]
        BY <1>f, <3>1
      <4>3. \A r \in Sweepers : fresh[r] \subseteq Paths
        BY <1>f DEF Readers
      <4> QED BY <2>2, <2>3, <4>1, <4>2, <4>3 DEF FreshInv
    <3> QED BY <1>k, <2>2, <2>3, <3>2, <3>3
  <2> QED BY <2>1, <2>4, <2>5 DEF SweepEffect
<1>3. CASE DeepCheckEnd(s)
  <2>1. opMu' \in {"free", s} /\ UNCHANGED store /\ Look(s, {}) /\ {} \in SUBSET Paths
    BY <1>3 DEF DeepCheckEnd, Forget, Look
  <2> DEFINE rec == [sweeper[s] EXCEPT !.pc = "read", !.known = SweeperIdle.known]
  <2>2. rec \in SweepRecords /\ rec.pc = "read"
    BY <1>f, IdleSweepOK DEF SweepRecords
  <2>3. Now(s, rec) \/ Now(s, SweeperIdle)
    BY <1>3 DEF DeepCheckEnd
  <2>4. SweeperIdle.todo = {}
    BY DEF SweeperIdle
  <2> HIDE DEF rec
  <2> QED BY <1>k, <1>l, <2>1, <2>2, <2>3, <2>4, IdleSweepOK
<1>4. CASE ReadCatalog(s)
  <2> DEFINE todo == Catalogued \cup {p \in Paths : sweeper[s].remote[p] # None}
             rec == [sweeper[s] EXCEPT !.pc = "apply", !.known = store.entries, !.todo = todo]
  <2>1. UNCHANGED <<store, opMu>> /\ Look(s, Catalogued) /\ Catalogued \in SUBSET Paths
        /\ Now(s, rec)
    BY <1>4 DEF ReadCatalog, Catalogued
  <2>2. rec \in SweepRecords /\ rec.pc = "apply" /\ rec.known = store.entries
    <3>1. todo \in SUBSET Paths
      BY DEF Catalogued
    <3> HIDE DEF todo
    <3> QED BY <1>f, <3>1 DEF SweepRecords
  <2> HIDE DEF rec
  <2> QED BY <1>k, <1>l, <2>1, <2>2
<1>5. CASE ApplyEnd(s)
  BY <1>5, <1>k, <1>l, IdleSweepOK DEF ApplyEnd, Forget, Look, SweeperIdle
<1>6. CASE ValidateStart(s)
  <2> DEFINE todo == {p \in Paths : AwaitsValidation(store.entries[p])}
             rec == [SweeperIdle EXCEPT !.pc = "list", !.kind = "startup", !.known = store.entries,
                        !.todo = todo]
  <2>1. UNCHANGED <<store, fresh, opMu>> /\ Now(s, rec) /\ sweeper[s].pc = "idle"
    BY <1>6 DEF ValidateStart, shared
  <2>2. rec \in SweepRecords /\ rec.pc = "list"
    <3>1. todo \in SUBSET Paths
      OBVIOUS
    <3> HIDE DEF todo
    <3> QED BY <1>f, <3>1, IdleSweepOK DEF SweepRecords
  <2>3. fresh[s] = {}
    BY <2>1 DEF FreshInv
  <2> HIDE DEF rec
  <2> QED BY <1>k, <1>m, <2>1, <2>2, <2>3
<1>7. CASE ValidateList(s)
  <2>1. UNCHANGED <<store, fresh, opMu>> /\ sweeper[s].pc = "list"
    BY <1>7 DEF ValidateList, shared
  <2>2. fresh[s] = {}
    BY <2>1 DEF FreshInv
  <2> DEFINE rec == [sweeper[s] EXCEPT !.pc = "apply", !.remote = machine]
  <2>3. rec \in SweepRecords /\ rec.pc = "apply"
    BY <1>f DEF SweepRecords, MachineTyped
  <2>4. Now(s, rec) \/ Now(s, SweeperIdle)
    BY <1>7 DEF ValidateList
  <2>5. SweeperIdle.todo = {}
    BY DEF SweeperIdle
  <2> HIDE DEF rec
  <2> QED BY <1>k, <1>m, <2>1, <2>2, <2>3, <2>4, <2>5, IdleSweepOK
<1> QED BY <1>0, <1>1, <1>2, <1>3, <1>4, <1>5, <1>6, <1>7

-----------------------------------------------------------------------------
(* What a step of the service does to the store.                            *)

\* The store after a batch.
Result(entries, jobs, nextJob, ps) ==
    /\ IsStore(store') /\ store'.written = {}
    /\ store'.entries = entries /\ store'.jobs = jobs /\ store'.nextJob = nextJob
    /\ fresh' = [r \in Readers |-> fresh[r] \ ps]

LEMMA BatchResult ==
    ASSUME NEW b, NEW entries, NEW jobs, NEW n, NEW ps, Holds(b, entries, jobs, n, ps), Batch(b)
    PROVE  Result(entries, jobs, n, ps)
BY BatchEffect DEF Holds, Result

\* No sweep sees a difference.
StoreKept == UNCHANGED store /\ \A s \in Sweepers : fresh'[s] = fresh[s]

WithoutWrites(jobs, p) == Closed(Closed(jobs, p, {"delete"}), p, {"upload"})

Uploaded(p, e) ==
    Result([store.entries EXCEPT ![p] = e],
           Added(WithoutWrites(store.jobs, p), store.nextJob, NewJob("upload", p, None, e)),
           store.nextJob + 1, {p})

RangeWritten(p, e) ==
    Result([store.entries EXCEPT ![p] = e], WithoutWrites(store.jobs, p), store.nextJob, {p})

MovedLocally(p, q, e) ==
    Result([[store.entries EXCEPT ![p] = NoEntry] EXCEPT ![q] = e],
           Added(Closed(Closed(store.jobs, p, {"upload"}), q, {"upload"}), store.nextJob,
                 NewJob("upload", q, None, e)),
           store.nextJob + 1, {p, q})

DeleteQueued(p) ==
    Result([store.entries EXCEPT ![p].sync = "pending_delete"],
           Added(store.jobs, store.nextJob, NewJob("delete", p, None, NoEntry)),
           store.nextJob + 1, {p})

RenameQueued(p, q) ==
    Result([store.entries EXCEPT ![p].sync = "pending_rename"],
           Added(store.jobs, store.nextJob, NewJob("rename", p, q, store.entries[p])),
           store.nextJob + 1, {p})

Discarded(p) ==
    Result([store.entries EXCEPT ![p] = NoEntry], Closed(store.jobs, p, JobKinds),
           store.nextJob, {p})

JobsDropped(p) == Result(store.entries, Closed(store.jobs, p, JobKinds), store.nextJob, {})

Retried(id) ==
    LET j == store.jobs[id]
    IN  /\ j.state = "failed"
        /\ \/ /\ j.kind = "upload" /\ ~HasEntry(store, j.path)
              /\ Result([store.entries EXCEPT ![j.path] = RetriedEntry(j)],
                        Requeued(store.jobs, id), store.nextJob, {j.path})
           \/ /\ HasEntry(store, j.path)
              /\ j.kind = "upload" => SameFile(store.entries[j.path], j)
              /\ Result([store.entries EXCEPT ![j.path].sync = PendingSync(j.kind)],
                        Requeued(store.jobs, id), store.nextJob, {j.path})
           \/ Result(store.entries, Requeued(store.jobs, id), store.nextJob, {})

Fetched(p, v) ==
    /\ store.entries[p].sync = "remote_only"
    /\ Result([store.entries EXCEPT ![p] = CachedEntry(p, v, "synced")], store.jobs,
              store.nextJob, {p})

Pruned(ids) ==
    /\ \A i \in JobIds(store) \ ids : store.jobs[i].state \in {"done", "failed"}
    /\ Result(store.entries, Restrict(store.jobs, ids), store.nextJob, {})

RangeEntry(p, v) == [CachedEntry(p, v, "local_only") EXCEPT !.md5 = None]

ServiceEffect ==
    \/ StoreKept
    \/ \E p \in Paths, v \in Contents : Uploaded(p, CachedEntry(p, v, "pending_upload"))
    \/ \E p \in Paths, v \in Contents : RangeWritten(p, RangeEntry(p, v))
    \/ \E c \in Clients :
           /\ client[c].op = "rename" /\ client[c].pc = "commit"
           /\ MovedLocally(client[c].path, client[c].dest, MovedEntry(c))
    \/ \E p \in Paths : HasEntry(store, p) /\ DeleteQueued(p)
    \/ \E c \in Clients :
           /\ client[c].op = "rename" /\ client[c].pc = "moveRemote"
           /\ HasEntry(store, client[c].path) /\ RenameQueued(client[c].path, client[c].dest)
    \/ \E c \in Clients : client[c].pc = "discard" /\ Discarded(client[c].path)
    \/ \E c \in Clients : client[c].pc = "dropJobs" /\ JobsDropped(client[c].path)
    \/ \E id \in JobIds(store) : "retry" \in Ops /\ Retried(id)
    \/ \E p \in Paths, v \in Contents : Fetched(p, v)
    \/ \E ids \in SUBSET JobIds(store) : Pruned(ids)

LEMMA StoreKeptSteps ==
    ASSUME StoreShape, NEW c \in Clients, NEW ps, NEW b,
           \/ UNCHANGED <<store, fresh>> \/ BatchFails(b)
           \/ UNCHANGED store /\ fresh' = [fresh EXCEPT ![c] = ps]
    PROVE  StoreKept
<1>1. \A s \in Sweepers : s # c /\ s \in Readers
  BY SyncStateAssumption DEF Readers
<1>2. fresh \in [Readers -> SUBSET Paths]
  BY DEF StoreShape
<1> QED BY <1>1, <1>2 DEF StoreKept, BatchFails

\* What the batches of Upload, UploadRange and fetchToCache write.
LEMMA CommitEffect ==
    ASSUME ServiceShape, NEW c \in Clients, client[c].pc = "commit",
           client[c].op \in {"upload", "range"}, Batch(CommitBatch(store, c))
    PROVE  LET p == client[c].path
               v == client[c].val
           IN  /\ p \in Paths /\ v \in Contents
               /\ \/ Uploaded(p, CachedEntry(p, v, "pending_upload"))
                  \/ RangeWritten(p, RangeEntry(p, v))
<1> DEFINE p == client[c].path
           v == client[c].val
<1>f. client[c] \in CallRecords /\ CallOK(client[c]) /\ IsStore(store) /\ store.written = {}
  BY CallerFacts DEF ServiceShape, StoreShape, GoodStore
<1>n. None \notin Paths /\ None \notin Contents
  BY StoreAssumption
<1>1. p \in Paths /\ v \in Contents
  BY <1>f DEF CallOK, CallRecords, ReplacementOK, Files
<1>2. CASE client[c].op = "upload"
  <2> DEFINE e == CachedEntry(p, v, "pending_upload")
  <2>1. e \in Entry /\ NormalizeNewEntry(e) = e
    BY <1>1, <1>n, CachedEntryIsEntry DEF CachedEntry, SyncStates, NormalizeNewEntry
  <2>2. CommitBatch(store, c) = UploadBatch(store, p, e)
    BY <1>2 DEF CommitBatch
  <2> HIDE DEF e
  <2>3. Holds(UploadBatch(store, p, e), [store.entries EXCEPT ![p] = e],
              Added(WithoutWrites(store.jobs, p), store.nextJob, NewJob("upload", p, None, e)),
              store.nextJob + 1, {p})
    <3>1. store.written \cup {p} = {p}
      BY <1>f
    <3> HIDE DEF p
    <3>2. Holds(UploadBatch(store, p, e), [store.entries EXCEPT ![p] = NormalizeNewEntry(e)],
                Added(WithoutWrites(store.jobs, p), store.nextJob, NewJob("upload", p, None, e)),
                store.nextJob + 1, store.written \cup {p})
      BY <1>1, <1>f, <2>1, UploadBatchHolds DEF WithoutWrites
    <3> QED BY <2>1, <3>1, <3>2
  <2>4. Uploaded(p, e)
    BY <2>2, <2>3, BatchResult DEF Uploaded
  <2> QED BY <1>1, <2>4 DEF e
<1>3. CASE client[c].op = "range"
  <2> DEFINE e == RangeEntry(p, v)
  <2>1. NormalizeNewEntry(e) = e
    BY <1>1, <1>n DEF RangeEntry, CachedEntry, NormalizeNewEntry
  <2>2. CommitBatch(store, c) = RangeBatch(store, p, v)
    BY <1>3 DEF CommitBatch
  <2>3. Holds(RangeBatch(store, p, v), [store.entries EXCEPT ![p] = e],
              WithoutWrites(store.jobs, p), store.nextJob, {p})
    <3>1. store.written \cup {p} = {p}
      BY <1>f
    <3>2. Holds(RangeBatch(store, p, v), [store.entries EXCEPT ![p] = NormalizeNewEntry(e)],
                WithoutWrites(store.jobs, p), store.nextJob, store.written \cup {p})
      BY <1>1, <1>f, RangeBatchHolds DEF WithoutWrites, RangeEntry
    <3> QED BY <2>1, <3>1, <3>2
  <2> HIDE DEF e
  <2>4. RangeWritten(p, e)
    BY <2>2, <2>3, BatchResult DEF RangeWritten
  <2> QED BY <1>1, <2>4 DEF e
<1> QED BY <1>2, <1>3

LEMMA FetchEffect ==
    ASSUME ServiceShape, NEW c \in Clients, CommitFetch(c), FetchStillWanted(c),
           Batch(PutEntry(store, client[c].path, CachedEntry(client[c].path, client[c].val, "synced")))
    PROVE  /\ client[c].path \in Paths /\ client[c].val \in Contents
           /\ Fetched(client[c].path, client[c].val)
<1> DEFINE p == client[c].path
           v == client[c].val
           e == CachedEntry(p, v, "synced")
           b == PutEntry(store, p, e)
<1>f. client[c] \in CallRecords /\ CallOK(client[c]) /\ IsStore(store) /\ store.written = {}
  BY CallerFacts DEF ServiceShape, StoreShape, GoodStore
<1>n. None \notin Paths /\ None \notin Contents
  BY StoreAssumption
<1>1. p \in Paths /\ v \in Contents
  BY <1>f DEF CommitFetch, CallOK, CallRecords, ReplacementOK, Files
<1>2. e \in Entry /\ NormalizeNewEntry(e) = e
  BY <1>1, <1>n, CachedEntryIsEntry DEF CachedEntry, SyncStates, NormalizeNewEntry
<1> HIDE DEF e
<1>3. Holds(b, [store.entries EXCEPT ![p] = e], store.jobs, store.nextJob, {p})
  BY <1>f, <1>1, <1>2, PutEntryHolds
<1>4. Batch(b)
  BY DEF e
<1> HIDE DEF b
<1>5. Result([store.entries EXCEPT ![p] = e], store.jobs, store.nextJob, {p})
  BY <1>3, <1>4, BatchResult
<1> QED BY <1>1, <1>5 DEF Fetched, FetchStillWanted, e

LEMMA PruneEffect ==
    ASSUME IsStore(store), store.written = {}, NEW c, PruneJobs(c)
    PROVE  UNCHANGED <<store, fresh>> \/ \E ids \in SUBSET JobIds(store) : Pruned(ids)
<1>1. ASSUME NEW ids \in SUBSET JobIds(store), Batch([store EXCEPT !.jobs = Restrict(@, ids)]),
             \A i \in JobIds(store) \ ids : store.jobs[i].state \in {"done", "failed"}
      PROVE  Pruned(ids)
  BY RestrictHolds, <1>1, BatchResult DEF Pruned
<1>2. ASSUME NEW ids, Batch(PruneDoneJobs(store, ids))
      PROVE  \E kept \in SUBSET JobIds(store) : Pruned(kept)
  <2> DEFINE kept == {i \in JobIds(store) : ~(store.jobs[i].state = "done" /\ i \in ids)}
  <2>1. PruneDoneJobs(store, ids) = [store EXCEPT !.jobs = Restrict(@, kept)]
    BY DEF PruneDoneJobs
  <2>2. kept \in SUBSET JobIds(store)
        /\ \A i \in JobIds(store) \ kept : store.jobs[i].state \in {"done", "failed"}
    OBVIOUS
  <2> HIDE DEF kept
  <2> QED BY <1>1, <1>2, <2>1, <2>2
<1>3. ASSUME Batch(PruneFailedJobs(store, 1))
      PROVE  \E kept \in SUBSET JobIds(store) : Pruned(kept)
  <2> DEFINE Newer(i) == {k \in JobIds(store) :
                             k > i /\ store.jobs[k].path = store.jobs[i].path
                                   /\ store.jobs[k].state = "failed"}
             kept == {i \in JobIds(store) :
                         store.jobs[i].state # "failed" \/ Cardinality(Newer(i)) < 1}
  <2>1. PruneFailedJobs(store, 1) = [store EXCEPT !.jobs = Restrict(@, kept)]
    BY DEF PruneFailedJobs
  <2>2. kept \in SUBSET JobIds(store)
        /\ \A i \in JobIds(store) \ kept : store.jobs[i].state \in {"done", "failed"}
    OBVIOUS
  <2> HIDE DEF kept
  <2> QED BY <1>1, <1>3, <2>1, <2>2
<1> QED BY <1>2, <1>3 DEF PruneJobs, BatchFails

\* What the batches of Delete write, and those of DiscardLocal with an entry.
LEMMA DeleteEffect ==
    ASSUME IsStore(store), store.written = {}, NEW c, client[c] \in CallRecords,
           CallOK(client[c]), EnqueueDelete(c)
    PROVE  LET p == client[c].path
           IN  /\ p \in Paths
               /\ \/ HasEntry(store, p) /\ DeleteQueued(p)
                  \/ UNCHANGED <<store, fresh>>
<1> DEFINE p == client[c].path
           j == NewJob("delete", p, None, NoEntry)
           b == Enqueue(SetEntrySync(store, p, "pending_delete"), j)
<1>1. p \in Paths
  BY DEF EnqueueDelete, CallOK, CallRecords
<1>2. j \in Job
  BY <1>1, StoreAssumption, NewJobIsJob DEF NoEntry, Entry, CacheStates, JobKinds
<1>3. CASE HasEntry(store, p) /\ Batch(b)
  <2> HIDE DEF j
  <2>1. Holds(b, [store.entries EXCEPT ![p].sync = "pending_delete"],
              Added(store.jobs, store.nextJob, j), store.nextJob + 1, {p})
    BY <1>1, <1>2, <1>3, MarkAndEnqueueHolds DEF SyncStates
  <2> HIDE DEF b
  <2>2. DeleteQueued(p)
    BY <1>3, <2>1, BatchResult DEF DeleteQueued, j
  <2> QED BY <1>1, <1>3, <2>2
<1>4. (HasEntry(store, p) /\ Batch(b)) \/ UNCHANGED <<store, fresh>>
  BY DEF EnqueueDelete, BatchFails
<1> QED BY <1>1, <1>3, <1>4

LEMMA DiscardEffect ==
    ASSUME IsStore(store), store.written = {}, NEW c, client[c] \in CallRecords,
           CallOK(client[c]), DiscardBatch(c)
    PROVE  LET p == client[c].path
           IN  /\ p \in Paths /\ client[c].pc = "discard"
               /\ Discarded(p) \/ UNCHANGED <<store, fresh>>
<1> DEFINE p == client[c].path
           b == DiscardEntry(store, p, JobKinds)
<1>1. p \in Paths /\ client[c].pc = "discard"
  BY DEF DiscardBatch, CallOK, CallRecords
<1>2. CASE Batch(b)
  <2>1. Holds(b, [store.entries EXCEPT ![p] = NoEntry], Closed(store.jobs, p, JobKinds),
              store.nextJob, {p})
    BY <1>1, DiscardEntryHolds
  <2> HIDE DEF b, p
  <2>2. Discarded(p)
    BY <1>2, <2>1, BatchResult DEF Discarded
  <2> QED BY <1>1, <2>2 DEF p
<1>3. Batch(b) \/ UNCHANGED <<store, fresh>>
  BY DEF DiscardBatch, BatchFails
<1> QED BY <1>1, <1>2, <1>3

LEMMA ServiceStepEffect ==
    ASSUME ServiceShape, ServiceNext
    PROVE  ServiceEffect
<1>0. PICK c \in Clients :
        \/ \E p \in Paths, v \in Contents, op \in {"upload", "range"} : Upload(c, p, v, op)
        \/ ReplaceCacheFile(c) \/ CommitReplacement(c)
        \/ \E p \in Paths : Delete(c, p) \/ DiscardLocal(c, p) \/ Fetch(c, p)
        \/ EnqueueDelete(c) \/ DiscardBatch(c) \/ DiscardJobsBatch(c) \/ UnlinkDiscarded(c)
        \/ \E p, dest \in Paths : Rename(c, p, dest)
        \/ EnqueueRemoteRename(c) \/ RenameLocalUpload(c)
        \/ \E id \in JobIds(store) : Retry(c, id)
        \/ Download(c) \/ InstallFetched(c) \/ CommitFetch(c)
        \/ PruneJobs(c) \/ PruneCache(c) \/ PruneCacheRemove(c)
  BY DEF ServiceNext
<1>f. /\ client[c] \in CallRecords /\ CallOK(client[c])
      /\ StoreShape /\ GoodStore(store) /\ IsStore(store) /\ store.written = {}
  BY CallerFacts DEF ServiceShape, StoreShape, GoodStore
<1>n. None \notin Paths /\ None \notin Contents
  BY StoreAssumption
<1>k. ASSUME UNCHANGED <<store, fresh>> PROVE ServiceEffect
  BY <1>f, <1>k, StoreKeptSteps DEF ServiceEffect
<1>b. ASSUME NEW b, BatchFails(b) PROVE ServiceEffect
  BY <1>f, <1>b, StoreKeptSteps DEF ServiceEffect
<1>g. ASSUME NEW ps, UNCHANGED store, fresh' = [fresh EXCEPT ![c] = ps] PROVE ServiceEffect
  BY <1>f, <1>g, StoreKeptSteps DEF ServiceEffect
<1>1. ASSUME NEW p \in Paths, NEW v \in Contents, NEW op \in {"upload", "range"}, Upload(c, p, v, op)
      PROVE  ServiceEffect
  BY <1>1, <1>k DEF Upload
<1>2. CASE ReplaceCacheFile(c)
  BY <1>2, <1>k, <1>g DEF ReplaceCacheFile, ReturnAndForget
<1>3. CASE CommitReplacement(c)
  <2>1. client[c].pc = "commit" /\ client[c].op \in {"upload", "range", "rename"}
        /\ ReplacementOK(client[c]) /\ client[c].path \in Paths
    BY <1>3, <1>f DEF CommitReplacement, CallOK, CallRecords
  <2> DEFINE p == client[c].path
             v == client[c].val
  <2>2. CASE Batch(CommitBatch(store, c))
    <3>1. CASE client[c].op \in {"upload", "range"}
      BY <2>1, <2>2, <3>1, CommitEffect DEF ServiceEffect
    <3>2. CASE client[c].op = "rename"
      <4> DEFINE q == client[c].dest
                 e == MovedEntry(c)
      <4>1. q \in Paths /\ client[c].entry \in Entry
        BY <1>f, <3>2 DEF CallRecords, CallOK
      <4>2. CommitBatch(store, c) = RenameLocalBatch(store, c)
        BY <3>2 DEF CommitBatch
      <4>3. NormalizeNewEntry(e) = e
        BY <1>n, <4>1 DEF MovedEntry, NormalizeNewEntry, Entry
      <4>4. Holds(RenameLocalBatch(store, c), [[store.entries EXCEPT ![p] = NoEntry] EXCEPT ![q] = e],
                  Added(Closed(Closed(store.jobs, p, {"upload"}), q, {"upload"}), store.nextJob,
                        NewJob("upload", q, None, e)),
                  store.nextJob + 1, {p, q})
        BY <1>f, <2>1, <4>1, <4>3, RenameLocalBatchHolds
      <4> HIDE DEF e, p, q
      <4>5. MovedLocally(p, q, e)
        BY <2>2, <4>2, <4>4, BatchResult DEF MovedLocally
      <4> QED BY <2>1, <3>2, <4>5 DEF ServiceEffect, e, p, q
    <3> QED BY <2>1, <3>1, <3>2
  <2> QED BY <1>3, <1>b, <2>2 DEF CommitReplacement
<1>4. ASSUME NEW p \in Paths, Delete(c, p) \/ DiscardLocal(c, p) PROVE ServiceEffect
  BY <1>4, <1>k DEF Delete, DiscardLocal, shared
<1>5. ASSUME NEW p \in Paths, Fetch(c, p) PROVE ServiceEffect
  BY <1>5, <1>g DEF Fetch, Look
<1>6. CASE EnqueueDelete(c)
  BY <1>6, <1>f, <1>b, <1>k, DeleteEffect DEF ServiceEffect
<1>7. CASE DiscardBatch(c)
  BY <1>7, <1>f, <1>b, <1>k, DiscardEffect DEF ServiceEffect
<1>8. CASE DiscardJobsBatch(c)
  <2> DEFINE p == client[c].path
             b == DiscardJobs(store, p, JobKinds)
  <2>1. client[c].pc = "dropJobs"
    BY <1>8 DEF DiscardJobsBatch
  <2>2. CASE Batch(b)
    <3>1. Holds(b, store.entries, Closed(store.jobs, p, JobKinds), store.nextJob, {})
      BY <1>f, DiscardJobsHolds
    <3> HIDE DEF b, p
    <3>2. JobsDropped(p)
      BY <2>2, <3>1, BatchResult DEF JobsDropped
    <3> QED BY <2>1, <3>2 DEF ServiceEffect, p
  <2> QED BY <1>8, <1>b, <2>2 DEF DiscardJobsBatch
<1>9. CASE UnlinkDiscarded(c) \/ PruneCache(c) \/ PruneCacheRemove(c) \/ InstallFetched(c)
           \/ RenameLocalUpload(c)
  BY <1>9, <1>k DEF UnlinkDiscarded, PruneCache, PruneCacheRemove, InstallFetched, RenameLocalUpload
<1>10. ASSUME NEW p \in Paths, NEW dest \in Paths, Rename(c, p, dest) PROVE ServiceEffect
  BY <1>10, <1>k DEF Rename, shared
<1>11. CASE EnqueueRemoteRename(c)
  <2> DEFINE p == client[c].path
             q == client[c].dest
             j == NewJob("rename", p, q, store.entries[p])
             b == Enqueue(SetEntrySync(store, p, "pending_rename"), j)
  <2>1. p \in Paths /\ q \in Paths /\ client[c].op = "rename" /\ client[c].pc = "moveRemote"
    BY <1>11, <1>f DEF EnqueueRemoteRename, CallOK, CallRecords
  <2>2. j \in Job
    BY <1>f, <2>1, NewJobIsJob DEF IsStore, JobKinds
  <2>3. CASE HasEntry(store, p) /\ Batch(b)
    <3> HIDE DEF j
    <3>1. Holds(b, [store.entries EXCEPT ![p].sync = "pending_rename"],
                Added(store.jobs, store.nextJob, j), store.nextJob + 1, {p})
      <4>1. store.written \cup {p} = {p} /\ "pending_rename" \in SyncStates
        BY <1>f DEF SyncStates
      <4>2. IsStore(store) /\ p \in Paths /\ HasEntry(store, p) /\ j \in Job
        BY <1>f, <2>1, <2>2, <2>3
      <4> HIDE DEF p
      <4> QED BY <4>1, <4>2, MarkAndEnqueueHolds
    <3> HIDE DEF b, p, q
    <3>2. RenameQueued(p, q)
      BY <2>3, <3>1, BatchResult DEF RenameQueued, j
    <3> QED BY <2>1, <2>3, <3>2 DEF ServiceEffect, p, q
  <2> QED BY <1>11, <1>b, <1>k, <2>3 DEF EnqueueRemoteRename, RemoteRenameBatch
<1>12. ASSUME NEW id \in JobIds(store), Retry(c, id) PROVE ServiceEffect
  <2> DEFINE b == RetryJob(RestoreEntryStateForRetry(store, store.jobs[id]), id)
             j == store.jobs[id]
  <2>1. JobOK(j) /\ j.state = "failed" /\ "retry" \in Ops
    BY <1>f, <1>12 DEF GoodStore, Retry, CanRetry, Call
  <2>2. CASE Batch(b)
    <3> HIDE DEF b, j
    <3>1. b = RetryJob(RestoreEntryStateForRetry(store, j), id) /\ j = store.jobs[id]
      BY DEF b, j
    <3>2. store.written \cup {j.path} = {j.path}
      BY <1>f
    <3>3. \/ /\ j.kind = "upload" /\ ~HasEntry(store, j.path)
             /\ Holds(b, [store.entries EXCEPT ![j.path] = RetriedEntry(j)],
                      Requeued(store.jobs, id), store.nextJob, store.written \cup {j.path})
          \/ /\ HasEntry(store, j.path)
             /\ j.kind = "upload" => SameFile(store.entries[j.path], j)
             /\ Holds(b, [store.entries EXCEPT ![j.path].sync = PendingSync(j.kind)],
                      Requeued(store.jobs, id), store.nextJob, store.written \cup {j.path})
          \/ Holds(b, store.entries, Requeued(store.jobs, id), store.nextJob, store.written)
      BY <1>f, <2>1, <3>1, RetryHolds
    <3>4. Retried(id)
      BY <1>f, <2>1, <2>2, <3>1, <3>2, <3>3, BatchResult DEF Retried
    <3> QED BY <2>1, <3>4 DEF ServiceEffect
  <2> QED BY <1>12, <1>b, <2>2 DEF Retry
<1>13. CASE Download(c)
  BY <1>13, <1>k, <1>g DEF Download, ReturnAndForget
<1>14. CASE CommitFetch(c)
  <2>1. CASE FetchStillWanted(c) /\ Batch(PutEntry(store, client[c].path,
                                                   CachedEntry(client[c].path, client[c].val, "synced")))
    BY <1>14, <2>1, FetchEffect DEF ServiceEffect
  <2> QED BY <1>14, <1>b, <1>g, <2>1 DEF CommitFetch
<1>15. CASE PruneJobs(c)
  BY <1>15, <1>f, <1>k, PruneEffect DEF ServiceEffect
<1> QED BY <1>0, <1>1, <1>2, <1>3, <1>4, <1>5, <1>6, <1>7, <1>8, <1>9, <1>10, <1>11, <1>12, <1>13,
           <1>14, <1>15

-----------------------------------------------------------------------------
(* The service moves jobs only from waiting or failed to done, and from     *)
(* failed to waiting when a job is retried; it leaves the running one alone. *)

SameTask(j, k) ==
    /\ j.kind = k.kind /\ j.path = k.path /\ j.dest = k.dest
    /\ j.cachePath = k.cachePath /\ j.md5 = k.md5 /\ j.size = k.size

\* Job j has become k, or is closed.
MayClose(j, k) == SameTask(k, j) /\ (k = j \/ (Unfinished(j) /\ k.state = "done"))

LEMMA ClosedAt ==
    ASSUME NEW jobs, IsQueue(jobs), NEW p, NEW kinds, NEW i \in DOMAIN jobs
    PROVE  /\ MayClose(jobs[i], Closed(jobs, p, kinds)[i])
           /\ ~(jobs[i].path = p /\ jobs[i].kind \in kinds) => Closed(jobs, p, kinds)[i] = jobs[i]
           /\ Closed(jobs, p, kinds)[i] \in Job
<1>1. jobs[i] \in Job
  BY DEF IsQueue
<1> DEFINE d == [jobs[i] EXCEPT !.state = "done"]
<1>2. d \in Job /\ SameTask(d, jobs[i]) /\ SameTask(jobs[i], jobs[i]) /\ d.state = "done"
  BY <1>1 DEF Job, JobStates, SameTask
<1>3. Closed(jobs, p, kinds)[i] = IF jobs[i].path = p /\ jobs[i].kind \in kinds /\ Unfinished(jobs[i])
                                  THEN d ELSE jobs[i]
  BY DEF Closed
<1> HIDE DEF d
<1> QED BY <1>1, <1>2, <1>3 DEF MayClose

LEMMA ClosedQueue ==
    ASSUME NEW jobs, IsQueue(jobs), NEW p, NEW kinds
    PROVE  IsQueue(Closed(jobs, p, kinds)) /\ DOMAIN Closed(jobs, p, kinds) = DOMAIN jobs
<1>1. DOMAIN Closed(jobs, p, kinds) = DOMAIN jobs
  BY DEF Closed
<1>2. Closed(jobs, p, kinds) \in [DOMAIN jobs -> Job]
  BY ClosedAt DEF Closed
<1> QED BY <1>1, <1>2 DEF IsQueue

LEMMA ClosedTwice ==
    ASSUME NEW jobs, IsQueue(jobs), NEW p, NEW q, NEW kinds, NEW more, NEW i \in DOMAIN jobs
    PROVE  LET k == Closed(Closed(jobs, p, kinds), q, more)
           IN  /\ DOMAIN k = DOMAIN jobs /\ MayClose(jobs[i], k[i]) /\ k[i] \in Job
               /\ ~(jobs[i].path = p /\ jobs[i].kind \in kinds)
                  /\ ~(jobs[i].path = q /\ jobs[i].kind \in more) => k[i] = jobs[i]
<1> DEFINE a == Closed(jobs, p, kinds)
           k == Closed(a, q, more)
<1>1. IsQueue(a) /\ DOMAIN a = DOMAIN jobs
  BY ClosedQueue
<1>2. MayClose(jobs[i], a[i]) /\ (~(jobs[i].path = p /\ jobs[i].kind \in kinds) => a[i] = jobs[i])
  BY ClosedAt
<1> HIDE DEF a
<1>3. DOMAIN k = DOMAIN jobs
  BY <1>1, ClosedQueue
<1>4. MayClose(a[i], k[i]) /\ (~(a[i].path = q /\ a[i].kind \in more) => k[i] = a[i]) /\ k[i] \in Job
  BY <1>1, ClosedAt
<1> HIDE DEF k
<1>5. MayClose(jobs[i], k[i])
  BY <1>2, <1>4 DEF MayClose, SameTask, Unfinished
<1> QED BY <1>2, <1>3, <1>4, <1>5 DEF a, k

\* The calls in progress are calls that this scene makes, and their lines are theirs.
CallOpOK(rec) ==
    rec.pc # "idle" =>
        /\ rec.op \in Ops
        /\ rec.pc = "enqueueDelete" => rec.op = "delete"
        /\ rec.pc = "dropJobs" => rec.op = "discard"
        /\ rec.pc \in {"discard", "unlink"} => rec.op \in {"delete", "discard"}
        /\ rec.pc = "sweep" => rec.op = "prune"

OpsInv == \A c \in Clients : CallOpOK(client[c])

Tidied ==
    /\ store.nextJob <= store'.nextJob
    /\ \A i \in JobIds(store) : store.jobs[i].state = "running" =>
           i \in JobIds(store') /\ store'.jobs[i] = store.jobs[i]
    /\ \A i \in JobIds(store') :
           \/ /\ i \in JobIds(store) /\ SameTask(store'.jobs[i], store.jobs[i])
              /\ \/ store'.jobs[i].state = store.jobs[i].state
                 \/ Unfinished(store.jobs[i]) /\ store'.jobs[i].state = "done"
                 \/ /\ "retry" \in Ops
                    /\ store.jobs[i].state = "failed" /\ store'.jobs[i].state = "queued"
           \/ /\ i = store.nextJob /\ i < store'.nextJob /\ store'.jobs[i].state = "queued"
              /\ (store'.jobs[i].kind = "rename" \/ store'.jobs[i].dest # None) => "rename" \in Ops

\* A queue after a batch that closes jobs and adds one.
LEMMA TidiedByAdding ==
    ASSUME IsStore(store), NEW jobs, DOMAIN jobs = JobIds(store),
           \A i \in JobIds(store) : MayClose(store.jobs[i], jobs[i]),
           NEW j, j.state = "queued", (j.kind = "rename" \/ j.dest # None) => "rename" \in Ops,
           store'.jobs = Added(jobs, store.nextJob, j), store'.nextJob = store.nextJob + 1
    PROVE  Tidied
<1> DEFINE n == store.nextJob
<1>1. n \in Nat /\ \A i \in JobIds(store) : i \in Nat /\ i < n
  BY DEF IsStore, IsQueue, JobIds
<1>2. JobIds(store') = JobIds(store) \cup {n} /\ store'.jobs[n] = j
      /\ \A i \in JobIds(store) : i # n => store'.jobs[i] = jobs[i]
  <2>1. store'.jobs = Added(jobs, n, j)
    OBVIOUS
  <2> HIDE DEF n
  <2>2. DOMAIN store'.jobs = DOMAIN jobs \cup {n} /\ store'.jobs[n] = j
        /\ \A i \in DOMAIN jobs : i # n => store'.jobs[i] = jobs[i]
    BY <2>1 DEF Added
  <2>3. JobIds(store') = DOMAIN store'.jobs
    BY DEF JobIds
  <2> QED BY <2>2, <2>3
<1>3. \A i \in JobIds(store) : i # n
  BY <1>1
<1>4. n < store'.nextJob /\ n <= store'.nextJob
  BY <1>1
<1> HIDE DEF n
<1>5. \A i \in JobIds(store) : store.jobs[i].state = "running" => jobs[i] = store.jobs[i]
  BY DEF MayClose, Unfinished
<1>6. \A i \in JobIds(store) : SameTask(jobs[i], store.jobs[i])
         /\ (jobs[i].state = store.jobs[i].state \/ (Unfinished(store.jobs[i]) /\ jobs[i].state = "done"))
  BY DEF MayClose
<1> QED BY <1>2, <1>3, <1>4, <1>5, <1>6 DEF Tidied, n

LEMMA TidiedByClosing ==
    ASSUME IsStore(store), DOMAIN store'.jobs \subseteq JobIds(store),
           \A i \in JobIds(store) : store.jobs[i].state = "running" => i \in JobIds(store'),
           \A i \in DOMAIN store'.jobs : MayClose(store.jobs[i], store'.jobs[i]),
           store'.nextJob = store.nextJob
    PROVE  Tidied
<1>1. store.nextJob <= store'.nextJob
  BY DEF IsStore
<1>2. \A i \in JobIds(store') : store.jobs[i].state = "running" => store'.jobs[i] = store.jobs[i]
  BY DEF MayClose, Unfinished, JobIds
<1>3. \A i \in JobIds(store') : i \in JobIds(store) /\ SameTask(store'.jobs[i], store.jobs[i])
         /\ (store'.jobs[i].state = store.jobs[i].state
             \/ (Unfinished(store.jobs[i]) /\ store'.jobs[i].state = "done"))
  BY DEF MayClose, JobIds
<1> QED BY <1>1, <1>2, <1>3 DEF Tidied

LEMMA RequeuedAt ==
    ASSUME NEW jobs, IsQueue(jobs), NEW id \in DOMAIN jobs
    PROVE  /\ DOMAIN Requeued(jobs, id) = DOMAIN jobs
           /\ SameTask(Requeued(jobs, id)[id], jobs[id]) /\ Requeued(jobs, id)[id].state = "queued"
           /\ \A i \in DOMAIN jobs : i # id => Requeued(jobs, id)[i] = jobs[i]
<1>1. jobs[id] \in Job
  BY DEF IsQueue
<1> DEFINE u == [jobs[id] EXCEPT !.state = "queued", !.attempts = 0]
<1>2. SameTask(u, jobs[id]) /\ u.state = "queued"
  BY <1>1 DEF Job, SameTask
<1>3. Requeued(jobs, id) = [jobs EXCEPT ![id] = u]
  BY DEF Requeued
<1> HIDE DEF u
<1> QED BY <1>2, <1>3

LEMMA ServiceTidies ==
    ASSUME IsStore(store), OpsInv, ServiceEffect
    PROVE  Tidied
<1>q. IsQueue(store.jobs) /\ DOMAIN store.jobs = JobIds(store) /\ store.nextJob \in Nat
  BY DEF IsStore, JobIds
<1>s. \A j : MayClose(j, j)
  BY DEF MayClose, SameTask
<1>1. CASE StoreKept
  BY <1>1, <1>s, <1>q, TidiedByClosing DEF StoreKept, JobIds
<1>2. ASSUME NEW p \in Paths, NEW e, Uploaded(p, e) PROVE Tidied
  <2>1. DOMAIN WithoutWrites(store.jobs, p) = JobIds(store)
        /\ \A i \in JobIds(store) : MayClose(store.jobs[i], WithoutWrites(store.jobs, p)[i])
    BY <1>q, ClosedTwice, ClosedQueue DEF WithoutWrites
  <2>2. NewJob("upload", p, None, e).state = "queued" /\ NewJob("upload", p, None, e).kind # "rename"
        /\ NewJob("upload", p, None, e).dest = None
    BY DEF NewJob
  <2> QED BY <1>2, <2>1, <2>2, TidiedByAdding DEF Uploaded, Result
<1>3. ASSUME NEW p \in Paths, NEW e, RangeWritten(p, e) PROVE Tidied
  <2>1. DOMAIN WithoutWrites(store.jobs, p) = JobIds(store)
        /\ \A i \in JobIds(store) : MayClose(store.jobs[i], WithoutWrites(store.jobs, p)[i])
    BY <1>q, ClosedTwice, ClosedQueue DEF WithoutWrites
  <2> QED BY <1>3, <2>1, TidiedByClosing DEF RangeWritten, Result, JobIds
<1>4. ASSUME NEW p, NEW q, NEW e, MovedLocally(p, q, e) PROVE Tidied
  <2> DEFINE jobs == Closed(Closed(store.jobs, p, {"upload"}), q, {"upload"})
  <2>1. DOMAIN jobs = JobIds(store) /\ \A i \in JobIds(store) : MayClose(store.jobs[i], jobs[i])
    BY <1>q, ClosedTwice, ClosedQueue
  <2>2. NewJob("upload", q, None, e).state = "queued" /\ NewJob("upload", q, None, e).kind # "rename"
        /\ NewJob("upload", q, None, e).dest = None
    BY DEF NewJob
  <2>3. store'.jobs = Added(jobs, store.nextJob, NewJob("upload", q, None, e))
        /\ store'.nextJob = store.nextJob + 1
    BY <1>4 DEF MovedLocally, Result
  <2> HIDE DEF jobs
  <2> QED BY <2>1, <2>2, <2>3, TidiedByAdding
<1>5. ASSUME NEW p \in Paths, DeleteQueued(p) PROVE Tidied
  BY <1>5, <1>q, <1>s, TidiedByAdding DEF NewJob, DeleteQueued, Result
<1>6. ASSUME NEW c \in Clients, client[c].op = "rename", client[c].pc = "moveRemote",
             RenameQueued(client[c].path, client[c].dest)
      PROVE  Tidied
  <2> DEFINE j == NewJob("rename", client[c].path, client[c].dest, store.entries[client[c].path])
  <2>1. "rename" \in Ops
    BY <1>6 DEF OpsInv, CallOpOK
  <2>2. j.state = "queued"
    BY DEF NewJob
  <2>3. store'.jobs = Added(store.jobs, store.nextJob, j) /\ store'.nextJob = store.nextJob + 1
    BY <1>6 DEF RenameQueued, Result
  <2> HIDE DEF j
  <2> QED BY <1>q, <1>s, <2>1, <2>2, <2>3, TidiedByAdding
<1>7. ASSUME NEW p, Discarded(p) \/ JobsDropped(p) PROVE Tidied
  <2>1. DOMAIN Closed(store.jobs, p, JobKinds) = JobIds(store)
        /\ \A i \in JobIds(store) : MayClose(store.jobs[i], Closed(store.jobs, p, JobKinds)[i])
    BY <1>q, ClosedAt, ClosedQueue
  <2>2. store'.jobs = Closed(store.jobs, p, JobKinds) /\ store'.nextJob = store.nextJob
    BY <1>7 DEF Discarded, JobsDropped, Result
  <2> QED BY <2>1, <2>2, TidiedByClosing DEF JobIds
<1>8. ASSUME NEW id \in JobIds(store), "retry" \in Ops, Retried(id) PROVE Tidied
  <2>1. store'.jobs = Requeued(store.jobs, id) /\ store'.nextJob = store.nextJob
        /\ store.jobs[id].state = "failed"
    BY <1>8 DEF Retried, Result
  <2>2. JobIds(store') = JobIds(store) /\ SameTask(store'.jobs[id], store.jobs[id])
        /\ store'.jobs[id].state = "queued"
        /\ \A i \in JobIds(store) : i # id => store'.jobs[i] = store.jobs[i]
    BY <1>q, <2>1, RequeuedAt DEF JobIds
  <2>3. \A j : SameTask(j, j)
    BY DEF SameTask
  <2>4. store.nextJob <= store'.nextJob
    BY <1>q, <2>1
  <2> QED BY <1>8, <2>1, <2>2, <2>3, <2>4 DEF Tidied
<1>9. ASSUME NEW p \in Paths, NEW v, Fetched(p, v) PROVE Tidied
  BY <1>9, <1>q, <1>s, TidiedByClosing DEF Fetched, Result, JobIds
<1>10. ASSUME NEW ids \in SUBSET JobIds(store), Pruned(ids) PROVE Tidied
  BY <1>10, <1>s, TidiedByClosing DEF Pruned, Result, Restrict, JobIds
<1> QED BY <1>1, <1>2, <1>3, <1>4, <1>5, <1>6, <1>7, <1>8, <1>9, <1>10 DEF ServiceEffect

-----------------------------------------------------------------------------
(* What a step of the engine does to the store and to its pass.             *)

OutcomeResult(s, sync) ==
    /\ IsStore(store') /\ store'.nextJob = store.nextJob
    /\ \/ /\ CurrentId \in JobIds(store)
          /\ \E n \in Nat : store'.jobs = JobUpdate(store, CurrentId, s, n)
       \/ CurrentId \notin JobIds(store) /\ store'.jobs = store.jobs
    /\ \/ /\ StillOf(store, Current, sync)
          /\ store'.entries = [store.entries EXCEPT ![Current.path].sync = sync]
          /\ fresh' = [r \in Readers |-> fresh[r] \ {Current.path}]
       \/ /\ ~StillOf(store, Current, sync) /\ store'.entries = store.entries
          /\ fresh' = [r \in Readers |-> fresh[r] \ {}]

\* A step that leaves the store alone.
EngineMoves ==
    \/ MayAttempt /\ MovedOn("fail")
    \/ /\ engine.pc = "mark" /\ Current.kind = "upload"
       /\ ~UploadJobMatches(store, Current, "uploading") /\ MovedOn("done")
    \/ /\ engine.pc = "mark" /\ Current.kind = "delete" /\ MovedOn("call")
    \/ engine.pc \in {"mark", "open", "call"} /\ MovedOn("fail")
    \/ engine.pc = "open" /\ MovedOn("call")
    \/ engine.pc = "call" /\ MovedOn("settle")
    \/ engine.pc = "unlink" /\ MovedOn("done")
    \/ engine.pc \in {"settle", "done"} /\ DiskMayFail /\ MovedOn("complete")

EngineStarts ==
    /\ MayAttempt /\ CanStart(store, CurrentId)
    /\ Result(store.entries, JobUpdate(store, CurrentId, "running", store.jobs[CurrentId].attempts),
              store.nextJob, {})
    /\ MovedOn("call") \/ MovedOn("mark")

EngineMarks ==
    /\ engine.pc = "mark"
    /\ \/ /\ Current.kind = "delete" /\ store.entries[Current.path].sync \in DeletePending
          /\ Result([store.entries EXCEPT ![Current.path].sync = "deleting"], store.jobs,
                    store.nextJob, {Current.path})
          /\ MovedOn("call")
       \/ /\ Current.kind = "upload" /\ UploadJobMatches(store, Current, "uploading")
          /\ Result([store.entries EXCEPT ![Current.path].sync = "uploading"], store.jobs,
                    store.nextJob, {Current.path})
          /\ MovedOn("open")

EngineSettles ==
    /\ engine.pc = "settle"
    /\ \E b : SettledAs(store, Current, b) /\ IsStore(b) /\ Batch(b)
    /\ \/ MovedOn("done")
       \/ Current.kind = "delete" /\ MovedOn("unlink")

EngineRecords ==
    \/ /\ engine.pc = "done" /\ NextJob(engine.deferred)
       /\ \/ /\ CurrentId \in JobIds(store)
             /\ \E n \in Nat : Result(store.entries, JobUpdate(store, CurrentId, "done", n),
                                      store.nextJob, {})
          \/ CurrentId \notin JobIds(store) /\ UNCHANGED <<store, fresh>>
    \/ /\ engine.pc = "fail" /\ NextJob(DeferJobPaths)
       /\ \/ DiskMayFail /\ UNCHANGED <<store, fresh>>
          \/ OutcomeResult("failed", "error")
          \/ OutcomeResult("queued", PendingSync(Current.kind))
    \/ /\ engine.pc = "complete" /\ NextJob(DeferJobPaths)
       /\ \/ DiskMayFail /\ UNCHANGED <<store, fresh>>
          \/ OutcomeResult("failed", "error")

EngineWalks ==
    \/ /\ engine.pc = "idle" /\ engine'.pc = "loop"
       /\ engine'.queue = QueuedJobs(store) /\ engine'.deferred = {}
    \/ engine.pc = "loop" /\ engine' = EngineIdle
    \/ /\ engine.pc = "loop" /\ Left # {} /\ NextJob(engine.deferred)
       /\ JobTouchesDeferredPath(Current) \/ ~CanStart(store, CurrentId)
    \/ MayAttempt /\ NextJob(DeferJobPaths)

EngineEffect ==
    \/ UNCHANGED <<store, fresh>> /\ (EngineWalks \/ EngineMoves)
    \/ EngineStarts \/ EngineMarks \/ EngineSettles \/ EngineRecords

LEMMA BatchOfStore ==
    ASSUME StoreShape, Batch(store)
    PROVE  UNCHANGED <<store, fresh>>
<1>1. IsStore(store) /\ store.written = {} /\ fresh \in [Readers -> SUBSET Paths]
  BY DEF StoreShape, GoodStore
<1>2. store' = store
  BY <1>1 DEF Batch, IsStore
<1>3. fresh' = fresh
  BY <1>1 DEF Batch
<1> QED BY <1>2, <1>3

LEMMA GotoMoves ==
    ASSUME EngineShape, NEW pc, Goto(pc) \/ Leave(pc)
    PROVE  MovedOn(pc)
BY DEF EngineShape, EngineTypeOK, Goto, Leave, MovedOn

LEMMA OutcomeBatch ==
    ASSUME StoreShape, Current \in Job, NEW s \in JobStates, NEW n \in Nat, NEW sync \in SyncStates,
           NEW b, b = SetFailedEntrySync(UpdateJob(store, CurrentId, s, n), Current, sync), Batch(b)
    PROVE  OutcomeResult(s, sync)
<1>1. GoodStore(store) /\ store.written = {}
  BY DEF StoreShape
<1>2. /\ GoodStore(b)
      /\ CurrentId \in JobIds(store) => b.jobs = JobUpdate(store, CurrentId, s, n)
      /\ CurrentId \notin JobIds(store) => b.jobs = store.jobs
      /\ \/ /\ StillOf(store, Current, sync)
            /\ b.entries = [store.entries EXCEPT ![Current.path].sync = sync]
            /\ b.written = store.written \cup {Current.path}
         \/ ~StillOf(store, Current, sync) /\ b.entries = store.entries /\ b.written = store.written
      /\ b.nextJob = store.nextJob
  <2>1. OutcomeOf(store, b, Current, CurrentId, s, n, sync)
    BY <1>1, OutcomeGood
  <2> QED BY <2>1 DEF OutcomeOf
<1>3. /\ IsStore(store') /\ store'.entries = b.entries /\ store'.jobs = b.jobs
      /\ store'.nextJob = b.nextJob /\ fresh' = [r \in Readers |-> fresh[r] \ b.written]
  BY <1>2, BatchEffect DEF GoodStore
<1>4. store.written \cup {Current.path} = {Current.path}
  BY <1>1
<1> QED BY <1>1, <1>2, <1>3, <1>4 DEF OutcomeResult

LEMMA EngineStepEffect ==
    ASSUME SyncShape, EngineNext
    PROVE  EngineEffect
<1>f. /\ StoreShape /\ EngineShape /\ GoodStore(store) /\ IsStore(store) /\ store.written = {}
  BY DEF SyncShape, StoreShape, GoodStore
<1>l. engine.pc \notin {"idle", "loop"} => Left # {}
  BY <1>f DEF EngineShape, EngineOK
<1>c. Left # {} => Current \in Job /\ JobOK(Current) /\ Current.path \in Paths
                   /\ Current.kind \in JobKinds /\ Current.attempts \in Nat
  BY <1>f, CurrentFacts
<1>g. \A pc : Goto(pc) \/ Leave(pc) => MovedOn(pc)
  BY <1>f, GotoMoves
<1>1. CASE DrainStart
  BY <1>1 DEF DrainStart, EngineIdle, EngineEffect, EngineWalks, shared
<1>2. CASE DrainEnd \/ SessionBlocked
  BY <1>2 DEF DrainEnd, SessionBlocked, MayAttempt, EngineEffect, EngineWalks, shared
<1>3. CASE SkipDeferred \/ NoLongerQueued
  BY <1>3 DEF SkipDeferred, NoLongerQueued, MayAttempt, EngineEffect, EngineWalks, shared
<1>4. CASE BackOff
  BY <1>4 DEF BackOff, EngineEffect, EngineWalks, shared
<1>5. CASE Unreachable
  BY <1>5, <1>g DEF Unreachable, EngineEffect, EngineMoves, shared
<1>6. CASE RecordRunning
  <2>1. MayAttempt /\ CanStart(store, CurrentId)
    BY <1>6 DEF RecordRunning
  <2>2. CASE BatchFails(StartJob(store, CurrentId)) /\ Goto("fail")
    BY <1>g, <2>1, <2>2 DEF BatchFails, EngineEffect, EngineMoves
  <2>3. CASE Batch(StartJob(store, CurrentId)) /\ (Goto("call") \/ Goto("mark"))
    <3> DEFINE n == store.jobs[CurrentId].attempts
    <3>1. CurrentId \in JobIds(store) /\ n \in Nat
      BY <1>f, <2>1 DEF CanStart, IsStore, IsQueue, JobIds, Job
    <3>2. Holds(StartJob(store, CurrentId), store.entries, JobUpdate(store, CurrentId, "running", n),
                store.nextJob, {})
      BY <1>f, <3>1, UpdateJobHolds DEF StartJob, JobUpdate, JobStates
    <3> HIDE DEF n
    <3>3. Result(store.entries, JobUpdate(store, CurrentId, "running", n), store.nextJob, {})
      BY <2>3, <3>2, BatchResult
    <3> QED BY <1>g, <2>1, <2>3, <3>3 DEF EngineEffect, EngineStarts, n
  <2> QED BY <1>6, <2>2, <2>3 DEF RecordRunning
<1>7. CASE MarkDeleting
  <2> DEFINE b == SetEntrySyncIf(store, Current.path, "deleting", DeletePending)
  <2>1. engine.pc = "mark" /\ Current.kind = "delete" /\ Left # {}
    BY <1>7, <1>l DEF MarkDeleting
  <2>2. CASE BatchFails(b) /\ Leave("fail")
    BY <1>g, <2>1, <2>2 DEF BatchFails, EngineEffect, EngineMoves
  <2>3. CASE Batch(b) /\ Goto("call")
    <3>1. \/ store.entries[Current.path].sync \in DeletePending /\ Marked(store, b, Current.path, "deleting")
          \/ store.entries[Current.path].sync \notin DeletePending /\ b = store
      BY <1>f, <1>c, <2>1, SetEntrySyncIfHolds DEF SyncStates, DeletePending
    <3> HIDE DEF b
    <3>2. CASE b = store
      BY <1>f, <1>g, <2>1, <2>3, <3>2, BatchOfStore DEF EngineEffect, EngineMoves
    <3>3. CASE store.entries[Current.path].sync \in DeletePending /\ Marked(store, b, Current.path, "deleting")
      <4>1. store.written \cup {Current.path} = {Current.path}
        BY <1>f
      <4>2. Result([store.entries EXCEPT ![Current.path].sync = "deleting"], store.jobs,
                   store.nextJob, {Current.path})
        BY <2>3, <3>3, <4>1, BatchResult DEF Marked
      <4> QED BY <1>g, <2>1, <2>3, <3>3, <4>2 DEF EngineEffect, EngineMarks
    <3> QED BY <3>1, <3>2, <3>3
  <2> QED BY <1>7, <2>2, <2>3 DEF MarkDeleting
<1>8. CASE MarkUploading
  <2> DEFINE b == SetUploadJobSync(store, Current, "uploading")
  <2>1. engine.pc = "mark" /\ Current.kind = "upload" /\ Left # {}
    BY <1>8, <1>l DEF MarkUploading
  <2>2. CASE BatchFails(b) /\ Leave("fail")
    BY <1>g, <2>1, <2>2 DEF BatchFails, EngineEffect, EngineMoves
  <2>3. CASE ~UploadJobMatches(store, Current, "uploading") /\ Leave("done") /\ UNCHANGED <<store, fresh>>
    BY <1>g, <2>1, <2>3 DEF EngineEffect, EngineMoves
  <2>4. CASE UploadJobMatches(store, Current, "uploading") /\ Batch(b) /\ Goto("open")
    <3>1. Marked(store, b, Current.path, "uploading")
      BY <1>f, <1>c, <2>1, <2>4, SetUploadJobSyncHolds DEF SyncStates
    <3> HIDE DEF b
    <3>2. store.written \cup {Current.path} = {Current.path}
      BY <1>f
    <3>3. Result([store.entries EXCEPT ![Current.path].sync = "uploading"], store.jobs,
                 store.nextJob, {Current.path})
      BY <2>4, <3>1, <3>2, BatchResult DEF Marked
    <3> QED BY <1>g, <2>1, <2>4, <3>3 DEF EngineEffect, EngineMarks
  <2> QED BY <1>8, <2>2, <2>3, <2>4 DEF MarkUploading
<1>9. CASE OpenCacheFile
  <2>1. engine.pc = "open" /\ UNCHANGED <<store, fresh>>
    BY <1>9 DEF OpenCacheFile
  <2>2. MovedOn("call") \/ MovedOn("fail")
    BY <1>9, <1>g, <1>f DEF OpenCacheFile, MovedOn, EngineShape, EngineTypeOK
  <2> QED BY <2>1, <2>2 DEF EngineEffect, EngineMoves
<1>10. CASE MachineCall
  BY <1>10, <1>g DEF MachineCall, EngineEffect, EngineMoves
<1>11. CASE Settle
  <2> DEFINE b == Settled(store, Current)
  <2>1. engine.pc = "settle" /\ Left # {}
    BY <1>11, <1>l DEF Settle
  <2>2. CASE BatchFails(b) /\ CompletedUnrecorded
    BY <1>g, <2>1, <2>2 DEF BatchFails, CompletedUnrecorded, EngineEffect, EngineMoves
  <2>3. ASSUME Batch(b), MovedOn("done") \/ (Current.kind = "delete" /\ MovedOn("unlink"))
        PROVE  EngineEffect
    <3>1. IsStore(b)
      BY <1>f, <1>c, <2>1, SettledGood DEF GoodStore
    <3> HIDE DEF b
    <3>2. b = Settled(store, Current)
      BY DEF b
    <3>3. SettledAs(store, Current, b)
      BY <1>f, <1>c, <2>1, <3>2, SettledHolds
    <3> QED BY <2>1, <2>3, <3>1, <3>3 DEF EngineEffect, EngineSettles
  <2>4. CASE CacheFileOfDeleted # None /\ Batch(b)
             /\ engine' = [engine EXCEPT !.pc = "unlink", !.file = CacheFileOfDeleted]
    BY <2>4, <1>f, <2>3 DEF CacheFileOfDeleted, MovedOn, EngineShape, EngineTypeOK
  <2>5. CASE Batch(b) /\ Leave("done")
    BY <1>g, <2>3, <2>5
  <2> QED BY <1>11, <2>2, <2>4, <2>5 DEF Settle
<1>12. CASE UnlinkDeleted
  BY <1>12, <1>g DEF UnlinkDeleted, EngineEffect, EngineMoves
<1>13. CASE RecordSuccess
  <2> DEFINE n == store.jobs[CurrentId].attempts + 1
             b == UpdateJob(store, CurrentId, "done", n)
  <2>1. engine.pc = "done"
    BY <1>13 DEF RecordSuccess
  <2>2. CASE BatchFails(b) /\ Goto("complete")
    BY <1>g, <2>1, <2>2 DEF BatchFails, EngineEffect, EngineMoves
  <2>3. CASE Batch(b) /\ NextJob(engine.deferred)
    <3>1. CASE CurrentId \in JobIds(store)
      <4>1. n \in Nat
        BY <1>f, <3>1 DEF IsStore, IsQueue, JobIds, Job
      <4> HIDE DEF n
      <4>2. Holds(b, store.entries, JobUpdate(store, CurrentId, "done", n), store.nextJob, {})
        BY <1>f, <3>1, <4>1, UpdateJobHolds DEF JobUpdate, JobStates
      <4> HIDE DEF b
      <4>3. Result(store.entries, JobUpdate(store, CurrentId, "done", n), store.nextJob, {})
        BY <2>3, <4>2, BatchResult
      <4> QED BY <2>1, <2>3, <3>1, <4>1, <4>3 DEF EngineEffect, EngineRecords
    <3>2. CASE CurrentId \notin JobIds(store)
      <4>1. b = store
        BY <3>2 DEF UpdateJob
      <4> HIDE DEF b
      <4> QED BY <1>f, <2>1, <2>3, <3>2, <4>1, BatchOfStore DEF EngineEffect, EngineRecords
    <3> QED BY <3>1, <3>2
  <2> QED BY <1>13, <2>2, <2>3 DEF RecordSuccess
<1>14. CASE RecordFailure
  <2> DEFINE terminal == Current.attempts + 1 >= MaxAttempts
             s == IF terminal THEN "failed" ELSE "queued"
             sync == FailedEntrySyncState(Current.kind, terminal)
             b == SetFailedEntrySync(FailJob(store, terminal), Current, sync)
             n == Current.attempts + 1
  <2>1. engine.pc = "fail" /\ Left # {} /\ NextJob(DeferJobPaths) /\ (Batch(b) \/ BatchFails(b))
    BY <1>14, <1>l DEF RecordFailure
  <2>2. terminal \in BOOLEAN /\ n \in Nat /\ b = SetFailedEntrySync(UpdateJob(store, CurrentId, s, n), Current, sync)
    BY <1>c, <2>1 DEF FailJob
  <2>3. /\ sync \in SyncStates /\ s \in JobStates
        /\ \/ s = "failed" /\ sync = "error"
           \/ s = "queued" /\ sync = PendingSync(Current.kind)
    <3> HIDE DEF terminal
    <3> QED BY <1>c, <2>1, <2>2, FailedStateTyped DEF JobStates
  <2> HIDE DEF b, s, sync, terminal, n
  <2>4. CASE BatchFails(b)
    BY <2>1, <2>4 DEF BatchFails, EngineEffect, EngineRecords
  <2>5. CASE Batch(b)
    <3>1. OutcomeResult(s, sync)
      BY <1>f, <1>c, <2>1, <2>2, <2>3, <2>5, OutcomeBatch
    <3> QED BY <2>1, <2>3, <3>1 DEF EngineEffect, EngineRecords
  <2> QED BY <2>1, <2>4, <2>5
<1>15. CASE RecordMachineCompletedFailure
  <2> DEFINE m == store.jobs[CurrentId].attempts + 1
             n == IF CurrentId \in JobIds(store) THEN m ELSE 0
             b == FailCompletedJob(store)
  <2>1. engine.pc = "complete" /\ Left # {} /\ NextJob(DeferJobPaths) /\ (Batch(b) \/ BatchFails(b))
    BY <1>15, <1>l DEF RecordMachineCompletedFailure
  <2>2. n \in Nat
    BY <1>f DEF IsStore, IsQueue, JobIds, Job
  <2>3. b = SetFailedEntrySync(UpdateJob(store, CurrentId, "failed", n), Current, "error")
    <3>1. UpdateJob(store, CurrentId, "failed", m) = UpdateJob(store, CurrentId, "failed", n)
      <4> HIDE DEF m
      <4> QED BY DEF UpdateJob
    <3> QED BY <3>1 DEF FailCompletedJob
  <2>4. "failed" \in JobStates /\ "error" \in SyncStates
    BY DEF JobStates, SyncStates
  <2> HIDE DEF b, n, m
  <2>5. CASE BatchFails(b)
    BY <2>1, <2>5 DEF BatchFails, EngineEffect, EngineRecords
  <2>6. CASE Batch(b)
    <3>1. OutcomeResult("failed", "error")
      BY <1>f, <1>c, <2>1, <2>2, <2>3, <2>4, <2>6, OutcomeBatch
    <3> QED BY <2>1, <3>1 DEF EngineEffect, EngineRecords
  <2> QED BY <2>1, <2>5, <2>6
<1> QED BY <1>1, <1>2, <1>3, <1>4, <1>5, <1>6, <1>7, <1>8, <1>9, <1>10, <1>11, <1>12, <1>13, <1>14,
           <1>15 DEF EngineNext

-----------------------------------------------------------------------------
(* Each component leaves alone what is not its own.                         *)

LEMMA EngineScope ==
    ASSUME EngineNext
    PROVE  UNCHANGED commitMu
BY DEF EngineNext, DrainStart, DrainEnd, SkipDeferred, BackOff, SessionBlocked, Unreachable,
       RecordRunning, NoLongerQueued, MarkDeleting, MarkUploading, OpenCacheFile, MachineCall,
       Settle, UnlinkDeleted, RecordSuccess, RecordFailure, RecordMachineCompletedFailure, shared

LEMMA ServiceScope ==
    ASSUME ServiceNext
    PROVE  UNCHANGED <<machine, opMu>>
BY DEF ServiceNext, Upload, ReplaceCacheFile, CommitReplacement, Delete, DiscardLocal, Fetch,
       EnqueueDelete, DiscardBatch, DiscardJobsBatch, UnlinkDiscarded, Rename, EnqueueRemoteRename,
       RenameLocalUpload, Retry, Download, InstallFetched, CommitFetch, PruneJobs, PruneCache,
       PruneCacheRemove, shared

LEMMA SweepScope ==
    ASSUME ReconcilerNext
    PROVE  UNCHANGED <<cache, machine, commitMu>>
BY DEF ReconcilerNext, List, DeepCheck, Apply, DeepCheckEnd, ReadCatalog, ApplyEnd, ValidateStart,
       ValidateList, shared

\* Calls keep their operation until they return.
LEMMA BecomeOps ==
    ASSUME ClientTypeOK, OpsInv, NEW c \in Clients, NEW rec, Become(c, rec), CallOpOK(rec),
           UNCHANGED scene
    PROVE  OpsInv'
<1>1. \A k \in Clients : client'[k] = IF k = c THEN rec ELSE client[k]
  BY DEF ClientTypeOK, Become
<1>2. Ops' = Ops
  BY DEF Ops, Here
<1>3. \A k \in Clients : CallOpOK(client'[k])
  BY <1>1 DEF OpsInv
<1> QED BY <1>2, <1>3 DEF OpsInv, CallOpOK

LEMMA ServiceKeepsOps ==
    ASSUME ServiceShape, OpsInv, ServiceNext, UNCHANGED scene
    PROVE  OpsInv'
<1>0. PICK c \in Clients :
        \/ \E p \in Paths, v \in Contents, op \in {"upload", "range"} : Upload(c, p, v, op)
        \/ ReplaceCacheFile(c) \/ CommitReplacement(c)
        \/ \E p \in Paths : Delete(c, p) \/ DiscardLocal(c, p) \/ Fetch(c, p)
        \/ EnqueueDelete(c) \/ DiscardBatch(c) \/ DiscardJobsBatch(c) \/ UnlinkDiscarded(c)
        \/ \E p, dest \in Paths : Rename(c, p, dest)
        \/ EnqueueRemoteRename(c) \/ RenameLocalUpload(c)
        \/ \E id \in JobIds(store) : Retry(c, id)
        \/ Download(c) \/ InstallFetched(c) \/ CommitFetch(c)
        \/ PruneJobs(c) \/ PruneCache(c) \/ PruneCacheRemove(c)
  BY DEF ServiceNext
<1>f. /\ ClientTypeOK /\ client[c] \in CallRecords /\ CallOpOK(client[c]) /\ ClientIdle \in CallRecords
  BY CallerFacts, IdleCallOK DEF ServiceShape, OpsInv
<1>i. CallOpOK(ClientIdle)
  BY DEF CallOpOK, ClientIdle
<1>r. Return(c) => OpsInv'
  BY <1>f, <1>i, BecomeOps DEF Return
<1>u. UNCHANGED client => OpsInv'
  BY DEF OpsInv, CallOpOK, Ops, Here
<1>b. ASSUME NEW rec, Become(c, rec), CallOpOK(rec) PROVE OpsInv'
  BY <1>f, <1>b, BecomeOps
<1>1. ASSUME NEW p \in Paths, NEW v \in Contents, NEW op \in {"upload", "range"}, Upload(c, p, v, op)
      PROVE  OpsInv'
  <2> DEFINE rec == [[ClientIdle EXCEPT !.op = op, !.path = p, !.val = v]
                        EXCEPT !.pc = "replace", !.backup = cache[p]]
  <2>1. Become(c, rec) /\ op \in Ops
    BY <1>1 DEF Upload, BackupCacheTarget, Call
  <2>2. CallOpOK(rec)
    BY <2>1 DEF CallOpOK, ClientIdle
  <2> HIDE DEF rec
  <2> QED BY <2>1, <2>2, <1>b
<1>2. CASE ReplaceCacheFile(c)
  <2> DEFINE rec == [client[c] EXCEPT !.pc = "commit"]
  <2>1. CallOpOK(rec)
    BY <1>2, <1>f DEF CallOpOK, ReplaceCacheFile, CallRecords
  <2>2. Become(c, rec) \/ Return(c)
    BY <1>2 DEF ReplaceCacheFile, ReturnAndForget
  <2> HIDE DEF rec
  <2> QED BY <2>1, <2>2, <1>b, <1>r
<1>3. CASE CommitReplacement(c) \/ EnqueueDelete(c) \/ UnlinkDiscarded(c) \/ EnqueueRemoteRename(c)
           \/ CommitFetch(c) \/ PruneCacheRemove(c)
  BY <1>3, <1>r DEF CommitReplacement, EnqueueDelete, UnlinkDiscarded, EnqueueRemoteRename,
                    CommitFetch, PruneCacheRemove
<1>4. ASSUME NEW p \in Paths, Delete(c, p) PROVE OpsInv'
  <2> DEFINE pc == IF ShouldDiscardLocalEntry(p) THEN "discard" ELSE "enqueueDelete"
             rec == [ClientIdle EXCEPT !.op = "delete", !.path = p, !.pc = pc]
  <2>1. Become(c, rec) /\ "delete" \in Ops /\ pc \in {"discard", "enqueueDelete"}
    BY <1>4 DEF Delete, Call
  <2> HIDE DEF pc
  <2>2. CallOpOK(rec)
    BY <2>1 DEF CallOpOK, ClientIdle
  <2> HIDE DEF rec
  <2> QED BY <2>1, <2>2, <1>b
<1>5. ASSUME NEW p \in Paths, DiscardLocal(c, p) PROVE OpsInv'
  <2> DEFINE pc == IF HasEntry(store, p) THEN "discard" ELSE "dropJobs"
             rec == [ClientIdle EXCEPT !.op = "discard", !.path = p, !.pc = pc]
  <2>1. Become(c, rec) /\ "discard" \in Ops /\ pc \in {"discard", "dropJobs"}
    BY <1>5 DEF DiscardLocal, Call
  <2> HIDE DEF pc
  <2>2. CallOpOK(rec)
    BY <2>1 DEF CallOpOK, ClientIdle
  <2> HIDE DEF rec
  <2> QED BY <2>1, <2>2, <1>b
<1>6. ASSUME NEW p \in Paths, Fetch(c, p) PROVE OpsInv'
  <2> DEFINE rec == [ClientIdle EXCEPT !.op = "fetch", !.path = p, !.pc = "download"]
  <2>1. Become(c, rec) /\ "fetch" \in Ops
    BY <1>6 DEF Fetch, Call
  <2>2. CallOpOK(rec)
    BY <2>1 DEF CallOpOK, ClientIdle
  <2> HIDE DEF rec
  <2> QED BY <2>1, <2>2, <1>b
<1>7. CASE DiscardBatch(c) \/ DiscardJobsBatch(c)
  <2>1. ASSUME NEW files PROVE CallOpOK([client[c] EXCEPT !.pc = "unlink", !.files = files])
    BY <1>7, <1>f DEF CallOpOK, DiscardBatch, DiscardJobsBatch, CallRecords
  <2>2. Return(c) \/ \E files : Become(c, [client[c] EXCEPT !.pc = "unlink", !.files = files])
    BY <1>7 DEF DiscardBatch, DiscardJobsBatch
  <2> QED BY <2>1, <2>2, <1>b, <1>r
<1>8. ASSUME NEW p \in Paths, NEW dest \in Paths, Rename(c, p, dest) PROVE OpsInv'
  <2> DEFINE pc == IF CanRenameLocalUpload(p) THEN "moveLocal" ELSE "moveRemote"
             rec == [ClientIdle EXCEPT !.op = "rename", !.path = p, !.dest = dest, !.pc = pc]
  <2>1. Become(c, rec) /\ "rename" \in Ops /\ pc \in {"moveLocal", "moveRemote"}
    BY <1>8 DEF Rename, Call
  <2> HIDE DEF pc
  <2>2. CallOpOK(rec)
    BY <2>1 DEF CallOpOK, ClientIdle
  <2> HIDE DEF rec
  <2> QED BY <2>1, <2>2, <1>b
<1>9. CASE RenameLocalUpload(c)
  <2> DEFINE e == store.entries[client[c].path]
             rec == [client[c] EXCEPT !.entry = e, !.source = e.cachePath]
             there == [client[c] EXCEPT !.pc = "moveRemote"]
             back == [rec EXCEPT !.pc = "replace", !.backup = cache[client[c].dest]]
             here == [rec EXCEPT !.pc = "commit"]
  <2>1. Return(c) \/ Become(c, there) \/ Become(c, back) \/ Become(c, here)
    BY <1>9 DEF RenameLocalUpload, BackupCacheTarget
  <2>2. client[c].pc = "moveLocal"
    BY <1>9 DEF RenameLocalUpload
  <2>3. CallOpOK(there) /\ CallOpOK(back) /\ CallOpOK(here)
    <3> HIDE DEF e
    <3> QED BY <1>f, <2>2 DEF CallOpOK, CallRecords
  <2> HIDE DEF there, back, here
  <2> QED BY <2>1, <2>3, <1>b, <1>r
<1>10. CASE (\E id \in JobIds(store) : Retry(c, id)) \/ PruneJobs(c)
  BY <1>10, <1>u DEF Retry, PruneJobs
<1>11. CASE Download(c)
  <2> DEFINE rec == [client[c] EXCEPT !.pc = "install", !.val = machine[client[c].path]]
  <2>1. CallOpOK(rec)
    BY <1>11, <1>f DEF CallOpOK, Download, CallRecords
  <2>2. Become(c, rec) \/ Return(c)
    BY <1>11 DEF Download, ReturnAndForget
  <2> HIDE DEF rec
  <2> QED BY <2>1, <2>2, <1>b, <1>r
<1>12. CASE InstallFetched(c)
  <2> DEFINE rec == [client[c] EXCEPT !.pc = "replace", !.backup = cache[client[c].path]]
  <2>1. CallOpOK(rec)
    BY <1>12, <1>f DEF CallOpOK, InstallFetched, CallRecords
  <2>2. Become(c, rec)
    BY <1>12 DEF InstallFetched, BackupCacheTarget
  <2> HIDE DEF rec
  <2> QED BY <2>1, <2>2, <1>b
<1>13. CASE PruneCache(c)
  <2>1. ASSUME NEW files PROVE CallOpOK([ClientIdle EXCEPT !.op = "prune", !.pc = "sweep", !.files = files])
    BY <1>13 DEF CallOpOK, PruneCache, Call, ClientIdle
  <2>2. \E files : Become(c, [ClientIdle EXCEPT !.op = "prune", !.pc = "sweep", !.files = files])
    BY <1>13 DEF PruneCache
  <2> QED BY <2>1, <2>2, <1>b
<1> QED BY <1>0, <1>1, <1>2, <1>3, <1>4, <1>5, <1>6, <1>7, <1>8, <1>9, <1>10, <1>11, <1>12, <1>13

-----------------------------------------------------------------------------
(* Whoever writes an entry, the sweeps that have seen the old one know.     *)

LEMMA ResultNoticed ==
    ASSUME StoreShape, NEW entries, NEW jobs, NEW n, NEW ps, Result(entries, jobs, n, ps),
           \A p \in Paths : p \notin ps => entries[p] = store.entries[p]
    PROVE  Noticed
<1>1. fresh \in [Readers -> SUBSET Paths] /\ \A s \in Sweepers : s \in Readers
  BY DEF StoreShape, Readers
<1>2. \A s \in Sweepers : fresh'[s] = fresh[s] \ ps
  BY <1>1 DEF Result
<1>3. store'.entries = entries
  BY DEF Result
<1> QED BY <1>1, <1>2, <1>3 DEF Noticed

LEMMA KeptNoticed ==
    ASSUME UNCHANGED <<store, fresh>> \/ StoreKept
    PROVE  Noticed
BY DEF Noticed, StoreKept

LEMMA ServiceNoticed ==
    ASSUME StoreShape, ServiceEffect
    PROVE  Noticed
<1>e. store.entries \in [Paths -> Entry]
  BY DEF StoreShape, GoodStore, IsStore
<1>1. CASE StoreKept
  BY <1>1, KeptNoticed
<1>2. ASSUME NEW p, NEW e, Uploaded(p, e) \/ RangeWritten(p, e) PROVE Noticed
  BY <1>e, <1>2, ResultNoticed DEF Uploaded, RangeWritten
<1>3. ASSUME NEW p, NEW q, NEW e, MovedLocally(p, q, e) PROVE Noticed
  <2> DEFINE entries == [[store.entries EXCEPT ![p] = NoEntry] EXCEPT ![q] = e]
  <2>1. \A r \in Paths : r \notin {p, q} => entries[r] = store.entries[r]
    BY <1>e
  <2>2. \E jobs, n : Result(entries, jobs, n, {p, q})
    BY <1>3 DEF MovedLocally
  <2> HIDE DEF entries
  <2> QED BY <2>1, <2>2, ResultNoticed
<1>4. ASSUME NEW p, NEW f, NEW jobs, NEW n, Result([store.entries EXCEPT ![p] = f], jobs, n, {p})
      PROVE  Noticed
  BY <1>e, <1>4, ResultNoticed
<1>5. ASSUME NEW p, NEW s, NEW jobs, NEW n, Result([store.entries EXCEPT ![p].sync = s], jobs, n, {p})
      PROVE  Noticed
  BY <1>e, <1>5, ResultNoticed
<1>6. ASSUME NEW jobs, NEW n, Result(store.entries, jobs, n, {}) PROVE Noticed
  BY <1>6, ResultNoticed
<1>7. ASSUME NEW p, DeleteQueued(p) PROVE Noticed
  BY <1>5, <1>7 DEF DeleteQueued
<1>8. ASSUME NEW p, NEW q, RenameQueued(p, q) PROVE Noticed
  BY <1>5, <1>8 DEF RenameQueued
<1>9. ASSUME NEW p, Discarded(p) \/ JobsDropped(p) PROVE Noticed
  BY <1>4, <1>6, <1>9 DEF Discarded, JobsDropped
<1>10. ASSUME NEW id, Retried(id) PROVE Noticed
  BY <1>4, <1>5, <1>6, <1>10 DEF Retried
<1>11. ASSUME NEW p, NEW v, Fetched(p, v) PROVE Noticed
  BY <1>4, <1>11 DEF Fetched
<1>12. ASSUME NEW ids, Pruned(ids) PROVE Noticed
  BY <1>6, <1>12 DEF Pruned
<1> QED BY <1>1, <1>2, <1>3, <1>7, <1>8, <1>9, <1>10, <1>11, <1>12 DEF ServiceEffect

LEMMA SettledNoticed ==
    ASSUME StoreShape, NEW j \in Job, NEW b, SettledAs(store, j, b), Batch(b)
    PROVE  Noticed
<1>e. store.entries \in [Paths -> Entry] /\ store.written = {}
  BY DEF StoreShape, GoodStore, IsStore
<1>1. ASSUME NEW entries, NEW ps, Holds(b, entries, store.jobs, store.nextJob, ps),
             \A p \in Paths : p \notin ps => entries[p] = store.entries[p]
      PROVE  Noticed
  BY <1>1, BatchResult, ResultNoticed
<1>2. CASE j.kind = "upload" /\ Marked(store, b, j.path, "synced")
  <2> DEFINE entries == [store.entries EXCEPT ![j.path].sync = "synced"]
  <2>1. \A p \in Paths : p \notin store.written \cup {j.path} => entries[p] = store.entries[p]
    BY <1>e
  <2>2. Holds(b, entries, store.jobs, store.nextJob, store.written \cup {j.path})
    BY <1>2 DEF Marked
  <2> HIDE DEF entries
  <2> QED BY <1>1, <2>1, <2>2
<1>3. CASE Holds(b, [store.entries EXCEPT ![j.path] = NoEntry], store.jobs, store.nextJob,
                 store.written \cup {j.path})
  <2> DEFINE entries == [store.entries EXCEPT ![j.path] = NoEntry]
  <2>1. \A p \in Paths : p \notin store.written \cup {j.path} => entries[p] = store.entries[p]
    BY <1>e
  <2>2. Holds(b, entries, store.jobs, store.nextJob, store.written \cup {j.path})
    BY <1>3
  <2> HIDE DEF entries
  <2> QED BY <1>1, <2>1, <2>2
<1>4. ASSUME NEW e, Holds(b, [[store.entries EXCEPT ![j.dest] = e] EXCEPT ![j.path] = NoEntry],
                 store.jobs, store.nextJob, (store.written \cup {j.dest}) \cup {j.path})
      PROVE  Noticed
  <2> DEFINE entries == [[store.entries EXCEPT ![j.dest] = e] EXCEPT ![j.path] = NoEntry]
             ps == (store.written \cup {j.dest}) \cup {j.path}
  <2>1. \A p \in Paths : p \notin ps => entries[p] = store.entries[p]
    BY <1>e
  <2>2. Holds(b, entries, store.jobs, store.nextJob, ps)
    BY <1>4
  <2> HIDE DEF entries, ps
  <2> QED BY <1>1, <2>1, <2>2
<1>5. CASE b = store
  BY <1>5, BatchOfStore, KeptNoticed
<1> QED BY <1>2, <1>3, <1>4, <1>5 DEF SettledAs

LEMMA OutcomeNoticed ==
    ASSUME StoreShape, NEW s, NEW sync, OutcomeResult(s, sync)
    PROVE  Noticed
<1>e. store.entries \in [Paths -> Entry] /\ fresh \in [Readers -> SUBSET Paths]
      /\ \A r \in Sweepers : r \in Readers
  BY DEF StoreShape, GoodStore, IsStore, Readers
<1>1. \A q \in Paths : q \notin {Current.path} =>
          [store.entries EXCEPT ![Current.path].sync = sync][q] = store.entries[q]
  BY <1>e
<1>2. \/ /\ store'.entries = [store.entries EXCEPT ![Current.path].sync = sync]
         /\ fresh' = [r \in Readers |-> fresh[r] \ {Current.path}]
      \/ store'.entries = store.entries /\ fresh' = [r \in Readers |-> fresh[r] \ {}]
  BY DEF OutcomeResult
<1> QED BY <1>e, <1>1, <1>2 DEF Noticed

LEMMA EngineNoticed ==
    ASSUME StoreShape, EngineShape, EngineEffect
    PROVE  Noticed
<1>e. store.entries \in [Paths -> Entry]
  BY DEF StoreShape, GoodStore, IsStore
<1>1. ASSUME NEW jobs, NEW n, Result(store.entries, jobs, n, {}) PROVE Noticed
  BY <1>1, ResultNoticed
<1>2. ASSUME NEW p, NEW s, NEW jobs, NEW n, Result([store.entries EXCEPT ![p].sync = s], jobs, n, {p})
      PROVE  Noticed
  BY <1>e, <1>2, ResultNoticed
<1>3. CASE UNCHANGED <<store, fresh>>
  BY <1>3, KeptNoticed
<1>4. CASE EngineStarts \/ EngineMarks
  BY <1>1, <1>2, <1>4 DEF EngineStarts, EngineMarks
<1>5. CASE EngineSettles
  BY <1>5, CurrentFacts, SettledNoticed DEF EngineSettles, EngineShape, EngineOK
<1>6. CASE EngineRecords
  BY <1>1, <1>3, <1>6, OutcomeNoticed DEF EngineRecords
<1> QED BY <1>3, <1>4, <1>5, <1>6 DEF EngineEffect

-----------------------------------------------------------------------------
(* Stop and start.                                                          *)

PreparedShape(e, f) ==
    /\ f \in Entry
    /\ f.sync = e.sync \/ (e.sync = "synced" /\ f.sync = "remote_only")
    /\ f.sync = "remote_only" => f.cacheState = "none"
    /\ f.sync = "synced" => f.cacheState = "validating"

LEMMA PreparedEntryShape ==
    ASSUME NEW e \in Entry
    PROVE  PreparedShape(e, PreparedEntry(e))
<1>u. ASSUME NEW s \in SyncStates
      PROVE  /\ Uncached(e, s) \in Entry /\ Uncached(e, s).sync = s
             /\ Uncached(e, s).cacheState = "none"
  BY DEF Uncached, Entry, CacheStates
<1>v. ASSUME NEW c \in CacheStates
      PROVE  /\ [e EXCEPT !.cacheState = c] \in Entry /\ [e EXCEPT !.cacheState = c].sync = e.sync
             /\ [e EXCEPT !.cacheState = c].cacheState = c
  BY DEF Entry
<1>1. CASE e.sync = "absent"
  BY <1>1 DEF PreparedEntry, PreparedShape
<1>2. CASE e.sync = "remote_only"
  BY <1>2, <1>u DEF PreparedEntry, PreparedShape, SyncStates
<1>3. CASE e.sync = "synced"
  BY <1>3, <1>u, <1>v DEF PreparedEntry, PreparedShape, SyncStates, CacheStates
<1>4. CASE e.sync \notin {"absent", "remote_only", "synced"}
  BY <1>4, <1>v DEF PreparedEntry, PreparedShape, CacheStates
<1> QED BY <1>1, <1>2, <1>3, <1>4

\* What the restarted proxy finds: the same jobs, none of them running.
Recovered ==
    /\ JobIds(store') = JobIds(store) /\ store'.nextJob = store.nextJob
    /\ \A i \in JobIds(store) :
           /\ SameTask(store'.jobs[i], store.jobs[i])
           /\ store'.jobs[i].state = IF store.jobs[i].state = "running" THEN "failed"
                                     ELSE store.jobs[i].state
    /\ \A p \in Paths : PreparedShape(store.entries[p], store'.entries[p])

LEMMA CrashEffect ==
    ASSUME StoreShape, CacheTyped, Crash
    PROVE  StoreShape' /\ CacheTyped' /\ Recovered
<1> DEFINE entries == [p \in Paths |-> PreparedEntry(store.entries[p])]
           jobs == [i \in JobIds(store) |->
                       IF store.jobs[i].state = "running"
                       THEN [store.jobs[i] EXCEPT !.state = "failed"] ELSE store.jobs[i]]
<1>1. /\ IsStore(store) /\ store.written = {} /\ store.entries \in [Paths -> Entry]
      /\ \A i \in JobIds(store) : store.jobs[i] \in Job /\ JobOK(store.jobs[i])
      /\ JobIds(store) \subseteq Nat \ {0} /\ \A i \in JobIds(store) : i < store.nextJob
  BY DEF StoreShape, GoodStore, IsStore, IsQueue, JobIds
<1>2. entries \in [Paths -> Entry] /\ \A p \in Paths : PreparedShape(store.entries[p], entries[p])
  BY <1>1, PreparedEntryShape DEF PreparedShape
<1>3. \A i \in JobIds(store) :
          /\ jobs[i] \in Job /\ JobOK(jobs[i]) /\ SameTask(jobs[i], store.jobs[i])
          /\ jobs[i].state = IF store.jobs[i].state = "running" THEN "failed" ELSE store.jobs[i].state
  BY <1>1 DEF Job, JobStates, JobOK, SameTask
<1>4. DOMAIN jobs = JobIds(store)
  OBVIOUS
<1>5. store' = [[store EXCEPT !.entries = entries] EXCEPT !.jobs = jobs]
  BY <1>1 DEF Crash, RecoverInterruptedJobs, JobIds, IsStore
<1> HIDE DEF entries, jobs
<1>6. store'.entries = entries /\ store'.jobs = jobs /\ store'.nextJob = store.nextJob
      /\ store'.written = {} /\ store' = [entries |-> entries, jobs |-> jobs,
                                          nextJob |-> store.nextJob, written |-> {}]
  BY <1>1, <1>5 DEF IsStore
<1>7. IsQueue(jobs)
  <2>1. jobs \in [DOMAIN jobs -> Job]
    BY <1>3, <1>4 DEF jobs
  <2> QED BY <1>1, <1>4, <2>1 DEF IsQueue
<1>8. IsStore(store')
  BY <1>1, <1>2, <1>4, <1>6, <1>7 DEF IsStore
<1>9. GoodStore(store')
  BY <1>3, <1>4, <1>6, <1>8 DEF GoodStore, JobIds
<1>10. fresh' \in [Readers -> SUBSET Paths]
  BY DEF Crash
<1>11. CacheTyped'
  BY DEF Crash, CacheTyped, Files
<1>12. Recovered
  BY <1>2, <1>3, <1>4, <1>6 DEF Recovered, JobIds
<1> QED BY <1>6, <1>9, <1>10, <1>11, <1>12 DEF StoreShape

-----------------------------------------------------------------------------
(* BaseInv: types, with what each line may rely on, for all components.     *)

BaseInv ==
    /\ scene \in DOMAIN Scenes
    /\ StoreShape /\ CacheTyped /\ MachineTyped /\ OpMuTyped /\ LockTyped
    /\ EngineShape
    /\ ClientTypeOK /\ CallsOK /\ OpsInv
    /\ SweepShape /\ FreshInv

LEMMA BaseShapes ==
    ASSUME BaseInv
    PROVE  ServiceShape /\ SyncShape
BY DEF BaseInv, ServiceShape, SyncShape

LEMMA BaseInit ==
    ASSUME Init
    PROVE  BaseInv
<1>1. store = EmptyStore /\ scene \in DOMAIN Scenes /\ cache = [p \in Paths |-> None]
      /\ machine = [p \in Paths |-> None] /\ opMu = "free" /\ commitMu = "free"
      /\ fresh = [r \in Readers |-> {}] /\ engine = EngineIdle
      /\ client = [c \in Clients |-> ClientIdle] /\ sweeper = [s \in Sweepers |-> SweeperIdle]
  BY DEF Init, SharedInit
<1>2. StoreShape
  <2>1. NoEntry \in Entry
    BY DEF NoEntry, Entry, CacheStates
  <2>2. DOMAIN <<>> = {} /\ IsQueue(<<>>)
    BY DEF IsQueue
  <2>3. GoodStore(store) /\ store.written = {}
    BY <1>1, <2>1, <2>2 DEF EmptyStore, IsStore, GoodStore, JobIds
  <2> QED BY <1>1, <2>3 DEF StoreShape
<1>3. CacheTyped /\ MachineTyped /\ OpMuTyped /\ LockTyped
  BY <1>1 DEF CacheTyped, MachineTyped, OpMuTyped, LockTyped, Files
<1>4. EngineShape
  BY <1>1 DEF EngineIdle, EngineShape, EngineTypeOK, EngineOK, QueueOK, Left, IsQueue, Files
<1>5. ClientTypeOK /\ CallsOK /\ OpsInv
  BY <1>1, IdleCallOK DEF ClientTypeOK, CallRecords, CallsOK, OpsInv, CallOpOK, ClientIdle
<1>6. SweepShape
  BY <1>1, IdleSweepOK DEF SweepShape, SweeperTypeOK, SweepRecords, SweepsOK, SweeperIdle
<1>7. FreshInv
  BY <1>1 DEF FreshInv, Readers
<1> QED BY <1>1, <1>2, <1>3, <1>4, <1>5, <1>6, <1>7 DEF BaseInv

LEMMA BaseStep ==
    ASSUME BaseInv, [Next]_vars
    PROVE  BaseInv'
<1>f. ServiceShape /\ SyncShape
  BY BaseShapes
<1>o. UNCHANGED <<scene, client>> => OpsInv'
  BY DEF BaseInv, OpsInv, CallOpOK, Ops, Here
<1>1. CASE UNCHANGED vars
  BY <1>1, <1>o DEF vars, BaseInv, StoreShape, GoodStore, CacheTyped, MachineTyped, OpMuTyped, LockTyped,
       EngineShape, EngineTypeOK, EngineOK, QueueOK, Left, Current, CurrentId, ClientTypeOK, CallsOK,
       SweepShape, SweeperTypeOK, SweepsOK, FreshInv
<1>2. CASE Next
  <2>s. UNCHANGED scene /\ scene' \in DOMAIN Scenes
    BY <1>2 DEF Next, BaseInv
  <2>1. CASE EngineNext /\ UNCHANGED <<client, sweeper>>
    <3>1. SyncShape'
      BY <1>f, <2>1, EngineKeepsShape
    <3>2. FreshInv'
      BY <1>f, <2>1, EngineStepEffect, EngineNoticed, NoticedKeepsFresh DEF SyncShape, BaseInv
    <3>3. LockTyped' /\ OpsInv' /\ ClientTypeOK' /\ CallsOK' /\ SweepShape'
      BY <2>1, <2>s, <1>o, EngineScope DEF BaseInv, LockTyped, ClientTypeOK, CallsOK, SweepShape,
                                           SweeperTypeOK, SweepsOK
    <3> QED BY <2>s, <3>1, <3>2, <3>3 DEF BaseInv, SyncShape
  <2>2. CASE ServiceNext /\ UNCHANGED <<engine, sweeper>>
    <3>1. ServiceShape'
      BY <1>f, <2>2, ServiceKeepsShape DEF BaseInv
    <3>2. FreshInv'
      BY <1>f, <2>2, ServiceStepEffect, ServiceNoticed, NoticedKeepsFresh DEF ServiceShape, BaseInv
    <3>3. OpsInv'
      BY <1>f, <2>2, <2>s, ServiceKeepsOps DEF BaseInv
    <3>4. MachineTyped' /\ OpMuTyped' /\ EngineShape' /\ SweepShape'
      BY <2>2, ServiceScope DEF BaseInv, MachineTyped, OpMuTyped, EngineShape, EngineTypeOK, EngineOK,
              QueueOK, Left, Current, CurrentId, SweepShape, SweeperTypeOK, SweepsOK
    <3> QED BY <2>s, <3>1, <3>2, <3>3, <3>4 DEF BaseInv, ServiceShape
  <2>3. CASE ReconcilerNext /\ UNCHANGED <<engine, client>>
    <3>1. StoreShape' /\ OpMuTyped' /\ SweepShape' /\ FreshInv'
      BY <2>3, SweepKeepsShape DEF BaseInv
    <3>2. CacheTyped' /\ MachineTyped' /\ LockTyped'
      BY <2>3, SweepScope DEF BaseInv, CacheTyped, MachineTyped, LockTyped
    <3>3. EngineShape' /\ ClientTypeOK' /\ CallsOK'
      BY <2>3 DEF BaseInv, EngineShape, EngineTypeOK, EngineOK, QueueOK, Left, Current, CurrentId,
              ClientTypeOK, CallsOK
    <3>4. OpsInv'
      BY <1>o, <2>3, <2>s
    <3> QED BY <2>s, <3>1, <3>2, <3>3, <3>4 DEF BaseInv
  <2>4. CASE Crash
    <3>1. StoreShape' /\ CacheTyped'
      BY <2>4, CrashEffect DEF BaseInv
    <3>2. opMu' = "free" /\ commitMu' = "free" /\ fresh' = [r \in Readers |-> {}]
          /\ engine' = EngineIdle /\ client' = [c \in Clients |-> ClientIdle]
          /\ sweeper' = [s \in Sweepers |-> SweeperIdle] /\ UNCHANGED machine
      BY <2>4 DEF Crash
    <3>3. MachineTyped' /\ OpMuTyped' /\ LockTyped'
      BY <3>2 DEF BaseInv, MachineTyped, OpMuTyped, LockTyped
    <3>4. EngineShape'
      BY <3>2, IdleEngineShape
    <3>5. ClientTypeOK' /\ CallsOK' /\ OpsInv'
      BY <3>2, IdleCallOK DEF ClientTypeOK, CallRecords, CallsOK, OpsInv, CallOpOK, ClientIdle
    <3>6. SweepShape'
      BY <3>2, IdleSweepOK DEF SweepShape, SweeperTypeOK, SweepRecords, SweepsOK, SweeperIdle
    <3>7. FreshInv'
      BY <3>2 DEF FreshInv, Readers
    <3> QED BY <2>s, <3>1, <3>3, <3>4, <3>5, <3>6, <3>7 DEF BaseInv
  <2>5. ASSUME NEW p \in Paths, NEW v \in Contents \cup {None}, ControllerWrites(p, v)
        PROVE  BaseInv'
    <3>1. MachineTyped' /\ UNCHANGED <<store, cache, opMu, commitMu, fresh, engine, client, sweeper>>
      BY <2>5 DEF ControllerWrites, BaseInv, MachineTyped, Files
    <3> QED BY <2>s, <3>1, <1>o DEF BaseInv, StoreShape, GoodStore, CacheTyped, OpMuTyped, LockTyped,
               EngineShape, EngineTypeOK, EngineOK, QueueOK, Left, Current, CurrentId, ClientTypeOK,
               CallsOK, SweepShape, SweeperTypeOK, SweepsOK, FreshInv
  <2> QED BY <1>2, <2>1, <2>2, <2>3, <2>4, <2>5 DEF Next, Steps
<1> QED BY <1>1, <1>2

\* The invariant behind every theorem below.
THEOREM SpecBase == Spec => []BaseInv
<1>1. Init => BaseInv
  BY BaseInit
<1>2. BaseInv /\ [Next]_vars => BaseInv'
  BY BaseStep
<1> QED BY <1>1, <1>2, PTL DEF Spec

\* The engine, the callers and the sweeps keep the store, the cache and their
\* own locals in the shapes that store.go, engine.go, service.go and
\* reconcile.go give them, whatever order their steps come in.
THEOREM FileSyncTyped == Spec => []TypeOK
<1>1. BaseInv => TypeOK
  BY DEF BaseInv, StoreShape, GoodStore, CacheTyped, MachineTyped, OpMuTyped, LockTyped, EngineShape,
         SweepShape, TypeOK, SharedTypeOK
<1> QED BY <1>1, SpecBase, PTL

-----------------------------------------------------------------------------
(* The job that runs.  The store knows it as long as runJob may still have  *)
(* something to record for the machine.                                     *)

AtWork == engine.pc \in ExecutePCs \cup {"done", "complete"}

CurrentRuns == CurrentId \in JobIds(store) /\ store.jobs[CurrentId].state = "running"

RunInv == RunningIsCurrentOnDisk /\ (AtWork => CurrentRuns)

\* Entries on the machine alone have no copy to serve.
RemoteInv == \A p \in Paths : store.entries[p].sync = "remote_only" => store.entries[p].cacheState = "none"

LEMMA JobUpdateAt ==
    ASSUME NEW b, IsStore(b), NEW id \in JobIds(b), NEW s, NEW n
    PROVE  /\ DOMAIN JobUpdate(b, id, s, n) = JobIds(b)
           /\ SameTask(JobUpdate(b, id, s, n)[id], b.jobs[id]) /\ JobUpdate(b, id, s, n)[id].state = s
           /\ \A i \in JobIds(b) : i # id => JobUpdate(b, id, s, n)[i] = b.jobs[i]
<1>1. b.jobs \in [JobIds(b) -> Job] /\ b.jobs[id] \in Job
  BY DEF IsStore, IsQueue, JobIds
<1> DEFINE k == [b.jobs[id] EXCEPT !.state = s, !.attempts = n]
<1>2. SameTask(k, b.jobs[id]) /\ k.state = s
  BY <1>1 DEF SameTask, Job
<1>3. JobUpdate(b, id, s, n) = [b.jobs EXCEPT ![id] = k]
  BY DEF JobUpdate
<1> HIDE DEF k
<1> QED BY <1>1, <1>2, <1>3

\* What the engine does to the queue: it gives the job at hand a new state.
EngineJobs(s) ==
    /\ JobIds(store') = JobIds(store) /\ store'.nextJob = store.nextJob
    /\ \A i \in JobIds(store) :
           /\ SameTask(store'.jobs[i], store.jobs[i])
           /\ IF i = CurrentId THEN store'.jobs[i].state = s ELSE store'.jobs[i] = store.jobs[i]

QueueKept == store'.jobs = store.jobs /\ store'.nextJob = store.nextJob

LEMMA JobUpdateJobs ==
    ASSUME IsStore(store), NEW s, NEW n, CurrentId \in JobIds(store),
           store'.jobs = JobUpdate(store, CurrentId, s, n), store'.nextJob = store.nextJob
    PROVE  EngineJobs(s)
<1>1. \A j : SameTask(j, j)
  BY DEF SameTask
<1> QED BY <1>1, JobUpdateAt DEF EngineJobs, JobIds

LEMMA QueueKeptJobs ==
    ASSUME QueueKept, CurrentId \notin JobIds(store), NEW s
    PROVE  EngineJobs(s)
BY DEF EngineJobs, QueueKept, JobIds, SameTask

LEMMA OutcomeJobs ==
    ASSUME IsStore(store), NEW s, NEW sync, OutcomeResult(s, sync)
    PROVE  EngineJobs(s)
<1>1. CASE CurrentId \in JobIds(store)
  BY <1>1, JobUpdateJobs DEF OutcomeResult
<1>2. CASE CurrentId \notin JobIds(store)
  BY <1>2, QueueKeptJobs DEF OutcomeResult, QueueKept
<1> QED BY <1>1, <1>2

LEMMA SettledKeepsQueue ==
    ASSUME StoreShape, NEW j, NEW b, SettledAs(store, j, b), Batch(b)
    PROVE  QueueKept
<1>1. IsStore(store)
  BY DEF StoreShape, GoodStore
<1>2. \A entries, ps : Holds(b, entries, store.jobs, store.nextJob, ps) => QueueKept
  BY BatchResult DEF Result, QueueKept
<1>3. b = store => QueueKept
  BY BatchOfStore DEF QueueKept
<1> QED BY <1>2, <1>3 DEF SettledAs, Marked

\* The engine's steps by what becomes of the queue.
EngineQueueStep ==
    \/ QueueKept /\ EngineWalks
    \/ /\ QueueKept /\ AtWork
       /\ \E pc \in ExecutePCs \cup OutcomePCs :
              MovedOn(pc) /\ (pc = "fail" => engine.pc \in {"mark", "open", "call"})
    \/ QueueKept /\ MayAttempt /\ MovedOn("fail")
    \/ /\ EngineJobs("running") /\ MayAttempt /\ CanStart(store, CurrentId)
       /\ \E pc \in {"mark", "call"} : MovedOn(pc)
    \/ /\ engine.pc = "done" /\ EngineJobs("done") /\ NextJob(engine.deferred)
    \/ /\ engine.pc \in {"fail", "complete"} /\ NextJob(DeferJobPaths)
       /\ \/ DiskMayFail /\ QueueKept
          \/ EngineJobs("failed")
          \/ engine.pc = "fail" /\ EngineJobs("queued")

LEMMA EngineQueue ==
    ASSUME StoreShape, EngineEffect
    PROVE  EngineQueueStep
<1>s. IsStore(store)
  BY DEF StoreShape, GoodStore
<1>k. UNCHANGED <<store, fresh>> => QueueKept
  BY DEF QueueKept
<1>1. CASE UNCHANGED <<store, fresh>> /\ EngineWalks
  BY <1>1, <1>k DEF EngineQueueStep
<1>2. CASE UNCHANGED <<store, fresh>> /\ EngineMoves
  BY <1>2, <1>k DEF EngineQueueStep, EngineMoves, AtWork, ExecutePCs, OutcomePCs
<1>3. CASE EngineStarts
  <2>1. CurrentId \in JobIds(store)
    BY <1>3 DEF EngineStarts, CanStart
  <2>2. store'.jobs = JobUpdate(store, CurrentId, "running", store.jobs[CurrentId].attempts)
        /\ store'.nextJob = store.nextJob
    BY <1>3 DEF EngineStarts, Result
  <2>3. EngineJobs("running")
    BY <1>s, <2>1, <2>2, JobUpdateJobs
  <2> QED BY <1>3, <2>3 DEF EngineQueueStep, EngineStarts
<1>4. CASE EngineMarks
  BY <1>4 DEF EngineMarks, Result, QueueKept, EngineQueueStep, AtWork, ExecutePCs
<1>5. CASE EngineSettles
  BY <1>5, SettledKeepsQueue DEF EngineSettles, EngineQueueStep, AtWork, ExecutePCs, OutcomePCs
<1>6. CASE EngineRecords
  <2>1. ASSUME engine.pc = "done", NextJob(engine.deferred),
               \/ /\ CurrentId \in JobIds(store)
                  /\ \E n \in Nat : Result(store.entries, JobUpdate(store, CurrentId, "done", n),
                                           store.nextJob, {})
               \/ CurrentId \notin JobIds(store) /\ UNCHANGED <<store, fresh>>
        PROVE  EngineQueueStep
    BY <1>s, <1>k, <2>1, JobUpdateJobs, QueueKeptJobs DEF Result, EngineQueueStep
  <2>2. ASSUME engine.pc \in {"fail", "complete"}, NextJob(DeferJobPaths),
               \/ DiskMayFail /\ UNCHANGED <<store, fresh>>
               \/ OutcomeResult("failed", "error")
               \/ engine.pc = "fail" /\ OutcomeResult("queued", PendingSync(Current.kind))
        PROVE  EngineQueueStep
    BY <1>s, <1>k, <2>2, OutcomeJobs DEF EngineQueueStep
  <2> QED BY <1>6, <2>1, <2>2 DEF EngineRecords
<1> QED BY <1>1, <1>2, <1>3, <1>4, <1>5, <1>6 DEF EngineEffect

LEMMA EngineKeepsRun ==
    ASSUME IsStore(store), EngineShape, EngineShape', RunInv, EngineQueueStep, UNCHANGED scene
    PROVE  RunInv'
<1>d. DiskMayFail' = DiskMayFail
  BY DEF DiskMayFail, Here
<1>m. ASSUME NEW pc, MovedOn(pc)
      PROVE  engine'.pc = pc /\ Left' = Left /\ CurrentId' = CurrentId
  BY <1>m DEF MovedOn, Left, CurrentId
<1>l. Left # {} => CurrentId \in Left
  BY CurrentFacts
<1>r. ASSUME ~DiskMayFail, NEW i \in JobIds(store), store.jobs[i].state = "running"
      PROVE  engine.pc \in ExecutePCs \cup OutcomePCs /\ i \in Left /\ i = CurrentId
  BY <1>r DEF RunInv, RunningIsCurrentOnDisk, RunningIsCurrent
\* No job of the new queue runs.
<1>n. ASSUME ~DiskMayFail => \A i \in JobIds(store') : store'.jobs[i].state # "running",
             engine'.pc \in {"idle", "loop", "fail"}
      PROVE  RunInv'
  BY <1>n, <1>d DEF RunInv, RunningIsCurrentOnDisk, RunningIsCurrent, AtWork, ExecutePCs
<1>x. engine.pc \in {"idle", "loop"} /\ ~DiskMayFail => \A i \in JobIds(store) : store.jobs[i].state # "running"
  BY <1>r DEF ExecutePCs, OutcomePCs
<1>6. ASSUME NEW ps, NextJob(ps) PROVE engine'.pc = "loop"
  BY <1>6 DEF NextJob, EngineShape, EngineTypeOK
<1>1. CASE QueueKept /\ EngineWalks
  <2>1. engine.pc \in {"idle", "loop"} /\ engine'.pc \in {"idle", "loop"}
    BY <1>1, <1>6 DEF EngineWalks, MayAttempt, EngineIdle
  <2> QED BY <1>1, <1>n, <1>x, <2>1 DEF QueueKept, JobIds
<1>2. CASE QueueKept /\ AtWork /\ \E pc \in ExecutePCs \cup OutcomePCs : MovedOn(pc)
  <2>1. PICK pc \in ExecutePCs \cup OutcomePCs : MovedOn(pc)
    BY <1>2
  <2>2. JobIds(store') = JobIds(store) /\ store'.jobs = store.jobs
    BY <1>2 DEF QueueKept, JobIds
  <2>3. AtWork' => CurrentRuns'
    BY <1>2, <1>m, <2>1, <2>2 DEF CurrentRuns, RunInv
  <2>4. RunningIsCurrentOnDisk'
    BY <1>d, <1>m, <1>r, <2>1, <2>2 DEF RunningIsCurrentOnDisk, RunningIsCurrent
  <2> QED BY <2>3, <2>4 DEF RunInv
<1>3. CASE QueueKept /\ MayAttempt /\ MovedOn("fail")
  BY <1>3, <1>m, <1>n, <1>x DEF QueueKept, JobIds, MayAttempt
<1>4. CASE EngineJobs("running") /\ MayAttempt /\ CanStart(store, CurrentId)
           /\ \E pc \in {"mark", "call"} : MovedOn(pc)
  <2>1. PICK pc \in {"mark", "call"} : MovedOn(pc)
    BY <1>4
  <2>2. CurrentId' = CurrentId /\ Left' = Left /\ CurrentId \in Left /\ engine'.pc = pc
    BY <1>4, <1>l, <1>m, <2>1 DEF MayAttempt
  <2>3. CurrentRuns'
    BY <1>4, <2>2 DEF CurrentRuns, EngineJobs, CanStart
  <2>4. RunningIsCurrentOnDisk'
    BY <1>4, <1>d, <1>x, <2>1, <2>2 DEF RunningIsCurrentOnDisk, RunningIsCurrent, EngineJobs, MayAttempt,
                                     ExecutePCs, OutcomePCs
  <2> QED BY <2>3, <2>4 DEF RunInv
<1>5. ASSUME NEW s \in {"done", "failed", "queued"}, EngineJobs(s), engine'.pc = "loop" PROVE RunInv'
  BY <1>5, <1>r, <1>n DEF EngineJobs
<1>7. CASE engine.pc = "done" /\ EngineJobs("done") /\ NextJob(engine.deferred)
  BY <1>5, <1>6, <1>7
<1>8. CASE /\ engine.pc \in {"fail", "complete"} /\ NextJob(DeferJobPaths)
           /\ \/ DiskMayFail /\ QueueKept
              \/ EngineJobs("failed")
              \/ engine.pc = "fail" /\ EngineJobs("queued")
  BY <1>5, <1>6, <1>8, <1>n
<1> QED BY <1>1, <1>2, <1>3, <1>4, <1>7, <1>8 DEF EngineQueueStep

\* What a sweep does: it deals with one entry, or leaves the store alone.
SweepWrites ==
    \E s \in Sweepers, p \in Paths :
        /\ DeepCheck(s, p) \/ Apply(s, p)
        /\ SweepEffect(s, p)

LEMMA SweepCases ==
    ASSUME BaseInv, ReconcilerNext
    PROVE  \/ SweepWrites
           \/ UNCHANGED store /\ \A s \in Sweepers :
                  sweeper'[s].todo # sweeper[s].todo => sweeper'[s].pc # sweeper[s].pc
<1>0. PICK s \in Sweepers :
        \/ \E kind \in SweepKinds : List(s, kind)
        \/ \E p \in Paths : DeepCheck(s, p) \/ Apply(s, p)
        \/ DeepCheckEnd(s) \/ ReadCatalog(s) \/ ApplyEnd(s)
        \/ ValidateStart(s) \/ ValidateList(s)
  BY DEF ReconcilerNext
<1>1. CASE \E p \in Paths : DeepCheck(s, p) \/ Apply(s, p)
  BY <1>1, SweepStepEffect DEF SweepWrites, BaseInv
<1>f. sweeper \in [Sweepers -> SweepRecords]
  BY DEF BaseInv, SweepShape, SweeperTypeOK, SweepRecords
<1>n. ASSUME NEW rec, Now(s, rec), rec.pc # sweeper[s].pc
      PROVE  \A r \in Sweepers : sweeper'[r].todo # sweeper[r].todo => sweeper'[r].pc # sweeper[r].pc
  BY <1>f, <1>n DEF Now
<1>2. ASSUME NEW kind \in SweepKinds, List(s, kind)
      PROVE  UNCHANGED store /\ \A r \in Sweepers :
                  sweeper'[r].todo # sweeper[r].todo => sweeper'[r].pc # sweeper[r].pc
  <2> DEFINE pc == IF kind = "deep" THEN "check" ELSE "read"
             known == IF kind = "deep" THEN store.entries ELSE SweeperIdle.known
             todo == IF kind = "deep" THEN Catalogued ELSE SweeperIdle.todo
             rec == [SweeperIdle EXCEPT !.kind = kind, !.remote = machine, !.pc = pc, !.known = known,
                                        !.todo = todo]
  <2>1. Now(s, rec) /\ sweeper[s].pc = "idle" /\ UNCHANGED store
    BY <1>2 DEF List
  <2>2. rec.pc # "idle"
    <3> HIDE DEF known, todo
    <3> QED BY DEF SweeperIdle
  <2> HIDE DEF rec
  <2> QED BY <1>n, <2>1, <2>2
<1>3. CASE DeepCheckEnd(s)
  <2> DEFINE rec == [sweeper[s] EXCEPT !.pc = "read", !.known = SweeperIdle.known]
  <2>1. (Now(s, rec) \/ Now(s, SweeperIdle)) /\ sweeper[s].pc = "check" /\ UNCHANGED store
    BY <1>3 DEF DeepCheckEnd
  <2>2. rec.pc = "read" /\ SweeperIdle.pc = "idle"
    BY <1>f DEF SweeperIdle, SweepRecords
  <2> HIDE DEF rec
  <2> QED BY <1>n, <2>1, <2>2
<1>4. CASE ReadCatalog(s)
  <2> DEFINE rec == [sweeper[s] EXCEPT !.pc = "apply", !.known = store.entries,
                        !.todo = Catalogued \cup {p \in Paths : sweeper[s].remote[p] # None}]
  <2>1. Now(s, rec) /\ sweeper[s].pc = "read" /\ UNCHANGED store
    BY <1>4 DEF ReadCatalog
  <2>2. rec.pc = "apply"
    BY <1>f DEF SweepRecords
  <2> HIDE DEF rec
  <2> QED BY <1>n, <2>1, <2>2
<1>5. CASE ApplyEnd(s)
  BY <1>5, <1>n DEF ApplyEnd, SweeperIdle
<1>6. CASE ValidateStart(s)
  <2> DEFINE rec == [SweeperIdle EXCEPT !.pc = "list", !.kind = "startup", !.known = store.entries,
                        !.todo = {p \in Paths : AwaitsValidation(store.entries[p])}]
  <2>1. Now(s, rec) /\ sweeper[s].pc = "idle" /\ UNCHANGED store
    BY <1>6 DEF ValidateStart, shared
  <2>2. rec.pc = "list"
    BY DEF SweeperIdle
  <2> HIDE DEF rec
  <2> QED BY <1>n, <2>1, <2>2
<1>7. CASE ValidateList(s)
  <2> DEFINE rec == [sweeper[s] EXCEPT !.pc = "apply", !.remote = machine]
  <2>1. (Now(s, rec) \/ Now(s, SweeperIdle)) /\ sweeper[s].pc = "list" /\ UNCHANGED store
    BY <1>7 DEF ValidateList, shared
  <2>2. rec.pc = "apply" /\ SweeperIdle.pc = "idle"
    BY <1>f DEF SweeperIdle, SweepRecords
  <2> HIDE DEF rec
  <2> QED BY <1>n, <2>1, <2>2
<1> QED BY <1>0, <1>1, <1>2, <1>3, <1>4, <1>5, <1>6, <1>7

\* One entry is another.
EntryWritten(p) ==
    /\ store' = [store EXCEPT !.entries[p] = store'.entries[p]]
    /\ store'.entries = [store.entries EXCEPT ![p] = store'.entries[p]]
    /\ \A q \in Paths : q # p => store'.entries[q] = store.entries[q]

LEMMA SweepWritesOne ==
    ASSUME StoreShape, SweepWrites
    PROVE  \/ UNCHANGED store
           \/ \E s \in Sweepers, p \in Paths :
                  EntryWritten(p) /\ Swept(s, p, store.entries[p], store'.entries[p])
<1>1. store.entries \in [Paths -> Entry] /\ IsStore(store)
  BY DEF StoreShape, GoodStore, IsStore
<1>2. ASSUME NEW p \in Paths, NEW e, store' = [store EXCEPT !.entries[p] = e]
      PROVE  store'.entries = [store.entries EXCEPT ![p] = e]
  BY <1>1, <1>2 DEF IsStore
<1>3. ASSUME NEW s \in Sweepers, NEW p \in Paths, SweepEffect(s, p), ~UNCHANGED store
      PROVE  EntryWritten(p) /\ Swept(s, p, store.entries[p], store'.entries[p])
  <2>1. store' = [store EXCEPT !.entries[p] = store'.entries[p]]
        /\ Swept(s, p, store.entries[p], store'.entries[p])
    BY <1>3 DEF SweepEffect
  <2>2. store'.entries = [store.entries EXCEPT ![p] = store'.entries[p]]
    BY <1>2, <2>1
  <2>3. \A q \in Paths : q # p => store'.entries[q] = store.entries[q]
    BY <1>1, <2>2
  <2> QED BY <2>1, <2>2, <2>3 DEF EntryWritten
<1> QED BY <1>3 DEF SweepWrites

\* A sweep never touches the queue.
LEMMA SweepKeepsQueue ==
    ASSUME BaseInv, ReconcilerNext
    PROVE  QueueKept
<1>1. IsStore(store) /\ StoreShape
  BY DEF BaseInv, StoreShape, GoodStore
<1>2. ASSUME NEW p \in Paths, EntryWritten(p) PROVE QueueKept
  BY <1>1, <1>2 DEF EntryWritten, QueueKept, IsStore
<1>3. UNCHANGED store => QueueKept
  BY DEF QueueKept
<1> QED BY <1>1, <1>2, <1>3, SweepCases, SweepWritesOne

\* Who moves, and what that does to the queue.
QueueStep ==
    \/ EngineQueueStep
    \/ Tidied /\ UNCHANGED engine
    \/ QueueKept /\ UNCHANGED engine
    \/ Recovered /\ engine' = EngineIdle

LEMMA StepOnQueue ==
    ASSUME BaseInv, [Next]_vars
    PROVE  QueueStep
<1>f. ServiceShape /\ SyncShape /\ StoreShape /\ IsStore(store)
  BY BaseShapes DEF BaseInv, StoreShape, GoodStore
<1>k. UNCHANGED store => QueueKept
  BY DEF QueueKept
<1>1. CASE UNCHANGED vars
  BY <1>1, <1>k DEF vars, QueueStep
<1>2. CASE EngineNext
  BY <1>f, <1>2, EngineStepEffect, EngineQueue DEF QueueStep
<1>3. CASE ServiceNext /\ UNCHANGED <<engine, sweeper>>
  BY <1>f, <1>3, ServiceStepEffect, ServiceTidies DEF QueueStep, BaseInv
<1>4. CASE ReconcilerNext /\ UNCHANGED <<engine, client>>
  BY <1>4, SweepKeepsQueue DEF QueueStep
<1>5. CASE Crash
  BY <1>5, CrashEffect DEF QueueStep, BaseInv, Crash
<1>6. ASSUME NEW p \in Paths, NEW v \in Contents \cup {None}, ControllerWrites(p, v) PROVE QueueStep
  BY <1>6, <1>k DEF ControllerWrites, QueueStep
<1> QED BY <1>1, <1>2, <1>3, <1>4, <1>5, <1>6 DEF Next, Steps

LEMMA RunStep ==
    ASSUME BaseInv, BaseInv', RunInv, [Next]_vars
    PROVE  RunInv'
<1>s. UNCHANGED scene
  BY DEF Next, vars
<1>d. DiskMayFail' = DiskMayFail
  BY <1>s DEF DiskMayFail, Here
<1>q. QueueStep
  BY StepOnQueue
<1>1. CASE EngineQueueStep
  BY <1>1, <1>s, EngineKeepsRun DEF BaseInv, StoreShape, GoodStore
<1>2. ASSUME UNCHANGED engine, AtWork /\ CurrentRuns => CurrentRuns',
             \A i \in JobIds(store') : store'.jobs[i].state = "running" =>
                 i \in JobIds(store) /\ store.jobs[i].state = "running"
      PROVE  RunInv'
  BY <1>2, <1>d DEF Left, CurrentId, AtWork, RunInv, RunningIsCurrentOnDisk, RunningIsCurrent
<1>3. CASE Tidied /\ UNCHANGED engine
  <2>1. CurrentId' = CurrentId
    BY <1>3 DEF CurrentId, Left
  <2>2. CurrentRuns => CurrentRuns'
    BY <1>3, <2>1 DEF Tidied, CurrentRuns
  <2>3. \A i \in JobIds(store') : store'.jobs[i].state = "running" =>
                 i \in JobIds(store) /\ store.jobs[i].state = "running"
    BY <1>3 DEF Tidied
  <2> QED BY <1>2, <1>3, <2>2, <2>3
<1>4. CASE QueueKept /\ UNCHANGED engine
  BY <1>4, <1>2 DEF CurrentRuns, CurrentId, Left, QueueKept, JobIds
<1>5. CASE Recovered /\ engine' = EngineIdle
  <2>1. ~AtWork'
    BY <1>5 DEF AtWork, EngineIdle, ExecutePCs
  <2>2. \A i \in JobIds(store') : store'.jobs[i].state # "running"
    BY <1>5 DEF Recovered
  <2> QED BY <2>1, <2>2 DEF RunInv, RunningIsCurrentOnDisk, RunningIsCurrent
<1> QED BY <1>q, <1>1, <1>3, <1>4, <1>5 DEF QueueStep

LEMMA RunInit ==
    ASSUME Init
    PROVE  RunInv
<1>1. store.jobs = <<>> /\ engine.pc = "idle"
  BY DEF Init, SharedInit, EmptyStore, EngineIdle
<1>2. JobIds(store) = {}
  BY <1>1 DEF JobIds
<1> QED BY <1>1, <1>2 DEF RunInv, RunningIsCurrentOnDisk, RunningIsCurrent, AtWork, ExecutePCs

\* RunInv is an invariant: the job that runJob has in hand is the one the store
\* calls running, and on a good disk no other is (runJob, recordFailure,
\* recoverInterruptedJobs).
THEOREM SpecRun == Spec => []RunInv
<1>1. Init => RunInv
  BY RunInit
<1>2. BaseInv /\ BaseInv' /\ RunInv /\ [Next]_vars => RunInv'
  BY RunStep
<1> QED BY <1>1, <1>2, SpecBase, PTL DEF Spec

\* RunningIsCurrentOnDisk: with a disk that takes every batch, a job that the
\* store calls running is the one runJob has in hand (engine.go), through
\* retries, discards, prunes and restarts: recoverInterruptedJobs leaves no
\* job behind that nobody will finish.
THEOREM NoOrphanedJob == Spec => []RunningIsCurrentOnDisk
<1>1. RunInv => RunningIsCurrentOnDisk
  BY DEF RunInv
<1> QED BY <1>1, SpecRun, PTL

\* CompletedNotRequeued: from the moment the machine has answered until
\* runJob has recorded the outcome, no step of the engine, of a caller, of a
\* sweep or a restart puts the job back in the queue (machineCompletedError).
THEOREM CompletedStays == Spec => CompletedNotRequeued
<1> DEFINE A == engine.pc \in {"settle", "unlink", "done", "complete"} =>
                    /\ CurrentId \in JobIds(store') => store'.jobs[CurrentId].state # "queued"
                    /\ engine'.pc # "fail"
<1>1. BaseInv /\ RunInv /\ [Next]_vars => [A]_vars
  <2> SUFFICES ASSUME BaseInv, RunInv, [Next]_vars,
                      engine.pc \in {"settle", "unlink", "done", "complete"}
               PROVE  /\ CurrentId \in JobIds(store') => store'.jobs[CurrentId].state # "queued"
                      /\ engine'.pc # "fail"
    OBVIOUS
  <2>1. AtWork /\ CurrentRuns
    BY DEF AtWork, ExecutePCs, RunInv
  <2>2. QueueStep
    BY StepOnQueue
  <2>3. CASE Tidied /\ UNCHANGED engine
    BY <2>1, <2>3 DEF Tidied, CurrentRuns
  <2>4. CASE QueueKept /\ UNCHANGED engine
    BY <2>1, <2>4 DEF QueueKept, CurrentRuns, JobIds
  <2>5. CASE Recovered /\ engine' = EngineIdle
    BY <2>1, <2>5 DEF Recovered, CurrentRuns, EngineIdle
  <2>6. CASE EngineQueueStep
    <3>1. ASSUME NEW ps, NextJob(ps) PROVE engine'.pc = "loop"
      BY <3>1 DEF NextJob, BaseInv, EngineShape, EngineTypeOK
    <3>2. engine'.pc # "fail"
      BY <2>6, <3>1 DEF EngineQueueStep, EngineWalks, MayAttempt, MovedOn, EngineIdle
    <3>3. QueueKept \/ \E s \in {"done", "failed"} : EngineJobs(s)
      BY <2>6 DEF EngineQueueStep, MayAttempt
    <3> QED BY <2>1, <3>2, <3>3 DEF QueueKept, EngineJobs, CurrentRuns, JobIds
  <2> QED BY <2>2, <2>3, <2>4, <2>5, <2>6 DEF QueueStep
<1>2. CompletedNotRequeued <=> [][A]_vars
  BY DEF CompletedNotRequeued
<1> QED BY <1>1, <1>2, SpecBase, SpecRun, PTL DEF Spec

-----------------------------------------------------------------------------
(* What the engine and the callers make of an entry.                        *)

LEMMA SyncSetAt ==
    ASSUME NEW entries \in [Paths -> Entry], NEW p \in Paths, NEW s, NEW q \in Paths,
           NEW f, f = [entries EXCEPT ![p].sync = s][q]
    PROVE  /\ q # p => f = entries[q]
           /\ q = p => /\ f.sync = s /\ f.md5 = entries[p].md5 /\ f.size = entries[p].size
                       /\ f.cachePath = entries[p].cachePath /\ f.cacheState = entries[p].cacheState
<1>1. entries[p] \in Entry
  OBVIOUS
<1>2. q = p => f = [entries[p] EXCEPT !.sync = s]
  OBVIOUS
<1>3. [entries[p] EXCEPT !.sync = s].sync = s
  BY <1>1 DEF Entry
<1> QED BY <1>1, <1>2, <1>3 DEF Entry

Rewritten(p, e, f) ==
    \/ f = e
    \/ f.sync \notin {"synced", "remote_only"}
    \/ f.sync = "synced" /\ e.sync = "remote_only"
    \/ f.sync = "synced" /\ f.cacheState = e.cacheState
    \/ /\ f.sync = "synced"
       /\ engine.pc = "settle" /\ Current.kind = "rename" /\ Current.dest = p

Rewrites == \A p \in Paths : Rewritten(p, store.entries[p], store'.entries[p])

LEMMA ServiceRewrites ==
    ASSUME StoreShape, BaseInv, ServiceEffect
    PROVE  Rewrites
<1>e. store.entries \in [Paths -> Entry] /\ IsStore(store)
  BY DEF StoreShape, GoodStore, IsStore
<1>n. NoEntry.sync = "absent"
  BY DEF NoEntry
<1>1. ASSUME UNCHANGED store \/ store'.entries = store.entries PROVE Rewrites
  BY <1>1 DEF Rewrites, Rewritten
<1>2. ASSUME NEW p, NEW f, f.sync \notin {"synced", "remote_only"},
             store'.entries = [store.entries EXCEPT ![p] = f]
      PROVE  Rewrites
  BY <1>2, <1>e DEF Rewrites, Rewritten
<1>3. ASSUME NEW p \in Paths, NEW s, s \notin {"synced", "remote_only"},
             store'.entries = [store.entries EXCEPT ![p].sync = s]
      PROVE  Rewrites
  BY <1>3, <1>e, SyncSetAt DEF Rewrites, Rewritten
<1>4. \A p, v : CachedEntry(p, v, "pending_upload").sync = "pending_upload"
                /\ RangeEntry(p, v).sync = "local_only"
  BY DEF CachedEntry, RangeEntry
<1>5. ASSUME NEW p \in Paths, NEW v, \/ Uploaded(p, CachedEntry(p, v, "pending_upload"))
                                     \/ RangeWritten(p, RangeEntry(p, v))
      PROVE  Rewrites
  BY <1>2, <1>4, <1>5 DEF Uploaded, RangeWritten, Result
<1>6. ASSUME NEW c \in Clients, MovedLocally(client[c].path, client[c].dest, MovedEntry(c))
      PROVE  Rewrites
  <2>1. MovedEntry(c).sync = "pending_upload"
    BY DEF MovedEntry, BaseInv, ClientTypeOK, Entry
  <2>2. store'.entries = [[store.entries EXCEPT ![client[c].path] = NoEntry]
                             EXCEPT ![client[c].dest] = MovedEntry(c)]
    BY <1>6 DEF MovedLocally, Result
  <2> HIDE DEF MovedEntry
  <2> QED BY <1>e, <1>n, <2>1, <2>2 DEF Rewrites, Rewritten
<1>7. ASSUME NEW p \in Paths, DeleteQueued(p) PROVE Rewrites
  BY <1>3, <1>7 DEF DeleteQueued, Result
<1>8. ASSUME NEW p \in Paths, NEW q, RenameQueued(p, q) PROVE Rewrites
  BY <1>3, <1>8 DEF RenameQueued, Result
<1>9. ASSUME NEW p, Discarded(p) \/ JobsDropped(p) PROVE Rewrites
  BY <1>1, <1>2, <1>n, <1>9 DEF Discarded, JobsDropped, Result
<1>10. ASSUME NEW id \in JobIds(store), Retried(id) PROVE Rewrites
  <2>1. store.jobs[id].path \in Paths /\ store.jobs[id].kind \in JobKinds
    BY <1>e DEF IsStore, IsQueue, JobIds, Job
  <2>2. RetriedEntry(store.jobs[id]).sync = "pending_upload"
        /\ PendingSync(store.jobs[id].kind) \notin {"synced", "remote_only"}
    BY <2>1 DEF RetriedEntry, PendingSync, JobKinds
  <2> QED BY <1>1, <1>2, <1>3, <1>10, <2>1, <2>2 DEF Retried, Result
<1>11. ASSUME NEW p \in Paths, NEW v, Fetched(p, v) PROVE Rewrites
  BY <1>11, <1>e DEF Fetched, Result, CachedEntry, Rewrites, Rewritten
<1>12. ASSUME NEW ids, Pruned(ids) PROVE Rewrites
  BY <1>1, <1>12 DEF Pruned, Result
<1>13. StoreKept => Rewrites
  BY <1>1 DEF StoreKept
<1>14. \A c \in Clients : client[c].op = "rename" /\ client[c].pc = "moveRemote" => client[c].path \in Paths
  BY DEF BaseInv, CallsOK, CallOK, ClientTypeOK
<1> QED BY <1>5, <1>6, <1>7, <1>8, <1>9, <1>10, <1>11, <1>12, <1>13, <1>14 DEF ServiceEffect

LEMMA EngineRewrites ==
    ASSUME StoreShape, EngineShape, EngineEffect
    PROVE  Rewrites
<1>e. store.entries \in [Paths -> Entry] /\ IsStore(store) /\ store.written = {}
  BY DEF StoreShape, GoodStore, IsStore
<1>n. NoEntry.sync = "absent"
  BY DEF NoEntry
<1>c. Left # {} => Current.path \in Paths /\ Current.kind \in JobKinds
  BY CurrentFacts
<1>l. engine.pc \notin {"idle", "loop"} => Left # {}
  BY DEF EngineShape, EngineOK
<1>1. ASSUME store'.entries = store.entries PROVE Rewrites
  BY <1>1 DEF Rewrites, Rewritten
<1>3. ASSUME NEW p \in Paths, NEW s, s \notin {"synced", "remote_only"},
             store'.entries = [store.entries EXCEPT ![p].sync = s]
      PROVE  Rewrites
  BY <1>3, <1>e, SyncSetAt DEF Rewrites, Rewritten
<1>4. CASE UNCHANGED <<store, fresh>> \/ EngineStarts
  BY <1>1, <1>4 DEF EngineStarts, Result
<1>5. CASE EngineMarks
  BY <1>3, <1>5, <1>c, <1>l DEF EngineMarks, Result
<1>6. CASE EngineSettles
  <2>1. PICK b : SettledAs(store, Current, b) /\ Batch(b)
    BY <1>6 DEF EngineSettles
  <2>2. Current.path \in Paths /\ engine.pc = "settle"
    BY <1>6, <1>c, <1>l DEF EngineSettles
  <2>h. ASSUME NEW entries, NEW ps, Holds(b, entries, store.jobs, store.nextJob, ps)
        PROVE  store'.entries = entries
    BY <2>1, <2>h, BatchResult DEF Result
  <2>3. CASE Marked(store, b, Current.path, "synced")
    <3>1. store'.entries = [store.entries EXCEPT ![Current.path].sync = "synced"]
      BY <2>3, <2>h DEF Marked
    <3> QED BY <1>e, <2>2, <3>1, SyncSetAt DEF Rewrites, Rewritten
  <2>4. CASE Holds(b, [store.entries EXCEPT ![Current.path] = NoEntry], store.jobs, store.nextJob,
                   store.written \cup {Current.path})
    BY <2>4, <2>h, <1>e, <1>n, <2>2 DEF Rewrites, Rewritten
  <2>5. ASSUME Current.kind = "rename",
               NEW e, e = NormalizeNewEntry([store.entries[Current.path] EXCEPT !.sync = "synced"]),
               Holds(b, [[store.entries EXCEPT ![Current.dest] = e] EXCEPT ![Current.path] = NoEntry],
                     store.jobs, store.nextJob, (store.written \cup {Current.dest}) \cup {Current.path})
        PROVE  Rewrites
    <3>1. store'.entries = [[store.entries EXCEPT ![Current.dest] = e] EXCEPT ![Current.path] = NoEntry]
      BY <2>5, <2>h
    <3>2. e.sync = "synced"
      BY <1>e, <2>2, <2>5 DEF NormalizeNewEntry, Entry
    <3>3. \A q \in Paths : store'.entries[q] = IF q = Current.path THEN NoEntry
                                               ELSE IF q = Current.dest THEN e ELSE store.entries[q]
      BY <1>e, <3>1
    <3> QED BY <1>n, <2>2, <2>5, <3>2, <3>3 DEF Rewrites, Rewritten
  <2>6. CASE b = store
    BY <1>1, <2>1, <2>6, BatchOfStore
  <2> QED BY <2>1, <2>3, <2>4, <2>5, <2>6 DEF SettledAs
<1>7. CASE EngineRecords
  <2>1. ASSUME NEW s, NEW sync, OutcomeResult(s, sync), sync \notin {"synced", "remote_only"}, Left # {}
        PROVE  Rewrites
    BY <1>1, <1>3, <1>c, <2>1 DEF OutcomeResult
  <2>2. Left # {} => PendingSync(Current.kind) \notin {"synced", "remote_only"}
    BY <1>c DEF PendingSync, JobKinds
  <2> QED BY <1>1, <1>7, <1>l, <2>1, <2>2 DEF EngineRecords, Result
<1> QED BY <1>4, <1>5, <1>6, <1>7 DEF EngineEffect

\* A sweep demotes, drops or releases settled entries and discovers files.
LEMMA SweptFacts ==
    ASSUME NEW s, NEW p, NEW e \in Entry, NEW f, Swept(s, p, e, f)
    PROVE  /\ e.sync = "absent" \/ IsSettled(e.sync)
           /\ f.sync = "remote_only" => f.cacheState = "none"
           /\ (e.md5 # None /\ MetadataMD5 /\ f.sync = "synced") =>
                  e.md5 \in {sweeper[s].remote[p], machine[p]}
<1>1. NoEntry.sync = "absent"
  BY DEF NoEntry
<1>2. \A v, md5 : RemoteEntry(v, md5).sync = "remote_only" /\ RemoteEntry(v, md5).cacheState = "none"
  BY DEF RemoteEntry
<1>3. ASSUME NEW v, NEW md5, e.sync = "synced"
      PROVE  NormalizeNewEntry(ReadyEntry(e, v, md5)).sync = "synced"
  BY <1>3 DEF NormalizeNewEntry, ReadyEntry, Entry
<1> QED BY <1>1, <1>2, <1>3 DEF Swept, IsSettled

LEMMA RemoteStep ==
    ASSUME BaseInv, RemoteInv, [Next]_vars
    PROVE  RemoteInv'
<1>f. ServiceShape /\ SyncShape /\ StoreShape /\ EngineShape /\ store.entries \in [Paths -> Entry]
  BY BaseShapes DEF BaseInv, StoreShape, GoodStore, IsStore
<1>k. ASSUME UNCHANGED store PROVE RemoteInv'
  BY <1>k DEF RemoteInv
<1>r. ASSUME Rewrites PROVE RemoteInv'
  BY <1>r DEF Rewrites, Rewritten, RemoteInv
<1>1. CASE UNCHANGED vars
  BY <1>1, <1>k DEF vars
<1>2. CASE EngineNext
  BY <1>f, <1>2, <1>r, EngineStepEffect, EngineRewrites
<1>3. CASE ServiceNext
  BY <1>f, <1>3, <1>r, ServiceStepEffect, ServiceRewrites
<1>4. CASE ReconcilerNext
  <2>1. ASSUME NEW s \in Sweepers, NEW p \in Paths, EntryWritten(p),
               Swept(s, p, store.entries[p], store'.entries[p])
        PROVE  RemoteInv'
    <3>1. store'.entries[p].sync = "remote_only" => store'.entries[p].cacheState = "none"
      BY <1>f, <2>1, SweptFacts
    <3> QED BY <2>1, <3>1 DEF EntryWritten, RemoteInv
  <2> QED BY <1>f, <1>4, <1>k, <2>1, SweepCases, SweepWritesOne
<1>5. CASE Crash
  BY <1>5, CrashEffect DEF BaseInv, Recovered, PreparedShape, RemoteInv
<1>6. ASSUME NEW p \in Paths, NEW v \in Contents \cup {None}, ControllerWrites(p, v) PROVE RemoteInv'
  BY <1>6, <1>k DEF ControllerWrites
<1> QED BY <1>1, <1>2, <1>3, <1>4, <1>5, <1>6 DEF Next, Steps

\* RemoteInv is an invariant: an entry for a file that is on the machine alone
\* is not held back and not served (setJobSync, reconcile, PrepareStartupCacheValidation).
THEOREM SpecRemote == Spec => []RemoteInv
<1>1. Init => RemoteInv
  BY DEF Init, SharedInit, EmptyStore, NoEntry, RemoteInv
<1>2. BaseInv /\ RemoteInv /\ [Next]_vars => RemoteInv'
  BY RemoteStep
<1> QED BY <1>1, <1>2, SpecBase, PTL DEF Spec

\* SweepsAreCareful: a sweep that folds an old listing into the catalog
\* (reconcile, deepReconcile, applyCacheValidationResults) never rewrites an
\* entry with local intent, and an entry that a restart has held back is served
\* again only when its content was seen on the machine or a rename replaced it.
THEOREM SweepsStayCareful == Spec => SweepsAreCareful
<1> DEFINE A == SweepStep => \A p \in Paths : HasLocalIntent(store.entries[p].sync) =>
                                 store'.entries[p] = store.entries[p]
           Confirmed(p) == \/ \E s \in Sweepers :
                                  store.entries[p].md5 \in {sweeper[s].remote[p], machine[p]}
                           \/ engine.pc = "settle" /\ Current.kind = "rename" /\ Current.dest = p
           Released(p) == /\ store.entries[p].cacheState = "validating" /\ store.entries[p].md5 # None
                          /\ MetadataMD5
                          /\ store'.entries[p].cacheState = "ready" /\ store'.entries[p].sync = "synced"
           B == \A p \in Paths :
                    LET e == store.entries[p]
                        f == store'.entries[p]
                    IN  (/\ e.cacheState = "validating" /\ e.md5 # None /\ MetadataMD5
                         /\ f.cacheState = "ready" /\ f.sync = "synced") =>
                            \/ \E s \in Sweepers : e.md5 \in {sweeper[s].remote[p], machine[p]}
                            \/ engine.pc = "settle" /\ Current.kind = "rename" /\ Current.dest = p
<1>1. BaseInv /\ RemoteInv /\ [Next]_vars => [A]_vars /\ [B]_vars
  <2> SUFFICES ASSUME BaseInv, RemoteInv, Next PROVE A /\ B
    BY DEF vars
  <2>f. ServiceShape /\ SyncShape /\ StoreShape /\ EngineShape /\ store.entries \in [Paths -> Entry]
    BY BaseShapes DEF BaseInv, StoreShape, GoodStore, IsStore
  <2>r. ASSUME Rewrites PROVE B
    <3> SUFFICES ASSUME NEW p \in Paths, Released(p) PROVE Confirmed(p)
      OBVIOUS
    <3>1. Rewritten(p, store.entries[p], store'.entries[p])
      BY <2>r DEF Rewrites
    <3>2. store.entries[p].sync # "remote_only"
      BY DEF RemoteInv
    <3> QED BY <3>1, <3>2 DEF Rewritten
  <2>u. UNCHANGED store => A /\ B
    OBVIOUS
  <2>s. UNCHANGED sweeper => A
    BY DEF SweepStep
  <2>1. CASE EngineNext /\ UNCHANGED <<client, sweeper>>
    BY <2>f, <2>1, <2>r, <2>s, EngineStepEffect, EngineRewrites
  <2>2. CASE ServiceNext /\ UNCHANGED <<engine, sweeper>>
    BY <2>f, <2>2, <2>r, <2>s, ServiceStepEffect, ServiceRewrites
  <2>3. CASE ReconcilerNext
    <3>1. ASSUME NEW s \in Sweepers, NEW p \in Paths, EntryWritten(p),
                 Swept(s, p, store.entries[p], store'.entries[p])
          PROVE  A /\ B
      <4>1. /\ store.entries[p].sync = "absent" \/ IsSettled(store.entries[p].sync)
            /\ (store.entries[p].md5 # None /\ MetadataMD5 /\ store'.entries[p].sync = "synced") =>
                   store.entries[p].md5 \in {sweeper[s].remote[p], machine[p]}
        BY <2>f, <3>1, SweptFacts
      <4>2. A
        BY <3>1, <4>1 DEF EntryWritten, IsSettled, HasLocalIntent
      <4>3. B
        BY <3>1, <4>1 DEF EntryWritten
      <4> QED BY <4>2, <4>3
    <3> HIDE DEF A, B
    <3> QED BY <2>f, <2>3, <2>u, <3>1, SweepCases, SweepWritesOne
  <2>4. CASE Crash
    <3>1. Recovered
      BY <2>4, CrashEffect DEF BaseInv
    <3>2. B
      BY <3>1 DEF Recovered, PreparedShape
    <3>3. \A s \in Sweepers : sweeper'[s].pc = "idle" /\ sweeper'[s].todo = {}
      BY <2>4 DEF Crash, SweeperIdle
    <3>4. ~SweepStep
      BY <3>3 DEF SweepStep, BaseInv, SweepShape, SweepsOK
    <3> QED BY <3>2, <3>4
  <2>5. ASSUME NEW p \in Paths, NEW v \in Contents \cup {None}, ControllerWrites(p, v) PROVE A /\ B
    BY <2>5, <2>u DEF ControllerWrites
  <2> HIDE DEF A, B
  <2> QED BY <2>1, <2>2, <2>3, <2>4, <2>5 DEF Next, Steps
<1>2. InFlightUntouched <=> [][A]_vars
  BY DEF InFlightUntouched
<1>3. ConfirmedBeforeServed <=> [][B]_vars
  BY DEF ConfirmedBeforeServed
<1> HIDE DEF A, B
<1> QED BY <1>1, <1>2, <1>3, SpecBase, SpecRemote, PTL DEF Spec, SweepsAreCareful

-----------------------------------------------------------------------------
(* The pass and the queue.  A pass knows the jobs it has left as the queue  *)
(* does; every job that waits and is not in the pass is younger than all    *)
(* that are, or of a path that the pass holds back.                         *)

PassInv ==
    /\ \A i \in Left : i < store.nextJob
    /\ \A i \in Left \cap JobIds(store) : SameTask(engine.queue[i], store.jobs[i])
    /\ engine.pc \notin {"idle", "loop"} => ~JobTouchesDeferredPath(Current)

InOrder ==
    engine.pc # "idle" =>
        \A i \in JobIds(store) \ Left :
            store.jobs[i].state = "queued" =>
                (\A k \in Left : k < i) \/ store.jobs[i].path \in engine.deferred

OneOfAKind == \A i \in JobIds(store) : store.jobs[i].dest = None

OrderInv ==
    /\ Without({"rename"}) => OneOfAKind
    /\ Without({"rename", "retry"}) => InOrder

\* Jobs keep their numbers and their tasks; new ones are younger.
TasksKept ==
    /\ store.nextJob \in Nat /\ store'.nextJob \in Nat /\ store.nextJob <= store'.nextJob
    /\ \A i \in JobIds(store') : i < store.nextJob =>
           i \in JobIds(store) /\ SameTask(store'.jobs[i], store.jobs[i])

LEMMA StepKeepsTasks ==
    ASSUME BaseInv, BaseInv', QueueStep
    PROVE  TasksKept
<1>1. store.nextJob \in Nat /\ store'.nextJob \in Nat
  BY DEF BaseInv, StoreShape, GoodStore, IsStore
<1>s. \A j : SameTask(j, j)
  BY DEF SameTask
<1>2. CASE QueueKept
  BY <1>1, <1>2, <1>s DEF QueueKept, TasksKept, JobIds
<1>3. ASSUME NEW s, EngineJobs(s) PROVE TasksKept
  BY <1>1, <1>3 DEF EngineJobs, TasksKept
<1>4. CASE Recovered
  BY <1>1, <1>4 DEF Recovered, TasksKept
<1>5. CASE Tidied
  BY <1>1, <1>5 DEF Tidied, TasksKept
<1> QED BY <1>2, <1>3, <1>4, <1>5 DEF QueueStep, EngineQueueStep

\* What becomes of the pass.
PassStep ==
    \/ UNCHANGED engine
    \/ \E pc \in ExecutePCs \cup OutcomePCs : MovedOn(pc) /\ (MayAttempt \/ AtWork)
    \/ engine' = EngineIdle
    \/ engine.pc # "idle" /\ Left # {} /\ \E ps \in SUBSET Paths : NextJob(ps)
    \/ /\ engine.pc = "idle" /\ engine'.pc = "loop" /\ QueueKept
       /\ engine'.queue = QueuedJobs(store) /\ engine'.deferred = {}

LEMMA StepOnPass ==
    ASSUME BaseInv, QueueStep
    PROVE  PassStep
<1>1. engine.deferred \in SUBSET Paths /\ EngineShape
  BY DEF BaseInv, EngineShape, EngineTypeOK
<1>2. Left # {} => DeferJobPaths \in SUBSET Paths
  BY <1>1, CurrentFacts DEF DeferJobPaths
<1>3. engine.pc \in OutcomePCs => Left # {} /\ engine.pc # "idle"
  BY <1>1 DEF EngineShape, EngineOK, OutcomePCs
<1>4. CASE EngineQueueStep
  <2>1. CASE QueueKept /\ EngineWalks
    BY <1>1, <1>2, <2>1 DEF EngineWalks, PassStep, MayAttempt
  <2>2. CASE AtWork /\ \E pc \in ExecutePCs \cup OutcomePCs : MovedOn(pc)
    BY <2>2 DEF PassStep
  <2>3. CASE MayAttempt /\ \E pc \in {"fail", "mark", "call"} : MovedOn(pc)
    BY <2>3 DEF PassStep, ExecutePCs, OutcomePCs
  <2>4. CASE engine.pc \in OutcomePCs /\ (NextJob(engine.deferred) \/ NextJob(DeferJobPaths))
    BY <1>1, <1>2, <1>3, <2>4 DEF PassStep
  <2> QED BY <1>4, <2>1, <2>2, <2>3, <2>4 DEF EngineQueueStep, OutcomePCs
<1> QED BY <1>4 DEF QueueStep, PassStep

LEMMA QueuedJobsAt ==
    ASSUME IsStore(store)
    PROVE  /\ DOMAIN QueuedJobs(store) = {i \in JobIds(store) : store.jobs[i].state = "queued"}
           /\ \A i \in DOMAIN QueuedJobs(store) : QueuedJobs(store)[i] = store.jobs[i]
BY DEF QueuedJobs, Restrict

LEMMA NewPass ==
    ASSUME BaseInv, PassInv, PassStep, TasksKept
    PROVE  PassInv'
<1>f. EngineShape /\ IsStore(store) /\ \A i \in Left : i \in Nat
  BY DEF BaseInv, StoreShape, GoodStore, EngineShape, EngineTypeOK, IsQueue, Left
\* A pass that is a part of the old one.
<1>k. ASSUME Left' \subseteq Left, \A i \in Left' : engine'.queue[i] = engine.queue[i],
             (engine.pc \notin {"idle", "loop"} => ~JobTouchesDeferredPath(Current)) =>
                 (engine'.pc \notin {"idle", "loop"} => ~JobTouchesDeferredPath(Current)')
      PROVE  PassInv'
  BY <1>f, <1>k DEF PassInv, TasksKept, SameTask
<1>1. CASE UNCHANGED engine
  BY <1>1, <1>k DEF Left, Current, CurrentId, JobTouchesDeferredPath
<1>2. ASSUME NEW pc \in ExecutePCs \cup OutcomePCs, MovedOn(pc), MayAttempt \/ AtWork
      PROVE  PassInv'
  <2>1. Left' = Left /\ engine'.queue = engine.queue /\ Current' = Current
        /\ engine'.deferred = engine.deferred
    BY <1>2 DEF MovedOn, Left, Current, CurrentId
  <2>2. JobTouchesDeferredPath(Current)' <=> JobTouchesDeferredPath(Current)
    BY <2>1 DEF JobTouchesDeferredPath
  <2>3. ~JobTouchesDeferredPath(Current)
    BY <1>2 DEF MayAttempt, AtWork, ExecutePCs, PassInv
  <2> QED BY <1>k, <2>1, <2>2, <2>3
<1>3. CASE engine' = EngineIdle
  BY <1>3, IdleEngineShape DEF PassInv
<1>4. ASSUME NEW ps \in SUBSET Paths, NextJob(ps) PROVE PassInv'
  BY <1>4, <1>f, NextJobShape, <1>k
<1>5. CASE engine.pc = "idle" /\ engine'.pc = "loop" /\ QueueKept
           /\ engine'.queue = QueuedJobs(store) /\ engine'.deferred = {}
  <2>1. Left' \subseteq JobIds(store) /\ \A i \in Left' : engine'.queue[i] = store.jobs[i]
    BY <1>5, <1>f, QueuedJobsAt DEF Left
  <2>2. store'.jobs = store.jobs /\ store'.nextJob = store.nextJob
    BY <1>5 DEF QueueKept
  <2>3. \A i \in JobIds(store) : i < store.nextJob
    BY <1>f DEF IsStore, JobIds
  <2> QED BY <1>5, <2>1, <2>2, <2>3 DEF PassInv, SameTask
<1> QED BY <1>1, <1>2, <1>3, <1>4, <1>5 DEF PassStep

\* Without renames a job touches one path.
LEMMA DestStep ==
    ASSUME BaseInv, QueueStep, TasksKept, OneOfAKind, "rename" \notin Ops
    PROVE  OneOfAKind'
<1>i. \A i \in JobIds(store) : i < store.nextJob
  BY DEF BaseInv, StoreShape, GoodStore, IsStore, JobIds
<1>1. CASE QueueKept
  BY <1>1 DEF QueueKept, OneOfAKind, JobIds
<1>2. ASSUME NEW s, EngineJobs(s) PROVE OneOfAKind'
  BY <1>2 DEF EngineJobs, OneOfAKind, SameTask
<1>3. CASE Recovered
  BY <1>3 DEF Recovered, OneOfAKind, SameTask
<1>4. CASE Tidied
  BY <1>4 DEF Tidied, OneOfAKind, SameTask
<1> QED BY <1>1, <1>2, <1>3, <1>4 DEF QueueStep, EngineQueueStep

\* A job that waits now has waited before, unless it is new, or the pass is
\* through with it and holds its path back.
LEMMA InOrderStep ==
    ASSUME BaseInv, PassInv, InOrder, OneOfAKind, QueueStep, "retry" \notin Ops
    PROVE  InOrder'
<1>f. EngineShape /\ IsStore(store) /\ \A i \in Left : i \in Nat /\ i < store.nextJob
  BY DEF BaseInv, StoreShape, GoodStore, EngineShape, EngineTypeOK, IsQueue, Left, PassInv
<1>c. Left # {} => CurrentId \in Left /\ TouchedPaths(Current) \in SUBSET Paths
  BY <1>f, CurrentFacts
\* The pass shrinks at most, and defers no less.
<1>k. ASSUME Left' \subseteq Left, engine.deferred \subseteq engine'.deferred,
             engine'.pc # "idle" => engine.pc # "idle",
             engine'.pc # "idle" =>
                 \A i \in JobIds(store') \ Left' : store'.jobs[i].state = "queued" =>
                    \/ /\ i \in JobIds(store) \ Left /\ store.jobs[i].state = "queued"
                       /\ store'.jobs[i].path = store.jobs[i].path
                    \/ \A k \in Left' : k < i
                    \/ store'.jobs[i].path \in engine'.deferred
      PROVE  InOrder'
  BY <1>k DEF InOrder
<1>u. ASSUME UNCHANGED engine PROVE Left' = Left /\ engine'.deferred = engine.deferred /\ engine'.pc = engine.pc
  BY <1>u DEF Left
<1>m. ASSUME NEW pc \in ExecutePCs \cup OutcomePCs, MovedOn(pc), engine.pc # "idle"
      PROVE  Left' = Left /\ engine'.deferred = engine.deferred
  BY <1>m DEF MovedOn, Left
<1>1. CASE Tidied /\ UNCHANGED engine
  BY <1>1, <1>f, <1>k, <1>u DEF Tidied, SameTask
<1>2. CASE QueueKept /\ UNCHANGED engine
  BY <1>2, <1>k, <1>u DEF QueueKept, JobIds
<1>3. CASE engine' = EngineIdle
  BY <1>3 DEF EngineIdle, InOrder
<1>4. CASE QueueKept /\ \E pc \in ExecutePCs \cup OutcomePCs : MovedOn(pc) /\ engine.pc # "idle"
  BY <1>4, <1>k, <1>m DEF QueueKept, JobIds
<1>5. CASE EngineJobs("running") /\ engine.pc # "idle" /\ \E pc \in {"mark", "call"} : MovedOn(pc)
  BY <1>5, <1>m, <1>k DEF ExecutePCs, EngineJobs
<1>6. CASE engine.pc = "idle" /\ engine'.pc = "loop" /\ QueueKept /\ engine'.queue = QueuedJobs(store)
  BY <1>6, <1>f, QueuedJobsAt DEF Left, QueueKept, InOrder, JobIds
\* The job at hand leaves the pass.
<1>7. ASSUME NEW ps \in SUBSET Paths, NextJob(ps), engine.deferred \subseteq ps, engine.pc # "idle",
             Left # {},
             QueueKept \/ (\E s : EngineJobs(s)),
             (CurrentId \in JobIds(store') /\ store'.jobs[CurrentId].state = "queued") =>
                 store'.jobs[CurrentId].path \in ps
      PROVE  InOrder'
  BY <1>7, <1>f, NextJobShape, <1>k DEF QueueKept, EngineJobs, JobIds
<1>8. ASSUME CurrentId \in JobIds(store'), QueueKept \/ (\E s : EngineJobs(s)), Left # {}
      PROVE  store'.jobs[CurrentId].path = Current.path
             /\ (JobTouchesDeferredPath(Current) => Current.path \in engine.deferred)
  <2>1. CurrentId \in JobIds(store) /\ SameTask(store'.jobs[CurrentId], store.jobs[CurrentId])
    BY <1>8 DEF QueueKept, EngineJobs, JobIds, SameTask
  <2>2. SameTask(Current, store.jobs[CurrentId])
    BY <1>c, <1>8, <2>1 DEF PassInv, Current
  <2>3. Current.dest = None
    BY <2>1, <2>2 DEF OneOfAKind, SameTask
  <2> QED BY <2>1, <2>2, <2>3 DEF SameTask, JobTouchesDeferredPath, TouchedPaths
<1>9. Left # {} => /\ Current.path \in DeferJobPaths /\ engine.deferred \subseteq DeferJobPaths
                   /\ DeferJobPaths \in SUBSET Paths /\ engine.deferred \in SUBSET Paths
  BY <1>c, <1>f DEF DeferJobPaths, TouchedPaths, EngineShape, EngineTypeOK
<1>10. ASSUME NextJob(DeferJobPaths), Left # {}, engine.pc # "idle", QueueKept \/ (\E s : EngineJobs(s))
       PROVE  InOrder'
  BY <1>7, <1>8, <1>9, <1>10
<1>11. ASSUME NextJob(engine.deferred), Left # {}, engine.pc = "loop", QueueKept,
              JobTouchesDeferredPath(Current) \/ ~CanStart(store, CurrentId)
       PROVE  InOrder'
  <2>1. (CurrentId \in JobIds(store') /\ store'.jobs[CurrentId].state = "queued") =>
            store'.jobs[CurrentId].path \in engine.deferred
    <3> SUFFICES ASSUME CurrentId \in JobIds(store'), store'.jobs[CurrentId].state = "queued"
                 PROVE  store'.jobs[CurrentId].path \in engine.deferred
      OBVIOUS
    <3>1. CanStart(store, CurrentId)
      BY <1>11 DEF QueueKept, CanStart, JobIds
    <3> QED BY <1>8, <1>11, <3>1
  <2> QED BY <1>7, <1>9, <1>11, <2>1
<1>12. ASSUME NextJob(engine.deferred), engine.pc = "done", EngineJobs("done") PROVE InOrder'
  BY <1>12, <1>f, <1>7, <1>9 DEF EngineShape, EngineOK, EngineJobs
<1>13. CASE QueueKept /\ EngineWalks
  <2>1. CASE MayAttempt /\ NextJob(DeferJobPaths)
    BY <1>10, <1>13, <2>1 DEF MayAttempt
  <2> QED BY <1>3, <1>6, <1>11, <1>13, <2>1 DEF EngineWalks
<1>14. CASE /\ engine.pc \in {"fail", "complete"} /\ NextJob(DeferJobPaths)
            /\ QueueKept \/ (\E s : EngineJobs(s))
  BY <1>14, <1>f, <1>10 DEF EngineShape, EngineOK
<1>15. AtWork \/ MayAttempt => engine.pc # "idle"
  BY DEF AtWork, MayAttempt, ExecutePCs
<1>16. CASE EngineQueueStep
  <2>1. CASE QueueKept /\ AtWork /\ \E pc \in ExecutePCs \cup OutcomePCs : MovedOn(pc)
    BY <1>4, <1>15, <2>1
  <2>2. CASE QueueKept /\ MayAttempt /\ MovedOn("fail")
    BY <1>4, <1>15, <2>2 DEF OutcomePCs
  <2>3. CASE EngineJobs("running") /\ MayAttempt /\ \E pc \in {"mark", "call"} : MovedOn(pc)
    BY <1>5, <1>15, <2>3
  <2> QED BY <1>12, <1>13, <1>14, <1>16, <2>1, <2>2, <2>3 DEF EngineQueueStep
<1> QED BY <1>1, <1>2, <1>3, <1>16 DEF QueueStep

LEMMA OrderStep ==
    ASSUME BaseInv, BaseInv', PassInv, OrderInv, [Next]_vars
    PROVE  PassInv' /\ OrderInv'
<1>1. QueueStep /\ UNCHANGED scene
  BY StepOnQueue DEF Next, vars
<1>2. Ops' = Ops
  BY <1>1 DEF Ops, Here
<1>3. TasksKept /\ PassStep
  BY <1>1, StepKeepsTasks, StepOnPass
<1>4. PassInv'
  BY <1>3, NewPass
<1>5. Without({"rename"}) => OneOfAKind'
  BY <1>1, <1>3, DestStep DEF OrderInv, Without
<1>6. Without({"rename", "retry"}) => InOrder'
  BY <1>1, InOrderStep DEF OrderInv, Without
<1> QED BY <1>2, <1>4, <1>5, <1>6 DEF OrderInv, Without

\* The pass works on tasks that the store still holds unchanged, and a job queued
\* during the pass waits behind every job of its path (drain and its deferred paths).
THEOREM SpecOrder == Spec => [](PassInv /\ OrderInv)
<1>1. Init => PassInv /\ OrderInv
  <2> SUFFICES ASSUME Init PROVE PassInv /\ OrderInv
    OBVIOUS
  <2>1. Left = {} /\ JobIds(store) = {} /\ engine.pc = "idle"
    BY DEF Init, SharedInit, EmptyStore, EngineIdle, Left, JobIds
  <2> QED BY <2>1 DEF PassInv, OrderInv, OneOfAKind, InOrder
<1>2. BaseInv /\ BaseInv' /\ (PassInv /\ OrderInv) /\ [Next]_vars => (PassInv /\ OrderInv)'
  BY OrderStep
<1> QED BY <1>1, <1>2, SpecBase, PTL DEF Spec

\* InOrderPerPath: what drain's comment promises ("later jobs for those paths
\* must wait to preserve per-path ordering", engine.go) holds for uploads and
\* deletes, with discards, fetches, sweeps, a failing disk and restarts, as long
\* as nobody renames a file or retries a failed job.
THEOREM OrderPerPath == Spec => [](Without({"rename", "retry"}) => InOrderPerPath)
<1>1. BaseInv /\ PassInv /\ OrderInv /\ RunInv => (Without({"rename", "retry"}) => InOrderPerPath)
  <2> SUFFICES ASSUME BaseInv, PassInv, OrderInv, RunInv, Without({"rename", "retry"}), engine.pc = "call",
                      NEW i \in JobIds(store), store.jobs[i].state = "queued", i < CurrentId
               PROVE  TouchedPaths(store.jobs[i]) \cap TouchedPaths(Current) = {}
    BY DEF InOrderPerPath
  <2>1. Left # {} /\ EngineShape
    BY DEF BaseInv, EngineShape, EngineOK
  <2>2. CurrentId \in Left /\ CurrentId \in Nat /\ \A k \in Left : CurrentId <= k
    BY <2>1, CurrentFacts
  <2>3. i \in Nat /\ \A k \in Left : k \in Nat
    BY <2>1 DEF BaseInv, StoreShape, GoodStore, IsStore, IsQueue, JobIds, EngineShape, EngineTypeOK, Left
  <2>4. i \notin Left /\ ~(\A k \in Left : k < i)
    BY <2>2, <2>3
  <2>5. store.jobs[i].path \in engine.deferred
    BY <2>4 DEF OrderInv, InOrder
  <2>6. ~JobTouchesDeferredPath(Current)
    BY DEF PassInv
  <2>7. TouchedPaths(store.jobs[i]) = {store.jobs[i].path}
    BY DEF OrderInv, OneOfAKind, Without, TouchedPaths
  <2> QED BY <2>5, <2>6, <2>7 DEF JobTouchesDeferredPath
<1> QED BY <1>1, SpecBase, SpecRun, SpecOrder, PTL

-----------------------------------------------------------------------------
(* Every entry that waits has a job that will see to it: one that waits or  *)
(* runs, for this very file, and has not just settled.                      *)

Serves(j, e) ==
    /\ j.kind = KindOf(e.sync) /\ j.state \in {"queued", "running"}
    /\ j.kind # "delete" => SameFile(e, j)

\* The job at hand has settled and is about to be recorded as done.
Spent(i) == engine.pc \in {"unlink", "done"} /\ i = CurrentId

Served(p) ==
    \E i \in JobIds(store) :
        ~Spent(i) /\ store.jobs[i].path = p /\ Serves(store.jobs[i], store.entries[p])

ServedInv == \A p \in Paths : Pending(store.entries[p].sync) => Served(p)

\* The scenes of PendingHasJobWhileUp.
WhileUp == Without({"crash", "discard"}) /\ (Without({"retry"}) \/ Without({"rename"}))

UpInv == WhileUp => ServedInv

LEMMA KindOfPending ==
    /\ KindOf("pending_upload") = "upload" /\ KindOf("uploading") = "upload"
    /\ KindOf("pending_delete") = "delete" /\ KindOf("deleting") = "delete"
    /\ KindOf("pending_rename") = "rename"
    /\ \A s : Pending(s) => KindOf(s) \in JobKinds
BY DEF KindOf, Pending, DeletePending, JobKinds

\* The jobs of other paths stay as they are.
OthersKept(ps) ==
    \A i \in JobIds(store) : store.jobs[i].path \notin ps =>
        i \in JobIds(store') /\ store'.jobs[i] = store.jobs[i]

EntriesKept(ps) == \A p \in Paths : p \notin ps => store'.entries[p] = store.entries[p]

LEMMA ServedElsewhere ==
    ASSUME ServedInv, UNCHANGED engine, NEW ps, OthersKept(ps), EntriesKept(ps),
           \A p \in Paths : p \in ps => (Pending(store'.entries[p].sync) => Served(p)')
    PROVE  ServedInv'
<1> SUFFICES ASSUME NEW p \in Paths, p \notin ps, Pending(store'.entries[p].sync) PROVE Served(p)'
  BY DEF ServedInv
<1>1. store'.entries[p] = store.entries[p]
  BY DEF EntriesKept
<1>2. PICK i \in JobIds(store) :
          ~Spent(i) /\ store.jobs[i].path = p /\ Serves(store.jobs[i], store.entries[p])
  BY <1>1 DEF ServedInv, Served
<1>3. i \in JobIds(store') /\ store'.jobs[i] = store.jobs[i]
  BY <1>2 DEF OthersKept
<1>4. ~Spent(i)'
  BY <1>2 DEF Spent, CurrentId, Left
<1> QED BY <1>1, <1>2, <1>3, <1>4 DEF Served

\* A job that is not the one at hand, or the pass is not past it.
LEMMA NewServer ==
    ASSUME UNCHANGED engine, NEW p, NEW i \in JobIds(store'), ~Spent(i),
           store'.jobs[i].path = p, Serves(store'.jobs[i], store'.entries[p])
    PROVE  Served(p)'
<1>1. ~Spent(i)'
  BY DEF Spent, CurrentId, Left
<1> QED BY <1>1 DEF Served

LEMMA NotSpent ==
    ASSUME BaseInv, PassInv, RunInv
    PROVE  /\ ~Spent(store.nextJob)
           /\ \A i \in JobIds(store) : store.jobs[i].state # "running" => ~Spent(i)
<1>1. ASSUME engine.pc \in {"unlink", "done"}
      PROVE  CurrentId < store.nextJob /\ CurrentId \in Nat /\ CurrentRuns
  <2>1. EngineShape /\ Left # {}
    BY <1>1 DEF BaseInv, EngineShape, EngineOK
  <2> QED BY <1>1, <2>1, CurrentFacts DEF PassInv, RunInv, AtWork, ExecutePCs
<1>2. store.nextJob \in Nat
  BY DEF BaseInv, StoreShape, GoodStore, IsStore
<1> QED BY <1>1, <1>2 DEF Spent, CurrentRuns

\* Closing jobs of a path, and adding one for it.
LEMMA ClosedOthers ==
    ASSUME IsStore(store), NEW p, NEW q, NEW kinds, NEW more, NEW jobs,
           jobs = Closed(Closed(store.jobs, p, kinds), q, more)
    PROVE  /\ DOMAIN jobs = JobIds(store)
           /\ \A i \in JobIds(store) : store.jobs[i].path \notin {p, q} => jobs[i] = store.jobs[i]
<1>1. IsQueue(store.jobs) /\ DOMAIN store.jobs = JobIds(store)
  BY DEF IsStore, JobIds
<1> QED BY <1>1, ClosedTwice, ClosedQueue

LEMMA AddedServes ==
    ASSUME IsStore(store), NEW jobs, DOMAIN jobs = JobIds(store), NEW ps,
           \A i \in JobIds(store) : store.jobs[i].path \notin ps => jobs[i] = store.jobs[i],
           NEW j, store'.jobs = Added(jobs, store.nextJob, j)
    PROVE  OthersKept(ps) /\ store.nextJob \in JobIds(store') /\ store'.jobs[store.nextJob] = j
<1>1. store.nextJob \in Nat /\ \A i \in JobIds(store) : i \in Nat /\ i < store.nextJob
  BY DEF IsStore, IsQueue, JobIds
<1>2. \A i \in JobIds(store) : i # store.nextJob
  BY <1>1
<1>3. JobIds(store') = JobIds(store) \cup {store.nextJob} /\ store'.jobs[store.nextJob] = j
      /\ \A i \in JobIds(store) : i # store.nextJob => store'.jobs[i] = jobs[i]
  <2> DEFINE n == store.nextJob
  <2> HIDE DEF n
  <2>1. store'.jobs = Added(jobs, n, j)
    BY DEF n
  <2>2. JobIds(store') = JobIds(store) \cup {n} /\ store'.jobs[n] = j
        /\ \A i \in JobIds(store) : i # n => store'.jobs[i] = jobs[i]
    BY <2>1 DEF Added, JobIds
  <2> QED BY <2>2 DEF n
<1> QED BY <1>2, <1>3 DEF OthersKept

LEMMA ServiceServes ==
    ASSUME BaseInv, PassInv, RunInv, OrderInv, WhileUp, ServedInv, ServiceEffect, UNCHANGED engine
    PROVE  ServedInv'
<1>f. IsStore(store) /\ store.entries \in [Paths -> Entry]
      /\ \A i \in JobIds(store) : store.jobs[i] \in Job /\ JobOK(store.jobs[i])
  BY DEF BaseInv, StoreShape, GoodStore, IsStore, IsQueue, JobIds
<1>k. KindOf("pending_upload") = "upload" /\ KindOf("pending_delete") = "delete"
      /\ KindOf("pending_rename") = "rename" /\ ~Pending("absent") /\ ~Pending("local_only")
      /\ ~Pending("synced")
  BY KindOfPending DEF Pending
<1>n. ~Spent(store.nextJob) /\ \A i \in JobIds(store) : store.jobs[i].state # "running" => ~Spent(i)
  BY NotSpent
<1>1. CASE StoreKept
  <2>1. OthersKept({}) /\ EntriesKept({})
    BY <1>1 DEF StoreKept, OthersKept, EntriesKept, JobIds
  <2> QED BY <2>1, ServedElsewhere
<1>2. ASSUME NEW p \in Paths, NEW e, e.sync = "pending_upload", Uploaded(p, e) PROVE ServedInv'
  <2> DEFINE j == NewJob("upload", p, None, e)
             jobs == WithoutWrites(store.jobs, p)
  <2>1. store'.entries = [store.entries EXCEPT ![p] = e] /\ store'.jobs = Added(jobs, store.nextJob, j)
    BY <1>2 DEF Uploaded, Result
  <2>2. DOMAIN jobs = JobIds(store)
        /\ \A i \in JobIds(store) : store.jobs[i].path \notin {p} => jobs[i] = store.jobs[i]
    BY <1>f, ClosedOthers DEF WithoutWrites
  <2>3. j.path = p /\ Serves(j, e)
    BY <1>2, <1>k DEF NewJob, Serves, SameFile
  <2> HIDE DEF j, jobs
  <2>4. OthersKept({p}) /\ store.nextJob \in JobIds(store') /\ store'.jobs[store.nextJob] = j
    BY <1>f, <2>1, <2>2, AddedServes
  <2>5. EntriesKept({p}) /\ store'.entries[p] = e
    BY <1>f, <2>1 DEF EntriesKept
  <2>6. Served(p)'
    BY <1>n, <2>3, <2>4, <2>5, NewServer
  <2> QED BY <2>4, <2>5, <2>6, ServedElsewhere
<1>3. ASSUME NEW p \in Paths, NEW e, e.sync = "local_only", RangeWritten(p, e) PROVE ServedInv'
  <2>1. store'.entries = [store.entries EXCEPT ![p] = e] /\ store'.jobs = WithoutWrites(store.jobs, p)
    BY <1>3 DEF RangeWritten, Result
  <2>2. OthersKept({p})
    BY <1>f, <2>1, ClosedOthers DEF WithoutWrites, OthersKept, JobIds
  <2>3. EntriesKept({p}) /\ ~Pending(store'.entries[p].sync)
    BY <1>f, <1>k, <1>3, <2>1 DEF EntriesKept
  <2> QED BY <2>2, <2>3, ServedElsewhere
<1>4. ASSUME NEW p \in Paths, NEW q \in Paths, NEW e, e.sync = "pending_upload", MovedLocally(p, q, e)
      PROVE  ServedInv'
  <2> DEFINE j == NewJob("upload", q, None, e)
             jobs == Closed(Closed(store.jobs, p, {"upload"}), q, {"upload"})
  <2>1. store'.entries = [[store.entries EXCEPT ![p] = NoEntry] EXCEPT ![q] = e]
        /\ store'.jobs = Added(jobs, store.nextJob, j)
    BY <1>4 DEF MovedLocally, Result
  <2>2. DOMAIN jobs = JobIds(store)
        /\ \A i \in JobIds(store) : store.jobs[i].path \notin {p, q} => jobs[i] = store.jobs[i]
    BY <1>f, ClosedOthers
  <2>3. j.path = q /\ Serves(j, e)
    BY <1>4, <1>k DEF NewJob, Serves, SameFile
  <2> HIDE DEF j, jobs
  <2>4. OthersKept({p, q}) /\ store.nextJob \in JobIds(store') /\ store'.jobs[store.nextJob] = j
    BY <1>f, <2>1, <2>2, AddedServes
  <2>5. EntriesKept({p, q}) /\ store'.entries[q] = e /\ (p # q => store'.entries[p] = NoEntry)
    BY <1>f, <2>1 DEF EntriesKept
  <2>6. Served(q)'
    BY <1>n, <2>3, <2>4, <2>5, NewServer
  <2>7. p # q => ~Pending(store'.entries[p].sync)
    BY <1>k, <2>5 DEF NoEntry
  <2> QED BY <2>4, <2>5, <2>6, <2>7, ServedElsewhere
<1>5. ASSUME NEW p \in Paths, NEW s, NEW j, store'.entries = [store.entries EXCEPT ![p].sync = s],
             store'.jobs = Added(store.jobs, store.nextJob, j), j.path = p, j.kind = KindOf(s),
             j.state = "queued", j.kind # "delete" => SameFile(store.entries[p], j)
      PROVE  ServedInv'
  <2>1. OthersKept({p}) /\ store.nextJob \in JobIds(store') /\ store'.jobs[store.nextJob] = j
    BY <1>f, <1>5, AddedServes DEF JobIds
  <2>2. EntriesKept({p})
    BY <1>f, <1>5 DEF EntriesKept
  <2>3. Serves(j, store'.entries[p])
    BY <1>f, <1>5, SyncSetAt DEF Serves, SameFile
  <2>4. Served(p)'
    BY <1>5, <1>n, <2>1, <2>3, NewServer
  <2> QED BY <2>1, <2>2, <2>4, ServedElsewhere
<1>6. ASSUME NEW p \in Paths, DeleteQueued(p) PROVE ServedInv'
  <2> DEFINE j == NewJob("delete", p, None, NoEntry)
  <2>1. store'.entries = [store.entries EXCEPT ![p].sync = "pending_delete"]
        /\ store'.jobs = Added(store.jobs, store.nextJob, j)
    BY <1>6 DEF DeleteQueued, Result
  <2>2. j.path = p /\ j.kind = "delete" /\ j.state = "queued"
    BY DEF NewJob
  <2> HIDE DEF j
  <2> QED BY <1>5, <1>k, <2>1, <2>2
<1>7. ASSUME NEW p \in Paths, NEW q, RenameQueued(p, q) PROVE ServedInv'
  <2> DEFINE j == NewJob("rename", p, q, store.entries[p])
  <2>1. store'.entries = [store.entries EXCEPT ![p].sync = "pending_rename"]
        /\ store'.jobs = Added(store.jobs, store.nextJob, j)
    BY <1>7 DEF RenameQueued, Result
  <2>2. j.path = p /\ j.kind = "rename" /\ j.state = "queued" /\ SameFile(store.entries[p], j)
    BY DEF NewJob, SameFile
  <2> HIDE DEF j
  <2> QED BY <1>5, <1>k, <2>1, <2>2
<1>8. ASSUME NEW p \in Paths, Discarded(p) PROVE ServedInv'
  <2>1. store'.entries = [store.entries EXCEPT ![p] = NoEntry] /\ store'.jobs = Closed(store.jobs, p, JobKinds)
    BY <1>8 DEF Discarded, Result
  <2>2. OthersKept({p})
    BY <1>f, <2>1, ClosedAt, ClosedQueue DEF OthersKept, JobIds, IsStore
  <2>3. EntriesKept({p}) /\ ~Pending(store'.entries[p].sync)
    BY <1>f, <1>k, <2>1 DEF EntriesKept, NoEntry
  <2> QED BY <2>2, <2>3, ServedElsewhere
<1>9. \A c \in Clients : client[c].pc # "dropJobs"
  BY DEF BaseInv, OpsInv, CallOpOK, WhileUp, Without
<1>10. ASSUME NEW id \in JobIds(store), "retry" \in Ops, Retried(id) PROVE ServedInv'
  <2> DEFINE j == store.jobs[id]
             k == store'.jobs[id]
  <2>1. store'.jobs = Requeued(store.jobs, id) /\ j.state = "failed"
    BY <1>10 DEF Retried, Result
  <2>2. JobIds(store') = JobIds(store) /\ SameTask(k, j) /\ k.state = "queued"
        /\ \A i \in JobIds(store) : i # id => store'.jobs[i] = store.jobs[i]
    BY <1>f, <2>1, RequeuedAt DEF JobIds, IsStore
  <2>3. j.kind \in {"upload", "delete"} /\ j.path \in Paths
    BY <1>10, <1>f DEF OrderInv, OneOfAKind, WhileUp, Without, JobOK, Job, JobKinds
  <2>4. OthersKept({j.path}) /\ ~Spent(id)
    BY <1>n, <2>1, <2>2 DEF OthersKept
  \* Other servers of the path stay: the retried one was none.
  <2>5. ASSUME EntriesKept({}) PROVE ServedInv'
    <3> SUFFICES ASSUME NEW p \in Paths, Pending(store'.entries[p].sync) PROVE Served(p)'
      BY DEF ServedInv
    <3>1. store'.entries[p] = store.entries[p]
      BY <2>5 DEF EntriesKept
    <3>2. PICK i \in JobIds(store) :
              ~Spent(i) /\ store.jobs[i].path = p /\ Serves(store.jobs[i], store.entries[p])
      BY <3>1 DEF ServedInv, Served
    <3>3. i # id
      BY <2>1, <3>2 DEF Serves
    <3> QED BY <2>2, <3>1, <3>2, <3>3, NewServer
  <2>6. ASSUME EntriesKept({j.path}), store'.entries[j.path].sync = PendingSync(j.kind),
               j.kind = "upload" => SameFile(store'.entries[j.path], j)
        PROVE  ServedInv'
    <3>1. Serves(k, store'.entries[j.path])
      <4> HIDE DEF k, j
      <4> QED BY <1>k, <2>2, <2>3, <2>6 DEF Serves, SameTask, SameFile, PendingSync
    <3>2. PICK q \in Paths : q = j.path
      BY <2>3
    <3>3. k.path = q /\ Serves(k, store'.entries[q])
      BY <2>2, <3>1, <3>2 DEF SameTask
    <3>4. Served(q)'
      BY <2>2, <2>4, <3>3, NewServer
    <3>5. OthersKept({q}) /\ EntriesKept({q})
      BY <2>4, <2>6, <3>2
    <3> HIDE DEF j, k
    <3> QED BY <3>4, <3>5, ServedElsewhere
  <2>7. CASE /\ j.kind = "upload" /\ ~HasEntry(store, j.path)
             /\ store'.entries = [store.entries EXCEPT ![j.path] = RetriedEntry(j)]
    <3>1. EntriesKept({j.path}) /\ store'.entries[j.path] = RetriedEntry(j)
      BY <1>f, <2>3, <2>7 DEF EntriesKept
    <3>2. RetriedEntry(j).sync = PendingSync(j.kind) /\ SameFile(RetriedEntry(j), j)
      <4> HIDE DEF j
      <4> QED BY <2>7 DEF RetriedEntry, PendingSync, SameFile
    <3> QED BY <2>6, <3>1, <3>2
  <2>8. CASE /\ j.kind = "upload" => SameFile(store.entries[j.path], j)
             /\ store'.entries = [store.entries EXCEPT ![j.path].sync = PendingSync(j.kind)]
    <3>1. LET e == store'.entries[j.path]
          IN  e.sync = PendingSync(j.kind) /\ e.md5 = store.entries[j.path].md5
              /\ e.size = store.entries[j.path].size /\ e.cachePath = store.entries[j.path].cachePath
      BY <1>f, <2>3, <2>8, SyncSetAt
    <3>2. EntriesKept({j.path})
      BY <1>f, <2>8 DEF EntriesKept
    <3>3. j.kind = "upload" => SameFile(store'.entries[j.path], j)
      BY <2>8, <3>1 DEF SameFile
    <3> QED BY <2>6, <3>1, <3>2, <3>3
  <2>9. CASE store'.entries = store.entries
    BY <2>5, <2>9 DEF EntriesKept
  <2> QED BY <1>10, <2>7, <2>8, <2>9 DEF Retried, Result
<1>11. ASSUME NEW p \in Paths, NEW v, Fetched(p, v) PROVE ServedInv'
  <2>1. store'.entries = [store.entries EXCEPT ![p] = CachedEntry(p, v, "synced")] /\ store'.jobs = store.jobs
    BY <1>11 DEF Fetched, Result
  <2>2. OthersKept({p}) /\ EntriesKept({p})
    BY <1>f, <2>1 DEF OthersKept, EntriesKept, JobIds
  <2>3. ~Pending(store'.entries[p].sync)
    BY <1>f, <1>k, <2>1 DEF CachedEntry
  <2> QED BY <2>2, <2>3, ServedElsewhere
<1>12. ASSUME NEW ids \in SUBSET JobIds(store), Pruned(ids) PROVE ServedInv'
  <2>1. store'.entries = store.entries /\ store'.jobs = Restrict(store.jobs, ids)
        /\ \A i \in JobIds(store) \ ids : store.jobs[i].state \in {"done", "failed"}
    BY <1>12 DEF Pruned, Result
  <2>2. JobIds(store') = ids /\ \A i \in ids : store'.jobs[i] = store.jobs[i]
    BY <2>1 DEF Restrict, JobIds
  <2> SUFFICES ASSUME NEW p \in Paths, Pending(store'.entries[p].sync) PROVE Served(p)'
    BY DEF ServedInv
  <2>3. PICK i \in JobIds(store) :
            ~Spent(i) /\ store.jobs[i].path = p /\ Serves(store.jobs[i], store.entries[p])
    BY <2>1 DEF ServedInv, Served
  <2>4. i \in ids
    BY <2>1, <2>3 DEF Serves
  <2> QED BY <2>1, <2>2, <2>3, <2>4, NewServer
<1>13. \A p, v : CachedEntry(p, v, "pending_upload").sync = "pending_upload"
                 /\ RangeEntry(p, v).sync = "local_only"
  BY DEF CachedEntry, RangeEntry
<1>14. \A c \in Clients : MovedEntry(c).sync = "pending_upload"
  BY DEF MovedEntry, BaseInv, ClientTypeOK, Entry
<1>15. \A c \in Clients : /\ client[c].pc \in {"commit", "moveRemote", "discard"} => client[c].path \in Paths
                          /\ client[c].op = "rename" => client[c].dest \in Paths
  BY DEF BaseInv, CallsOK, CallOK, ClientTypeOK
<1> QED BY <1>1, <1>2, <1>3, <1>4, <1>6, <1>7, <1>8, <1>9, <1>10, <1>11, <1>12, <1>13, <1>14, <1>15
        DEF ServiceEffect

\* The entry keeps its kind and its file; so do the jobs, unless they were spent.
KeepsFile(p) ==
    LET e == store.entries[p]
        f == store'.entries[p]
    IN  /\ Pending(e.sync) /\ KindOf(f.sync) = KindOf(e.sync)
        /\ f.cachePath = e.cachePath /\ f.md5 = e.md5 /\ f.size = e.size

KeepsServing(i) ==
    /\ i \in JobIds(store') /\ SameTask(store'.jobs[i], store.jobs[i])
    /\ store'.jobs[i].state \in {"queued", "running"} /\ ~Spent(i)'

LEMMA ServerKept ==
    ASSUME ServedInv, NEW p \in Paths, KeepsFile(p),
           \A i \in JobIds(store) :
               (~Spent(i) /\ store.jobs[i].path = p /\ Serves(store.jobs[i], store.entries[p]))
                   => KeepsServing(i)
    PROVE  Served(p)'
<1>1. PICK i \in JobIds(store) :
          ~Spent(i) /\ store.jobs[i].path = p /\ Serves(store.jobs[i], store.entries[p])
  BY DEF ServedInv, Served, KeepsFile
<1>2. KeepsServing(i)
  BY <1>1
<1>3. store'.jobs[i].path = p /\ Serves(store'.jobs[i], store'.entries[p])
  BY <1>1, <1>2 DEF KeepsServing, KeepsFile, Serves, SameTask, SameFile
<1> QED BY <1>2, <1>3 DEF KeepsServing, Served

\* The job at hand serves an entry that it will find to be its own.
LEMMA CurrentServes ==
    ASSUME BaseInv, PassInv, Left # {}, NEW p, CurrentId \in JobIds(store),
           store.jobs[CurrentId].path = p, Serves(store.jobs[CurrentId], store.entries[p]),
           Pending(store.entries[p].sync), p \in Paths
    PROVE  /\ p = Current.path /\ Current.kind = KindOf(store.entries[p].sync)
           /\ \A s : StillOf(store, Current, s)
           /\ Current.kind = "upload" => \A s : UploadJobMatches(store, Current, s)
           /\ Current.kind = "delete" => store.entries[p].sync \in DeletePending
           /\ Current.kind = "rename" => RenameEntryMatchesJob(store.entries[p], Current)
<1>1. SameTask(Current, store.jobs[CurrentId])
  BY CurrentFacts DEF BaseInv, PassInv, Current
<1> DEFINE j == Current
           e == store.entries[p]
<1>2. j.path = p /\ j.kind = KindOf(e.sync) /\ (j.kind # "delete" => SameFile(e, j))
  BY <1>1 DEF SameTask, Serves, SameFile
<1> HIDE DEF j
<1>3. HasEntry(store, p)
  BY DEF HasEntry, Pending
<1>4. j.kind = "upload" => e.sync \in {"pending_upload", "uploading"}
  BY <1>2 DEF KindOf, Pending, DeletePending
<1>5. j.kind = "delete" => e.sync \in DeletePending
  BY <1>2 DEF KindOf, Pending, DeletePending
<1>6. j.kind = "rename" => e.sync = "pending_rename"
  BY <1>2 DEF KindOf, Pending, DeletePending
<1>7. j.kind = "upload" => \A s : UploadJobMatches(store, j, s)
  BY <1>2, <1>3, <1>4 DEF UploadJobMatches, SameFile
<1>8. j.kind = "rename" => RenameEntryMatchesJob(e, j)
  BY <1>2, <1>6 DEF RenameEntryMatchesJob, SameFile
<1>9. j.kind \in JobKinds
  BY CurrentFacts DEF j, BaseInv
<1>10. \A s : StillOf(store, j, s)
  BY <1>2, <1>5, <1>6, <1>7, <1>9 DEF StillOf, JobKinds
<1> QED BY <1>2, <1>5, <1>7, <1>8, <1>10 DEF j

\* A job of the queue that is not at hand, under a step of the engine.
LEMMA OtherServes ==
    ASSUME NEW i \in JobIds(store), i # CurrentId, store.jobs[i].state \in {"queued", "running"},
           QueueKept \/ \E s : EngineJobs(s),
           (CurrentId' = CurrentId) \/ engine'.pc \notin {"unlink", "done"}
    PROVE  KeepsServing(i)
<1>1. i \in JobIds(store') /\ store'.jobs[i] = store.jobs[i]
  BY DEF QueueKept, EngineJobs, JobIds
<1>2. ~Spent(i)'
  BY DEF Spent
<1> QED BY <1>1, <1>2 DEF KeepsServing, SameTask

LEMMA EngineServes ==
    ASSUME BaseInv, PassInv, RunInv, ServedInv, EngineEffect
    PROVE  ServedInv'
<1> DEFINE Hand(p) == /\ CurrentId \in JobIds(store) /\ ~Spent(CurrentId)
                      /\ store.jobs[CurrentId].path = p
                      /\ Serves(store.jobs[CurrentId], store.entries[p])
           Ongoing == engine'.pc \notin {"unlink", "done"}
           Keeps(p) == Pending(store'.entries[p].sync) =>
                           KeepsFile(p) /\ (Hand(p) => KeepsServing(CurrentId))
<1>f. StoreShape /\ EngineShape /\ IsStore(store) /\ store.entries \in [Paths -> Entry]
      /\ store.written = {}
  BY DEF BaseInv, StoreShape, GoodStore, IsStore
<1>l. engine.pc \notin {"idle", "loop"} => Left # {}
  BY <1>f DEF EngineShape, EngineOK
<1>c. Left # {} => Current.path \in Paths /\ Current.kind \in JobKinds
  BY <1>f, CurrentFacts
<1>m. ASSUME NEW pc, MovedOn(pc) PROVE CurrentId' = CurrentId /\ engine'.pc = pc
  BY <1>m DEF MovedOn, CurrentId, Left
<1>x. \A deferred : NextJob(deferred) => engine'.pc = "loop"
  BY <1>f DEF NextJob, EngineShape, EngineTypeOK
<1>g. ASSUME QueueKept \/ \E s : EngineJobs(s), CurrentId' = CurrentId \/ Ongoing,
             \A p \in Paths : Keeps(p)
      PROVE  ServedInv'
  <2> SUFFICES ASSUME NEW p \in Paths, Pending(store'.entries[p].sync) PROVE Served(p)'
    BY DEF ServedInv
  <2>1. KeepsFile(p) /\ (Hand(p) => KeepsServing(CurrentId))
    BY <1>g
  <2>2. ASSUME NEW i \in JobIds(store), ~Spent(i), store.jobs[i].path = p,
               Serves(store.jobs[i], store.entries[p])
        PROVE  KeepsServing(i)
    <3>1. CASE i = CurrentId
      BY <2>1, <2>2, <3>1
    <3>2. CASE i # CurrentId
      BY <2>2, <1>g, <3>2, OtherServes DEF Serves
    <3> QED BY <3>1, <3>2
  <2> QED BY <2>1, <2>2, ServerKept
\* What the pieces give.
<1>k. ASSUME QueueKept, Ongoing, NEW p, Hand(p) PROVE KeepsServing(CurrentId)
  BY <1>k DEF QueueKept, KeepsServing, SameTask, JobIds, Serves, Spent
<1>j. ASSUME NEW s \in {"queued", "running"}, EngineJobs(s), Ongoing, NEW p, Hand(p)
      PROVE  KeepsServing(CurrentId)
  BY <1>j DEF EngineJobs, KeepsServing, Spent
<1>s. ASSUME NEW p \in Paths, store'.entries[p] = store.entries[p], Pending(store'.entries[p].sync)
      PROVE  KeepsFile(p)
  BY <1>s DEF KeepsFile
<1>h. ASSUME Left # {}, NEW p \in Paths, Hand(p), Pending(store.entries[p].sync)
      PROVE  /\ p = Current.path /\ \A s : StillOf(store, Current, s)
             /\ Current.kind = "upload" => \A s : UploadJobMatches(store, Current, s)
             /\ Current.kind = "delete" => store.entries[p].sync \in DeletePending
             /\ Current.kind = "rename" => RenameEntryMatchesJob(store.entries[p], Current)
  BY <1>h, CurrentServes
\* A step that leaves the entries and the jobs that serve.
<1>a. ASSUME store'.entries = store.entries, Ongoing,
             QueueKept \/ \E s \in {"queued", "running"} : EngineJobs(s)
      PROVE  ServedInv'
  BY <1>a, <1>k, <1>j, <1>s, <1>g
\* The job at hand is over, and served nobody.
<1>b. ASSUME store'.entries = store.entries, QueueKept \/ \E s : EngineJobs(s),
             CurrentId' = CurrentId \/ Ongoing,
             \A p \in Paths : Pending(store.entries[p].sync) => ~Hand(p)
      PROVE  ServedInv'
  <2>1. \A p \in Paths : Keeps(p)
    BY <1>b, <1>s
  <2> HIDE DEF Hand
  <2> QED BY <1>b, <1>g, <2>1
<1>1. CASE UNCHANGED <<store, fresh>> /\ EngineWalks
  BY <1>1, <1>x, <1>a DEF EngineWalks, EngineIdle, QueueKept
<1>2. CASE UNCHANGED <<store, fresh>> /\ EngineMoves
  <2>1. CASE Ongoing
    BY <1>2, <1>a, <2>1 DEF QueueKept
  <2>2. CASE ~Ongoing
    <3>1. \/ /\ engine.pc = "mark" /\ Current.kind = "upload"
             /\ ~UploadJobMatches(store, Current, "uploading") /\ MovedOn("done")
          \/ engine.pc = "unlink" /\ MovedOn("done")
      BY <1>2, <1>m, <2>2 DEF EngineMoves
    <3>2. CurrentId' = CurrentId
      BY <1>m, <3>1
    <3>3. \A p \in Paths : Pending(store.entries[p].sync) => ~Hand(p)
      <4>1. CASE engine.pc = "unlink"
        BY <4>1 DEF Spent
      <4>2. CASE engine.pc = "mark" /\ Current.kind = "upload"
                 /\ ~UploadJobMatches(store, Current, "uploading")
        BY <1>h, <1>l, <4>2
      <4> QED BY <3>1, <4>1, <4>2
    <3> QED BY <1>2, <1>b, <3>2, <3>3 DEF QueueKept
  <2> QED BY <2>1, <2>2
<1>3. CASE EngineStarts
  <2>1. Ongoing /\ store'.entries = store.entries
    BY <1>3, <1>m DEF EngineStarts, Result
  <2>2. EngineJobs("running")
    BY <1>3, <1>f, JobUpdateJobs DEF EngineStarts, CanStart, Result
  <2> QED BY <1>a, <2>1, <2>2
\* The entry of the job at hand gets another state of its kind.
<1>e. ASSUME NEW p \in Paths, NEW s, store'.entries = [store.entries EXCEPT ![p].sync = s],
             Pending(store.entries[p].sync), KindOf(s) = KindOf(store.entries[p].sync)
      PROVE  \A q \in Paths : Pending(store'.entries[q].sync) => KeepsFile(q)
  <2>1. \A q \in Paths : q # p => store'.entries[q] = store.entries[q]
    BY <1>e, <1>f
  <2>2. LET e == store'.entries[p]
        IN  e.sync = s /\ e.md5 = store.entries[p].md5 /\ e.size = store.entries[p].size
            /\ e.cachePath = store.entries[p].cachePath
    BY <1>e, <1>f, SyncSetAt
  <2>3. KeepsFile(p)
    BY <1>e, <2>2 DEF KeepsFile
  <2> QED BY <1>s, <2>1, <2>3
<1>4. CASE EngineMarks
  <2>1. engine.pc = "mark" /\ QueueKept /\ Ongoing
    BY <1>4, <1>m DEF EngineMarks, Result, QueueKept
  <2>2. Current.path \in Paths
    BY <1>c, <1>l, <2>1
  <2>3. \A q \in Paths : Pending(store'.entries[q].sync) => KeepsFile(q)
    <3>1. CASE /\ store.entries[Current.path].sync \in DeletePending
               /\ store'.entries = [store.entries EXCEPT ![Current.path].sync = "deleting"]
      BY <3>1, KindOfPending, <1>e, <2>2 DEF Pending, DeletePending
    <3>2. CASE /\ UploadJobMatches(store, Current, "uploading")
               /\ store'.entries = [store.entries EXCEPT ![Current.path].sync = "uploading"]
      BY <3>2, KindOfPending, <1>e, <2>2 DEF Pending, UploadJobMatches
    <3> QED BY <1>4, <3>1, <3>2 DEF EngineMarks, Result
  <2>4. \A p \in Paths : Keeps(p)
    BY <1>k, <2>1, <2>3
  <2> HIDE DEF Hand
  <2> QED BY <1>g, <2>1, <2>4
<1>5. CASE EngineSettles
  <2>1. PICK b : SettledAs(store, Current, b) /\ Batch(b)
    BY <1>5 DEF EngineSettles
  <2>2. engine.pc = "settle" /\ CurrentId' = CurrentId /\ Left # {} /\ Current.path \in Paths
    BY <1>5, <1>c, <1>l, <1>m DEF EngineSettles
  <2>3. QueueKept
    BY <1>f, <2>1, SettledKeepsQueue
  <2>h. ASSUME NEW entries, NEW ps, Holds(b, entries, store.jobs, store.nextJob, ps)
        PROVE  store'.entries = entries
    BY <1>f, <2>1, <2>h, BatchResult DEF Result
  <2>n. ~Pending(NoEntry.sync) /\ ~Pending("synced")
    BY DEF NoEntry, Pending
  \* Entries that change wait no longer; the job at hand serves at most its own.
  <2>g. ASSUME NEW ps, EntriesKept(ps), Current.path \in ps,
               \A p \in Paths : p \in ps => ~Pending(store'.entries[p].sync)
        PROVE  ServedInv'
    <3>1. ASSUME NEW p \in Paths, Pending(store'.entries[p].sync) PROVE KeepsFile(p) /\ ~Hand(p)
      BY <2>g, <3>1, <1>h, <1>s, <2>2 DEF EntriesKept
    <3> HIDE DEF Hand
    <3> QED BY <1>g, <2>2, <2>3, <3>1
  <2>4. CASE Marked(store, b, Current.path, "synced")
    <3>1. store'.entries = [store.entries EXCEPT ![Current.path].sync = "synced"]
      BY <2>4, <2>h DEF Marked
    <3>2. EntriesKept({Current.path}) /\ store'.entries[Current.path].sync = "synced"
      BY <1>f, <2>2, <3>1, SyncSetAt DEF EntriesKept
    <3> QED BY <2>g, <2>n, <3>2
  <2>5. CASE Holds(b, [store.entries EXCEPT ![Current.path] = NoEntry], store.jobs, store.nextJob,
                   store.written \cup {Current.path})
    BY <2>5, <2>h, <1>f, <2>2, <2>g, <2>n DEF EntriesKept
  <2>6. ASSUME NEW e, e = NormalizeNewEntry([store.entries[Current.path] EXCEPT !.sync = "synced"]),
               Holds(b, [[store.entries EXCEPT ![Current.dest] = e] EXCEPT ![Current.path] = NoEntry],
                     store.jobs, store.nextJob, (store.written \cup {Current.dest}) \cup {Current.path})
        PROVE  ServedInv'
    <3>1. store'.entries = [[store.entries EXCEPT ![Current.dest] = e] EXCEPT ![Current.path] = NoEntry]
      BY <2>6, <2>h
    <3>2. e.sync = "synced"
      BY <1>f, <2>2, <2>6 DEF NormalizeNewEntry, Entry
    <3>3. \A q \in Paths : store'.entries[q] = IF q = Current.path THEN NoEntry
                                               ELSE IF q = Current.dest THEN e ELSE store.entries[q]
      BY <1>f, <3>1
    <3> DEFINE ps == {Current.path, Current.dest}
    <3>4. EntriesKept(ps) /\ Current.path \in ps
      BY <3>3 DEF EntriesKept
    <3>5. \A p \in Paths : p \in ps => ~Pending(store'.entries[p].sync)
      BY <2>n, <3>2, <3>3
    <3> HIDE DEF ps
    <3> QED BY <2>g, <3>4, <3>5
  <2>7. CASE /\ Current.kind = "upload" => ~UploadJobMatches(store, Current, "synced")
             /\ Current.kind = "delete" => store.entries[Current.path].sync \notin DeletePending
             /\ Current.kind = "rename" => ~RenameEntryMatchesJob(store.entries[Current.path], Current)
             /\ b = store
    <3>1. store'.entries = store.entries
      BY <1>f, <2>1, <2>7, BatchOfStore
    <3>2. Current.kind \in {"upload", "delete", "rename"}
      BY <1>c, <2>2 DEF JobKinds
    <3>3. \A p \in Paths : Pending(store.entries[p].sync) => ~Hand(p)
      BY <1>h, <2>2, <2>7, <3>2
    <3> HIDE DEF Hand
    <3> QED BY <1>b, <2>2, <2>3, <3>1, <3>3
  <2> QED BY <2>1, <2>4, <2>5, <2>6, <2>7 DEF SettledAs
<1>o. ASSUME NEW s, NEW sync, OutcomeResult(s, sync), Ongoing, Left # {},
             \/ s = "failed" /\ sync = "error"
             \/ s = "queued" /\ sync = PendingSync(Current.kind)
      PROVE  ServedInv'
  <2>1. EngineJobs(s)
    BY <1>f, <1>o, OutcomeJobs
  <2>2. CASE ~StillOf(store, Current, sync) /\ store'.entries = store.entries
    <3>1. \A p \in Paths : Pending(store.entries[p].sync) => ~Hand(p)
      BY <1>h, <1>o, <2>2
    <3> HIDE DEF Hand
    <3> QED BY <1>b, <1>o, <2>1, <2>2, <3>1
  <2>3. CASE StillOf(store, Current, sync)
             /\ store'.entries = [store.entries EXCEPT ![Current.path].sync = sync]
    <3>p. Current.path \in Paths /\ Current.kind \in {"upload", "delete", "rename"}
      BY <1>c, <1>o DEF JobKinds
    <3>1. EntriesKept({Current.path}) /\ store'.entries[Current.path].sync = sync
      BY <1>f, <2>3, <3>p, SyncSetAt DEF EntriesKept
    <3>2. CASE s = "failed" /\ sync = "error"
      <4>1. ASSUME NEW p \in Paths, Pending(store'.entries[p].sync) PROVE KeepsFile(p) /\ ~Hand(p)
        BY <3>1, <3>2, <4>1, <1>h, <1>o, <1>s DEF EntriesKept, Pending
      <4> HIDE DEF Hand
      <4> QED BY <1>g, <1>o, <2>1, <4>1
    <3>3. CASE s = "queued" /\ sync = PendingSync(Current.kind)
      <4>1. Pending(store.entries[Current.path].sync)
            /\ KindOf(sync) = KindOf(store.entries[Current.path].sync)
        BY <2>3, <3>p, <3>3, KindOfPending
           DEF StillOf, Pending, PendingSync, UploadJobMatches, DeletePending
      <4>2. \A q \in Paths : Pending(store'.entries[q].sync) => KeepsFile(q)
        BY <1>e, <2>3, <3>p, <4>1
      <4>3. \A p \in Paths : Keeps(p)
        BY <1>j, <1>o, <2>1, <3>3, <4>2
      <4> HIDE DEF Hand
      <4> QED BY <1>g, <1>o, <2>1, <4>3
    <3> QED BY <1>o, <3>2, <3>3
  <2> QED BY <1>o, <2>2, <2>3 DEF OutcomeResult
<1>6. CASE EngineRecords
  <2>1. Ongoing
    BY <1>6, <1>x DEF EngineRecords
  <2>2. ASSUME engine.pc = "done", NextJob(engine.deferred),
               \/ /\ CurrentId \in JobIds(store)
                  /\ \E n \in Nat : Result(store.entries, JobUpdate(store, CurrentId, "done", n),
                                           store.nextJob, {})
               \/ CurrentId \notin JobIds(store) /\ UNCHANGED <<store, fresh>>
        PROVE  ServedInv'
    <3>1. EngineJobs("done") /\ store'.entries = store.entries
      BY <1>f, <2>2, JobUpdateJobs, QueueKeptJobs DEF Result, QueueKept
    <3>2. \A p \in Paths : ~Hand(p)
      BY <2>2 DEF Spent
    <3> HIDE DEF Hand
    <3> QED BY <1>b, <2>1, <3>1, <3>2
  <2>3. ASSUME UNCHANGED <<store, fresh>> PROVE ServedInv'
    BY <1>a, <2>1, <2>3 DEF QueueKept
  <2>4. engine.pc \in {"fail", "complete"} => Left # {}
    BY <1>l
  <2> QED BY <1>6, <1>o, <2>1, <2>2, <2>3, <2>4 DEF EngineRecords
<1> QED BY <1>1, <1>2, <1>3, <1>4, <1>5, <1>6 DEF EngineEffect

\* A sweep leaves every entry that waits alone.
LEMMA SweepServes ==
    ASSUME BaseInv, ServedInv, ReconcilerNext, UNCHANGED engine
    PROVE  ServedInv'
<1>1. StoreShape /\ store.entries \in [Paths -> Entry]
  BY DEF BaseInv, StoreShape, GoodStore, IsStore
<1>2. QueueKept
  BY SweepKeepsQueue
<1>3. \A ps : OthersKept(ps)
  BY <1>2 DEF OthersKept, QueueKept, JobIds
<1>4. CASE UNCHANGED store
  <2>1. OthersKept({}) /\ EntriesKept({})
    BY <1>3, <1>4 DEF EntriesKept
  <2> QED BY <2>1, ServedElsewhere
<1>5. ASSUME NEW s \in Sweepers, NEW p \in Paths, EntryWritten(p),
             Swept(s, p, store.entries[p], store'.entries[p])
      PROVE  ServedInv'
  <2>1. EntriesKept({p})
    BY <1>5 DEF EntryWritten, EntriesKept
  <2>2. ~Pending(store'.entries[p].sync)
    <3> DEFINE e == store.entries[p]
               f == store'.entries[p]
    <3>1. e \in Entry /\ Swept(s, p, e, f)
      BY <1>1, <1>5
    <3> HIDE DEF e, f
    <3>2. \A v, md5 : e.sync = "synced" => NormalizeNewEntry(ReadyEntry(e, v, md5)).sync = "synced"
      BY <3>1 DEF ReadyEntry, NormalizeNewEntry, Entry
    <3>3. \A v, md5 : RemoteEntry(v, md5).sync = "remote_only"
      BY DEF RemoteEntry
    <3>4. f.sync \in {"remote_only", "absent", "synced"}
      BY <3>1, <3>2, <3>3 DEF Swept, NoEntry
    <3> QED BY <3>4 DEF Pending, f
  <2> QED BY <1>3, <2>1, <2>2, ServedElsewhere
<1> QED BY <1>1, <1>4, <1>5, SweepCases, SweepWritesOne

LEMMA UpStep ==
    ASSUME BaseInv, PassInv, RunInv, OrderInv, UpInv, [Next]_vars
    PROVE  UpInv'
<1>o. Ops' = Ops
  BY DEF Next, vars, Ops, Here
<1>w. WhileUp' <=> WhileUp
  BY <1>o DEF WhileUp, Without
<1> SUFFICES ASSUME WhileUp, ServedInv PROVE ServedInv'
  BY <1>w DEF UpInv
<1>f. ServiceShape /\ SyncShape /\ StoreShape /\ EngineShape
  BY BaseShapes DEF BaseInv
<1>k. ASSUME UNCHANGED <<store, engine>> PROVE ServedInv'
  <2>1. OthersKept({}) /\ EntriesKept({})
    BY <1>k DEF EntriesKept, OthersKept, JobIds
  <2> QED BY <1>k, <2>1, ServedElsewhere
<1>1. CASE UNCHANGED vars
  BY <1>1, <1>k DEF vars
<1>2. CASE EngineNext
  BY <1>2, <1>f, EngineStepEffect, EngineServes
<1>3. CASE ServiceNext /\ UNCHANGED <<engine, sweeper>>
  BY <1>3, <1>f, ServiceStepEffect, ServiceServes
<1>4. CASE ReconcilerNext /\ UNCHANGED <<engine, client>>
  BY <1>4, SweepServes
<1>5. CASE Crash
  BY <1>5 DEF Crash, WhileUp, Without
<1>6. ASSUME NEW p \in Paths, NEW v \in Contents \cup {None}, ControllerWrites(p, v) PROVE ServedInv'
  BY <1>6, <1>k DEF ControllerWrites
<1> QED BY <1>1, <1>2, <1>3, <1>4, <1>5, <1>6 DEF Next, Steps

\* UpInv is an invariant: while the proxy is up, what Upload, UploadRange,
\* Delete, Rename, RetryJob, a sweep or the engine does leaves every entry that
\* waits with a job of its own.
THEOREM SpecUp == Spec => []UpInv
<1>1. Init => UpInv
  BY DEF Init, SharedInit, EmptyStore, NoEntry, UpInv, ServedInv, Pending
<1>2. BaseInv /\ RunInv /\ (PassInv /\ OrderInv) /\ UpInv /\ [Next]_vars => UpInv'
  BY UpStep
<1> QED BY <1>1, <1>2, SpecBase, SpecRun, SpecOrder, PTL DEF Spec

\* PendingHasJobWhileUp: the catalog promises no work that the queue has
\* forgotten (the SyncState constants of types.go), for any number of files,
\* clients and jobs and on a disk that refuses batches.
THEOREM PendingStaysQueued == Spec => []PendingHasJobWhileUp
<1>1. UpInv => PendingHasJobWhileUp
  BY DEF UpInv, WhileUp, ServedInv, Served, Serves, SameFile, PendingHasJobWhileUp, PendingHasJob
<1> QED BY <1>1, SpecUp, PTL

-----------------------------------------------------------------------------
(* The cache.  Uploads, ranges and fetches hold commitMu from the moment    *)
(* they move the old file away until their batch is through or undone, and  *)
(* what they moved away is what the entry names.                            *)

\* The scenes of CacheHoldsUploads.
Calm == Without({"crash", "rename", "delete", "discard", "retry"})

\* An entry names the cache file of its own path, or none.
CachedAt(p, e) ==
    /\ e.cachePath \in {None, p}
    /\ e.cacheState = IF e.cachePath = None THEN "none" ELSE "ready"
    /\ (e.cachePath # None /\ e.sync # "local_only") => e.md5 # None

\* There is a cache file whose content the entry names.
Names(e) == e.cachePath # None /\ e.md5 # None

Replacing(rec) == rec.pc \in {"replace", "commit"}

\* A caller that replaces a file, or removes orphans, holds the lock.
CallCached(c) ==
    LET rec == client[c]
    IN  /\ Replacing(rec) \/ rec.pc = "sweep" => commitMu = c
        /\ Replacing(rec) => rec.source = None /\ rec.op # "rename"
        /\ rec.pc = "commit" => cache[rec.path] = rec.val
        /\ Replacing(rec) /\ Names(store.entries[rec.path]) =>
               rec.backup = store.entries[rec.path].md5
        /\ rec.pc = "sweep" => \A p \in rec.files : store.entries[p].cachePath = None

OnlyUploads ==
    /\ \A i \in JobIds(store) : store.jobs[i].kind = "upload"
    /\ \A i \in Left : engine.queue[i].kind = "upload"
    /\ engine.pc # "unlink"

Undisturbed(p) == \A c \in Clients : Replacing(client[c]) => client[c].path # p

HeldFiles ==
    \A p \in Paths : Names(store.entries[p]) /\ Undisturbed(p) => cache[p] = store.entries[p].md5

CacheInv ==
    /\ \A p \in Paths : CachedAt(p, store.entries[p])
    /\ \A c \in Clients : CallCached(c)
    /\ OnlyUploads
    /\ HeldFiles

CalmInv == Calm => CacheInv

\* Elsewhere than in a caller's commit an entry keeps its file or gives it up.
KeepsOrDrops(e, f) ==
    \/ f.cachePath = None /\ f.cacheState = "none"
    \/ /\ f.cachePath = e.cachePath /\ f.md5 = e.md5 /\ f.cacheState = e.cacheState
       /\ e.sync = "local_only" => f.sync = "local_only"

LEMMA KeepsOrDropsCache ==
    ASSUME CacheInv, OnlyUploads', UNCHANGED <<client, cache, commitMu>>,
           ClientTypeOK, CallsOK,
           \A p \in Paths : KeepsOrDrops(store.entries[p], store'.entries[p])
    PROVE  CacheInv'
<1>1. \A p \in Paths : CachedAt(p, store'.entries[p])
  BY DEF CacheInv, CachedAt, KeepsOrDrops
<1>2. \A p \in Paths : Names(store'.entries[p]) =>
          Names(store.entries[p]) /\ store'.entries[p].md5 = store.entries[p].md5
  BY DEF KeepsOrDrops, Names
<1>3. \A p \in Paths : store.entries[p].cachePath = None => store'.entries[p].cachePath = None
  BY DEF KeepsOrDrops
<1>4. ASSUME NEW c \in Clients PROVE CallCached(c)'
  BY CallerFacts, <1>2, <1>3 DEF CacheInv, CallOK, CallRecords, Replacing, CallCached
<1>5. HeldFiles'
  BY <1>2 DEF CacheInv, HeldFiles, Undisturbed
<1> QED BY <1>1, <1>4, <1>5 DEF CacheInv

\* A caller that goes from rec0 to rec with the lock in its hands alone.
Alone(c) == \A k \in Clients : k # c => ~Replacing(client[k]) /\ client[k].pc # "sweep"

LEMMA LockIsHeldAlone ==
    ASSUME CacheInv, NEW c \in Clients, commitMu \in {c, "free"}
    PROVE  Alone(c)
<1>1. \A k \in Clients : k # "free" /\ k \in Readers
  BY SyncStateAssumption DEF Readers
<1> QED BY <1>1 DEF CacheInv, CallCached, Alone

\* Who is alone has only itself and the files to look after.
LEMMA AloneCache ==
    ASSUME CacheInv, NEW c \in Clients, ClientTypeOK, NEW rec, Become(c, rec), Alone(c),
           OnlyUploads', \A p \in Paths : CachedAt(p, store'.entries[p]), CallCached(c)', HeldFiles'
    PROVE  CacheInv'
<1>1. \A k \in Clients : k # c => client'[k] = client[k]
  BY DEF ClientTypeOK, Become
<1>2. \A k \in Clients : k # c => CallCached(k)'
  BY <1>1 DEF Alone, CallCached, Replacing
<1> QED BY <1>2 DEF CacheInv

LEMMA BecomeAt ==
    ASSUME ClientTypeOK, NEW c \in Clients, NEW rec, Become(c, rec)
    PROVE  client'[c] = rec /\ \A k \in Clients : k # c => client'[k] = client[k]
BY DEF ClientTypeOK, Become

\* The old file moves away.
LEMMA BackupCache ==
    ASSUME CacheInv, CacheTyped, ClientTypeOK, NEW c \in Clients, NEW rec \in CallRecords, rec.path \in Paths,
           rec.source = None, rec.op # "rename", BackupCacheTarget(c, rec, rec.path), ~Replacing(client[c]),
           UNCHANGED <<store, engine>>
    PROVE  CacheInv'
<1> DEFINE p == rec.path
           new == [rec EXCEPT !.pc = "replace", !.backup = cache[p]]
<1>1. Become(c, new) /\ commitMu = "free" /\ commitMu' = c /\ cache' = [cache EXCEPT ![p] = None]
  BY DEF BackupCacheTarget
<1>2. new.pc = "replace" /\ new.path = p /\ new.source = None /\ new.op # "rename" /\ new.backup = cache[p]
  BY DEF CallRecords
<1>3. p \in Paths
  OBVIOUS
<1> HIDE DEF new, p
<1>4. Alone(c) /\ client'[c] = new /\ \A k \in Clients : k # c => client'[k] = client[k]
  BY <1>1, LockIsHeldAlone, BecomeAt
<1>5. \A k \in Clients : ~Replacing(client[k])
  BY <1>4 DEF Alone
<1>6. OnlyUploads' /\ \A q \in Paths : CachedAt(q, store'.entries[q])
  BY DEF CacheInv, OnlyUploads, Left
<1>7. Names(store.entries[p]) => cache[p] = store.entries[p].md5
  BY <1>3, <1>5 DEF CacheInv, HeldFiles, Undisturbed
<1>8. CallCached(c)'
  BY <1>1, <1>2, <1>4, <1>7 DEF CallCached, Replacing
<1>9. HeldFiles'
  <2> SUFFICES ASSUME NEW q \in Paths, Names(store'.entries[q]), Undisturbed(q)'
               PROVE  cache'[q] = store'.entries[q].md5
    BY DEF HeldFiles
  <2>1. q # p
    BY <1>2, <1>4 DEF Undisturbed, Replacing
  <2>2. cache[q] = store.entries[q].md5
    BY <1>5 DEF CacheInv, HeldFiles, Undisturbed
  <2> QED BY <1>1, <2>1, <2>2 DEF CacheTyped
<1> QED BY <1>1, <1>4, <1>6, <1>8, <1>9, AloneCache

\* The new one takes its place.
LEMMA ReplaceCache ==
    ASSUME CacheInv, CacheTyped, ClientTypeOK, CallsOK, NEW c \in Clients, ReplaceCacheFile(c), UNCHANGED engine
    PROVE  CacheInv'
<1> DEFINE p == client[c].path
           new == [client[c] EXCEPT !.pc = "commit"]
<1>f. client[c] \in CallRecords /\ CallOK(client[c]) /\ client[c].pc = "replace" /\ CallCached(c)
  BY CallerFacts DEF ReplaceCacheFile, CacheInv
<1>1. client[c].source = None /\ client[c].op # "rename" /\ p \in Paths /\ commitMu = c
  BY <1>f DEF CallCached, Replacing, CallOK, CallRecords
<1>2. Become(c, new) /\ UNCHANGED <<store, commitMu>> /\ cache' = [cache EXCEPT ![p] = client[c].val]
  BY <1>1 DEF ReplaceCacheFile, Replaced, Target
<1>3. new.pc = "commit" /\ new.path = p /\ new.source = None /\ new.op # "rename"
      /\ new.backup = client[c].backup /\ new.val = client[c].val
  BY <1>1, <1>f DEF CallRecords
<1> HIDE DEF new, p
<1>4. Alone(c) /\ client'[c] = new /\ \A k \in Clients : k # c => client'[k] = client[k]
  BY <1>1, <1>2, LockIsHeldAlone, BecomeAt
<1>5. OnlyUploads' /\ \A q \in Paths : CachedAt(q, store'.entries[q])
  BY <1>2 DEF CacheInv, OnlyUploads, Left
<1>6. CallCached(c)'
  <2>1. Names(store.entries[p]) => client[c].backup = store.entries[p].md5
    BY <1>f DEF CallCached, Replacing, p
  <2>2. cache'[p] = client[c].val
    BY <1>1, <1>2 DEF CacheTyped
  <2> QED BY <1>1, <1>2, <1>3, <1>4, <2>1, <2>2 DEF CallCached, Replacing
<1>7. HeldFiles'
  <2> SUFFICES ASSUME NEW q \in Paths, Names(store'.entries[q]), Undisturbed(q)'
               PROVE  cache'[q] = store'.entries[q].md5
    BY DEF HeldFiles
  <2>1. q # p
    BY <1>3, <1>4 DEF Undisturbed, Replacing
  <2>2. Undisturbed(q)
    BY <1>4, <2>1 DEF Undisturbed, Alone, p
  <2>3. cache[q] = store.entries[q].md5
    BY <1>2, <2>2 DEF CacheInv, HeldFiles
  <2> QED BY <1>2, <2>1, <2>3 DEF CacheTyped
<1> QED BY <1>2, <1>4, <1>5, <1>6, <1>7, AloneCache

\* The caller is through: its entry names what it wrote, or the old file is back.
LEMMA ReleaseCache ==
    ASSUME CacheInv, CacheTyped, ClientTypeOK, CallsOK, NEW c \in Clients, client[c].pc = "commit", Return(c),
           commitMu' = "free", OnlyUploads', store.entries \in [Paths -> Entry],
           \/ /\ UNCHANGED cache
              /\ \E e : /\ store'.entries = [store.entries EXCEPT ![client[c].path] = e]
                        /\ e.cachePath = client[c].path /\ e.cacheState = "ready"
                        /\ \/ e.md5 = client[c].val
                           \/ e.md5 = None /\ e.sync = "local_only"
           \/ store'.entries = store.entries /\ cache' = RolledBack(c)
    PROVE  CacheInv'
<1> DEFINE p == client[c].path
<1>f. client[c] \in CallRecords /\ CallOK(client[c]) /\ CallCached(c)
  BY CallerFacts DEF CacheInv
<1>1. client[c].source = None /\ client[c].op # "rename" /\ p \in Paths /\ commitMu = c
      /\ cache[p] = client[c].val /\ client[c].val # None
  BY <1>f DEF CallCached, Replacing, CallOK, CallRecords, ReplacementOK
<1>n. None \notin Paths
  BY StoreAssumption
<1>2. ClientIdle.pc = "idle" /\ Become(c, ClientIdle)
  BY DEF Return, ClientIdle
<1>3. Alone(c) /\ client'[c] = ClientIdle /\ \A k \in Clients : k # c => client'[k] = client[k]
  BY <1>1, <1>2, LockIsHeldAlone, BecomeAt
<1>4. CallCached(c)'
  BY <1>2, <1>3 DEF CallCached, Replacing
<1>5. \A q \in Paths : q # p => Undisturbed(q)
  BY <1>3 DEF Undisturbed, Alone
<1>6. \A q \in Paths : q # p /\ Names(store.entries[q]) => cache[q] = store.entries[q].md5
  BY <1>5 DEF CacheInv, HeldFiles
<1>7. ASSUME UNCHANGED cache,
             NEW e, store'.entries = [store.entries EXCEPT ![p] = e], e.cachePath = p,
             e.cacheState = "ready", e.md5 = client[c].val \/ (e.md5 = None /\ e.sync = "local_only")
      PROVE  CacheInv'
  <2>2. store'.entries[p] = e /\ \A q \in Paths : q # p => store'.entries[q] = store.entries[q]
    BY <1>1, <1>7
  <2>3. \A q \in Paths : CachedAt(q, store'.entries[q])
    BY <1>1, <1>n, <1>7, <2>2 DEF CachedAt, CacheInv
  <2>4. Names(e) => cache[p] = e.md5
    BY <1>1, <1>7 DEF Names
  <2>5. HeldFiles'
    BY <1>6, <1>7, <2>2, <2>4 DEF HeldFiles
  <2> QED BY <1>2, <1>3, <1>4, <2>3, <2>5, AloneCache
<1>8. CASE cache' = RolledBack(c) /\ store'.entries = store.entries
  <2>1. cache' = [cache EXCEPT ![p] = client[c].backup]
    BY <1>1, <1>8, <1>n DEF RolledBack, Target
  <2>2. cache'[p] = client[c].backup /\ \A q \in Paths : q # p => cache'[q] = cache[q]
    BY <1>1, <2>1 DEF CacheTyped
  <2>3. Names(store.entries[p]) => client[c].backup = store.entries[p].md5
    BY <1>f DEF CallCached, Replacing
  <2>4. HeldFiles'
    <3> SUFFICES ASSUME NEW q \in Paths, Names(store'.entries[q]) PROVE cache'[q] = store'.entries[q].md5
      BY DEF HeldFiles
    <3>1. store'.entries[q] = store.entries[q]
      BY <1>8
    <3>2. CASE q = p
      BY <2>2, <2>3, <3>1, <3>2
    <3>3. CASE q # p
      BY <1>6, <2>2, <3>1, <3>3
    <3> QED BY <3>2, <3>3
  <2>5. \A q \in Paths : CachedAt(q, store'.entries[q])
    BY <1>8 DEF CacheInv
  <2> QED BY <1>2, <1>3, <1>4, <2>4, <2>5, AloneCache
<1> QED BY <1>7, <1>8

\* Callers that hold no lock, before and after.
LEMMA BystanderCache ==
    ASSUME CacheInv, ClientTypeOK, NEW c \in Clients, NEW rec, Become(c, rec),
           ~Replacing(client[c]), ~Replacing(rec), rec.pc # "sweep",
           UNCHANGED <<store, cache, commitMu, engine>>
    PROVE  CacheInv'
<1>1. client'[c] = rec /\ \A k \in Clients : k # c => client'[k] = client[k]
  BY BecomeAt
<1>2. OnlyUploads' /\ \A q \in Paths : CachedAt(q, store'.entries[q])
  BY DEF CacheInv, OnlyUploads, Left
<1>3. \A k \in Clients : CallCached(k)'
  <2>1. CallCached(c)'
    BY <1>1 DEF CallCached, Replacing
  <2>2. ASSUME NEW k \in Clients, k # c PROVE CallCached(k)'
    BY <1>1, <2>2 DEF CacheInv, CallCached
  <2> QED BY <2>1, <2>2
<1>4. HeldFiles'
  BY <1>1 DEF Undisturbed, CacheInv, HeldFiles
<1> QED BY <1>2, <1>3, <1>4 DEF CacheInv

\* pruneCache takes no file that an entry names, and no entry gets one meanwhile.
LEMMA OrphansCache ==
    ASSUME CacheInv, CacheTyped, ClientTypeOK, CallsOK, NEW c \in Clients,
           PruneCache(c) \/ PruneCacheRemove(c), UNCHANGED engine
    PROVE  CacheInv'
<1>c. OnlyUploads' /\ \A q \in Paths : CachedAt(q, store'.entries[q])
  BY DEF CacheInv, OnlyUploads, Left, PruneCache, PruneCacheRemove
<1>n. None \notin Paths
  BY StoreAssumption
<1>1. CASE PruneCache(c)
  <2>1. PICK files \in SUBSET (Paths \ ReferencedFiles) :
            Become(c, [ClientIdle EXCEPT !.op = "prune", !.pc = "sweep", !.files = files])
    BY <1>1 DEF PruneCache
  <2>2. commitMu = "free" /\ commitMu' = c /\ UNCHANGED <<store, cache>>
    BY <1>1 DEF PruneCache
  <2> DEFINE rec == [ClientIdle EXCEPT !.op = "prune", !.pc = "sweep", !.files = files]
  <2>3. rec.pc = "sweep" /\ rec.files = files
    BY DEF ClientIdle
  <2>4. Become(c, rec)
    BY <2>1
  <2> HIDE DEF rec
  <2>5. Alone(c) /\ client'[c] = rec /\ \A k \in Clients : k # c => client'[k] = client[k]
    BY <2>2, <2>4, LockIsHeldAlone, BecomeAt
  <2>6. \A p \in files : store.entries[p].cachePath = None
    BY <2>1 DEF ReferencedFiles, CacheInv, CachedAt
  <2>7. CallCached(c)'
    BY <2>2, <2>3, <2>5, <2>6 DEF CallCached, Replacing
  <2>8. HeldFiles'
    <3>1. client[c].pc = "idle"
      BY <1>1 DEF PruneCache, Call
    <3>2. \A q \in Paths : Undisturbed(q)
      BY <2>5, <3>1 DEF Undisturbed, Alone, Replacing
    <3> QED BY <2>2, <3>2 DEF CacheInv, HeldFiles
  <2> QED BY <1>c, <2>4, <2>5, <2>7, <2>8, AloneCache
<1>2. CASE PruneCacheRemove(c)
  <2>1. client[c].pc = "sweep" /\ Become(c, ClientIdle) /\ UNCHANGED store
        /\ cache' = [p \in Paths |-> IF p \in client[c].files THEN None ELSE cache[p]]
    BY <1>2 DEF PruneCacheRemove, Return
  <2>2. commitMu = c /\ \A p \in client[c].files : store.entries[p].cachePath = None
    BY <2>1 DEF CacheInv, CallCached
  <2>3. ClientIdle.pc = "idle"
    BY DEF ClientIdle
  <2>4. Alone(c) /\ client'[c] = ClientIdle /\ \A k \in Clients : k # c => client'[k] = client[k]
    BY <2>1, <2>2, LockIsHeldAlone, BecomeAt
  <2>5. CallCached(c)'
    BY <2>3, <2>4 DEF CallCached, Replacing
  <2>6. HeldFiles'
    <3>1. \A q \in Paths : Undisturbed(q)
      BY <2>1, <2>4 DEF Undisturbed, Alone, Replacing
    <3>2. \A q \in Paths : Names(store.entries[q]) => cache'[q] = cache[q]
      BY <2>1, <2>2 DEF Names
    <3> QED BY <2>1, <3>1, <3>2 DEF CacheInv, HeldFiles
  <2> QED BY <1>c, <2>1, <2>4, <2>5, <2>6, AloneCache
<1> QED BY <1>1, <1>2

\* The batches of calm callers queue nothing but uploads.
LEMMA UploadsStay ==
    ASSUME IsStore(store), OnlyUploads, UNCHANGED engine,
           \/ UNCHANGED store
           \/ \E p, e : Uploaded(p, e) \/ RangeWritten(p, e)
           \/ \E p, v : Fetched(p, v)
           \/ \E ids \in SUBSET JobIds(store) : Pruned(ids)
    PROVE  OnlyUploads'
<1> SUFFICES ASSUME NEW i \in JobIds(store') PROVE store'.jobs[i].kind = "upload"
  BY DEF OnlyUploads, Left
<1>q. IsQueue(store.jobs) /\ DOMAIN store.jobs = JobIds(store)
  BY DEF IsStore, JobIds
<1>c. ASSUME NEW p
      PROVE  DOMAIN WithoutWrites(store.jobs, p) = JobIds(store)
             /\ \A k \in JobIds(store) : WithoutWrites(store.jobs, p)[k].kind = "upload"
  BY <1>q, ClosedTwice, ClosedOthers DEF WithoutWrites, MayClose, SameTask, OnlyUploads
<1>1. CASE UNCHANGED store
  BY <1>1 DEF OnlyUploads
<1>2. ASSUME NEW p, NEW e, Uploaded(p, e) PROVE store'.jobs[i].kind = "upload"
  <2> DEFINE n == store.nextJob
             j == NewJob("upload", p, None, e)
             jobs == WithoutWrites(store.jobs, p)
  <2>1. store'.jobs = Added(jobs, n, j) /\ j.kind = "upload"
    BY <1>2 DEF Uploaded, Result, NewJob
  <2>2. DOMAIN jobs = JobIds(store) /\ \A k \in JobIds(store) : jobs[k].kind = "upload"
    BY <1>c
  <2> HIDE DEF n, j, jobs
  <2> QED BY <2>1, <2>2 DEF Added, JobIds
<1>3. ASSUME NEW p, NEW e, RangeWritten(p, e) PROVE store'.jobs[i].kind = "upload"
  BY <1>3, <1>c DEF RangeWritten, Result, JobIds
<1>4. ASSUME NEW p, NEW v, Fetched(p, v) PROVE store'.jobs[i].kind = "upload"
  BY <1>4 DEF Fetched, Result, OnlyUploads, JobIds
<1>5. ASSUME NEW ids \in SUBSET JobIds(store), Pruned(ids) PROVE store'.jobs[i].kind = "upload"
  BY <1>5 DEF Pruned, Result, Restrict, JobIds, OnlyUploads
<1> QED BY <1>1, <1>2, <1>3, <1>4, <1>5

LEMMA ServiceCaches ==
    ASSUME BaseInv, Calm, CacheInv, ServiceNext, UNCHANGED engine
    PROVE  CacheInv'
<1>0. PICK c \in Clients :
        \/ \E p \in Paths, v \in Contents, op \in {"upload", "range"} : Upload(c, p, v, op)
        \/ ReplaceCacheFile(c) \/ CommitReplacement(c)
        \/ \E p \in Paths : Delete(c, p) \/ DiscardLocal(c, p) \/ Fetch(c, p)
        \/ EnqueueDelete(c) \/ DiscardBatch(c) \/ DiscardJobsBatch(c) \/ UnlinkDiscarded(c)
        \/ \E p, dest \in Paths : Rename(c, p, dest)
        \/ EnqueueRemoteRename(c) \/ RenameLocalUpload(c)
        \/ \E id \in JobIds(store) : Retry(c, id)
        \/ Download(c) \/ InstallFetched(c) \/ CommitFetch(c)
        \/ PruneJobs(c) \/ PruneCache(c) \/ PruneCacheRemove(c)
  BY DEF ServiceNext
<1>f. /\ ServiceShape /\ CacheTyped /\ ClientTypeOK /\ CallsOK /\ IsStore(store)
      /\ store.entries \in [Paths -> Entry] /\ OnlyUploads
      /\ client[c] \in CallRecords /\ CallOK(client[c]) /\ CallOpOK(client[c])
  BY BaseShapes, CallerFacts DEF BaseInv, StoreShape, GoodStore, IsStore, OpsInv, CacheInv
<1>o. {"rename", "delete", "discard", "retry"} \cap Ops = {}
  BY DEF Calm, Without
\* The calls that are not made here.
<1>1. ~(\E p \in Paths : Delete(c, p) \/ DiscardLocal(c, p))
  BY <1>o DEF Delete, DiscardLocal, Call
<1>2. ~(EnqueueDelete(c) \/ DiscardBatch(c) \/ DiscardJobsBatch(c) \/ UnlinkDiscarded(c))
  BY <1>f, <1>o DEF EnqueueDelete, DiscardBatch, DiscardJobsBatch, UnlinkDiscarded, CallOpOK
<1>3. ~(\E p, dest \in Paths : Rename(c, p, dest)) /\ ~(\E id \in JobIds(store) : Retry(c, id))
  BY <1>o DEF Rename, Retry, Call
<1>4. ~(EnqueueRemoteRename(c) \/ RenameLocalUpload(c))
  BY <1>f, <1>o DEF EnqueueRemoteRename, RenameLocalUpload, CallOK, CallOpOK
\* Those that are.
<1>5. ASSUME NEW p \in Paths, NEW v \in Contents, NEW op \in {"upload", "range"}, Upload(c, p, v, op)
      PROVE  CacheInv'
  <2> DEFINE rec == [ClientIdle EXCEPT !.op = op, !.path = p, !.val = v]
  <2>1. rec \in CallRecords
    BY IdleCallOK DEF CallRecords, OpNames, Files
  <2>2. rec.path = p /\ rec.source = None /\ rec.op # "rename"
    BY DEF ClientIdle
  <2>3. BackupCacheTarget(c, rec, p) /\ client[c].pc = "idle" /\ UNCHANGED store
    BY <1>5 DEF Upload, Call
  <2> HIDE DEF rec
  <2> QED BY <1>f, <2>1, <2>2, <2>3, BackupCache DEF Replacing
<1>6. CASE ReplaceCacheFile(c)
  BY <1>6, <1>f, ReplaceCache
<1>7. CASE CommitReplacement(c)
  <2> DEFINE p == client[c].path
             v == client[c].val
  <2>1. client[c].pc = "commit" /\ client[c].op \in {"upload", "range"} /\ Return(c) /\ commitMu' = "free"
    BY <1>7, <1>f, <1>o DEF CommitReplacement, CallOpOK, Unlock
  <2>2. CASE Batch(CommitBatch(store, c)) /\ UNCHANGED cache
    <3>1. /\ p \in Paths /\ v \in Contents
          /\ Uploaded(p, CachedEntry(p, v, "pending_upload")) \/ RangeWritten(p, RangeEntry(p, v))
      BY <1>f, <2>1, <2>2, CommitEffect
    <3>2. OnlyUploads'
      BY <1>f, <3>1, UploadsStay
    <3>3. PICK e : /\ store'.entries = [store.entries EXCEPT ![p] = e]
                   /\ e.cachePath = p /\ e.cacheState = "ready"
                   /\ e.md5 = v \/ (e.md5 = None /\ e.sync = "local_only")
      <4>1. /\ CachedEntry(p, v, "pending_upload").cachePath = p
            /\ CachedEntry(p, v, "pending_upload").cacheState = "ready"
            /\ CachedEntry(p, v, "pending_upload").md5 = v
        BY DEF CachedEntry
      <4>2. /\ RangeEntry(p, v).cachePath = p /\ RangeEntry(p, v).cacheState = "ready"
            /\ RangeEntry(p, v).md5 = None /\ RangeEntry(p, v).sync = "local_only"
        BY DEF RangeEntry, CachedEntry
      <4>3. \/ store'.entries = [store.entries EXCEPT ![p] = CachedEntry(p, v, "pending_upload")]
            \/ store'.entries = [store.entries EXCEPT ![p] = RangeEntry(p, v)]
        BY <3>1 DEF Uploaded, RangeWritten, Result
      <4> QED BY <4>1, <4>2, <4>3
    <3> QED BY <1>f, <2>1, <2>2, <3>2, <3>3, ReleaseCache
  <2>3. CASE BatchFails(CommitBatch(store, c)) /\ cache' = RolledBack(c)
    BY <2>3, <1>f, UploadsStay, <2>1, ReleaseCache DEF BatchFails
  <2> QED BY <1>7, <2>2, <2>3 DEF CommitReplacement
<1>8. ASSUME NEW p \in Paths, Fetch(c, p) PROVE CacheInv'
  <2> DEFINE rec == [ClientIdle EXCEPT !.op = "fetch", !.path = p, !.pc = "download"]
  <2>1. Become(c, rec) /\ rec.pc = "download" /\ client[c].pc = "idle" /\ UNCHANGED <<store, cache, commitMu>>
    BY <1>8 DEF Fetch, Call, ClientIdle
  <2> HIDE DEF rec
  <2> QED BY <1>f, <2>1, BystanderCache DEF Replacing
<1>9. CASE Download(c)
  <2>1. PICK rec : Become(c, rec) /\ rec.pc \in {"install", "idle"}
    <3>1. [client[c] EXCEPT !.pc = "install", !.val = machine[client[c].path]].pc = "install"
          /\ ClientIdle.pc = "idle"
      BY <1>f DEF CallRecords, ClientIdle
    <3> QED BY <1>9, <3>1 DEF Download, ReturnAndForget, Return
  <2>2. client[c].pc = "download" /\ UNCHANGED <<store, cache, commitMu>>
    BY <1>9 DEF Download
  <2> QED BY <1>f, <2>1, <2>2, BystanderCache DEF Replacing
<1>10. CASE InstallFetched(c)
  BY <1>10, <1>f, BackupCache DEF InstallFetched, CallOK, CallRecords, Replacing
<1>11. CASE CommitFetch(c)
  <2> DEFINE p == client[c].path
             v == client[c].val
             b == PutEntry(store, p, CachedEntry(p, v, "synced"))
  <2>1. client[c].pc = "commit" /\ Return(c) /\ commitMu' = "free"
    BY <1>11 DEF CommitFetch, Unlock
  <2>2. CASE FetchStillWanted(c) /\ Batch(b) /\ UNCHANGED cache
    <3>1. p \in Paths /\ v \in Contents /\ Fetched(p, v)
      BY <1>11, <1>f, <2>2, FetchEffect
    <3>2. OnlyUploads'
      BY <1>f, <3>1, UploadsStay
    <3>3. PICK e : /\ store'.entries = [store.entries EXCEPT ![p] = e]
                   /\ e.cachePath = p /\ e.cacheState = "ready" /\ e.md5 = v
      <4>1. /\ CachedEntry(p, v, "synced").cachePath = p /\ CachedEntry(p, v, "synced").cacheState = "ready"
            /\ CachedEntry(p, v, "synced").md5 = v
        BY DEF CachedEntry
      <4> QED BY <3>1, <4>1 DEF Fetched, Result
    <3> QED BY <1>f, <2>1, <2>2, <3>2, <3>3, ReleaseCache
  <2>3. CASE UNCHANGED store /\ cache' = RolledBack(c)
    BY <1>f, <2>3, UploadsStay, <2>1, ReleaseCache
  <2> QED BY <1>11, <2>2, <2>3 DEF CommitFetch, BatchFails
<1>12. CASE PruneJobs(c)
  <2>1. UNCHANGED <<cache, commitMu, client>>
    BY <1>12 DEF PruneJobs
  <2>2. store'.entries = store.entries /\ (UNCHANGED store \/ \E ids \in SUBSET JobIds(store) : Pruned(ids))
    BY <1>12, <1>f, PruneEffect DEF BaseInv, StoreShape, Pruned, Result
  <2>3. OnlyUploads'
    BY <1>f, <2>2, UploadsStay
  <2>4. \A p \in Paths : KeepsOrDrops(store.entries[p], store'.entries[p])
    BY <2>2 DEF KeepsOrDrops
  <2> QED BY <1>f, <2>1, <2>3, <2>4, KeepsOrDropsCache
<1>13. CASE PruneCache(c) \/ PruneCacheRemove(c)
  BY <1>13, <1>f, OrphansCache
<1> QED BY <1>0, <1>1, <1>2, <1>3, <1>4, <1>5, <1>6, <1>7, <1>8, <1>9, <1>10, <1>11, <1>12, <1>13

\* With nothing but uploads the engine changes states, never files.
LEMMA EngineCaches ==
    ASSUME BaseInv, CacheInv, EngineNext, UNCHANGED client
    PROVE  CacheInv'
<1>f. /\ StoreShape /\ EngineShape /\ EngineEffect /\ IsStore(store) /\ store.entries \in [Paths -> Entry]
      /\ ClientTypeOK /\ CallsOK /\ store.written = {} /\ OnlyUploads
  BY BaseShapes, EngineStepEffect DEF BaseInv, StoreShape, GoodStore, IsStore, CacheInv
<1>l. engine.pc \notin {"idle", "loop"} => Left # {}
  BY <1>f DEF EngineShape, EngineOK
<1>u. Left # {} => Current.kind = "upload" /\ Current.path \in Paths
  BY <1>f, CurrentFacts DEF OnlyUploads, Current
<1>1. UNCHANGED <<cache, commitMu>>
  <2>1. ~UnlinkDeleted
    BY <1>f DEF UnlinkDeleted, OnlyUploads
  <2> QED BY <2>1, EngineScope
       DEF EngineNext, DrainStart, DrainEnd, SkipDeferred, BackOff, SessionBlocked, Unreachable,
           RecordRunning, NoLongerQueued, MarkDeleting, MarkUploading, OpenCacheFile, MachineCall,
           Settle, RecordSuccess, RecordFailure, RecordMachineCompletedFailure, shared
<1>2. OnlyUploads'
  <2>1. \A i \in JobIds(store') : store'.jobs[i].kind = "upload"
    BY <1>f, EngineQueue DEF EngineQueueStep, QueueKept, EngineJobs, SameTask, OnlyUploads, JobIds
  <2>m. ASSUME NEW pc, pc # "unlink", MovedOn(pc)
        PROVE  engine'.pc # "unlink" /\ \A i \in Left' : engine'.queue[i].kind = "upload"
    BY <1>f, <2>m DEF MovedOn, OnlyUploads, Left
  <2>x. ASSUME NEW deferred, NextJob(deferred)
        PROVE  engine'.pc # "unlink" /\ \A i \in Left' : engine'.queue[i].kind = "upload"
    BY <1>f, <2>x DEF NextJob, OnlyUploads, Left, Restrict, EngineShape, EngineTypeOK
  <2>w. ASSUME EngineWalks
        PROVE  engine'.pc # "unlink" /\ \A i \in Left' : engine'.queue[i].kind = "upload"
    <3>1. CASE engine' = EngineIdle
      BY <3>1, IdleEngineShape
    <3>2. CASE engine'.pc = "loop" /\ engine'.queue = QueuedJobs(store)
      BY <3>2, <1>f, QueuedJobsAt DEF OnlyUploads, Left
    <3> QED BY <2>w, <2>x, <3>1, <3>2 DEF EngineWalks
  <2>2. engine'.pc # "unlink" /\ \A i \in Left' : engine'.queue[i].kind = "upload"
    <3>1. CASE EngineMoves
      BY <3>1, <2>m DEF EngineMoves
    <3>2. CASE EngineStarts \/ EngineMarks
      BY <3>2, <2>m DEF EngineStarts, EngineMarks
    <3>3. CASE EngineSettles
      BY <3>3, <1>l, <1>u, <2>m DEF EngineSettles
    <3>4. CASE EngineRecords
      BY <3>4, <2>x DEF EngineRecords
    <3> QED BY <1>f, <2>w, <3>1, <3>2, <3>3, <3>4 DEF EngineEffect
  <2> QED BY <2>1, <2>2 DEF OnlyUploads
\* The entries.
<1>s. ASSUME store'.entries = store.entries
      PROVE  \A p \in Paths : KeepsOrDrops(store.entries[p], store'.entries[p])
  BY <1>s DEF KeepsOrDrops
<1>e. ASSUME NEW p \in Paths, NEW s, store'.entries = [store.entries EXCEPT ![p].sync = s],
             store.entries[p].sync # "local_only"
      PROVE  \A q \in Paths : KeepsOrDrops(store.entries[q], store'.entries[q])
  BY <1>e, <1>f, SyncSetAt DEF KeepsOrDrops
<1>m. \A s : UploadJobMatches(store, Current, s) /\ s # "local_only" =>
          store.entries[Current.path].sync # "local_only"
  BY DEF UploadJobMatches
<1>3. \A p \in Paths : KeepsOrDrops(store.entries[p], store'.entries[p])
  <2>1. CASE UNCHANGED <<store, fresh>> \/ EngineStarts
    BY <2>1, <1>s DEF EngineStarts, Result
  <2>2. CASE EngineMarks
    BY <2>2, <1>e, <1>l, <1>m, <1>u DEF EngineMarks, Result
  <2>3. CASE EngineSettles
    <3>1. PICK b : SettledAs(store, Current, b) /\ Batch(b)
      BY <2>3 DEF EngineSettles
    <3>2. Current.kind = "upload" /\ Current.path \in Paths
      BY <2>3, <1>l, <1>u DEF EngineSettles
    <3>3. CASE UploadJobMatches(store, Current, "synced") /\ Marked(store, b, Current.path, "synced")
      <4>1. store'.entries = [store.entries EXCEPT ![Current.path].sync = "synced"]
        BY <1>f, <3>1, <3>3, BatchResult DEF Marked, Result
      <4> QED BY <1>e, <1>m, <3>2, <3>3, <4>1
    <3>4. CASE b = store
      BY <1>f, <1>s, <3>1, <3>4, BatchOfStore
    <3> QED BY <3>1, <3>2, <3>3, <3>4 DEF SettledAs
  <2>4. CASE EngineRecords
    <3>1. ASSUME NEW s, NEW sync, OutcomeResult(s, sync), sync # "local_only", Left # {}
          PROVE  \A p \in Paths : KeepsOrDrops(store.entries[p], store'.entries[p])
      <4>1. CASE store'.entries = store.entries
        BY <1>s, <4>1
      <4>2. CASE StillOf(store, Current, sync)
                 /\ store'.entries = [store.entries EXCEPT ![Current.path].sync = sync]
        BY <1>u, <3>1, <4>2, <1>e, <1>m DEF StillOf
      <4> QED BY <3>1, <4>1, <4>2 DEF OutcomeResult
    <3>2. Left # {} => PendingSync(Current.kind) # "local_only"
      BY <1>u DEF PendingSync
    <3> QED BY <2>4, <1>l, <1>s, <3>1, <3>2 DEF EngineRecords, Result
  <2> QED BY <1>f, <2>1, <2>2, <2>3, <2>4 DEF EngineEffect
<1> QED BY <1>f, <1>1, <1>2, <1>3, KeepsOrDropsCache

\* A sweep that confirms a copy finds the content that the entry names.
LEMMA SweepCaches ==
    ASSUME BaseInv, CacheInv, ReconcilerNext, UNCHANGED <<engine, client>>
    PROVE  CacheInv'
<1>f. StoreShape /\ store.entries \in [Paths -> Entry] /\ ClientTypeOK /\ CallsOK /\ OnlyUploads
  BY DEF BaseInv, StoreShape, GoodStore, IsStore, CacheInv
<1>1. UNCHANGED <<cache, commitMu>>
  BY SweepScope
<1>2. OnlyUploads'
  BY <1>f, SweepKeepsQueue DEF QueueKept, OnlyUploads, JobIds, Left
<1>3. ASSUME NEW s \in Sweepers, NEW p \in Paths, EntryWritten(p),
             Swept(s, p, store.entries[p], store'.entries[p])
      PROVE  \A q \in Paths : KeepsOrDrops(store.entries[q], store'.entries[q])
  <2> DEFINE e == store.entries[p]
             f == store'.entries[p]
  <2>1. e \in Entry /\ Swept(s, p, e, f) /\ CachedAt(p, e)
    BY <1>3, <1>f DEF CacheInv
  <2>2. \A q \in Paths : q # p => store'.entries[q] = store.entries[q]
    BY <1>3 DEF EntryWritten
  <2> HIDE DEF e, f
  <2>3. NoEntry.cachePath = None /\ NoEntry.cacheState = "none"
        /\ \A v, md5 : RemoteEntry(v, md5).cachePath = None /\ RemoteEntry(v, md5).cacheState = "none"
    BY DEF NoEntry, RemoteEntry
  <2>4. ASSUME NEW v, NEW md5 \in Files, f = NormalizeNewEntry(ReadyEntry(e, v, md5)), e.sync = "synced",
               md5 # None => e.md5 \in {None, md5}
        PROVE  KeepsOrDrops(e, f)
    <3>1. ReadyEntry(e, v, md5).cachePath = e.cachePath /\ ReadyEntry(e, v, md5).cacheState = "ready"
          /\ ReadyEntry(e, v, md5).md5 = IF md5 = None THEN e.md5 ELSE md5
      BY <2>1 DEF ReadyEntry, Entry
    <3>2. CASE e.cachePath = None
      BY <2>4, <3>1, <3>2, <2>1 DEF NormalizeNewEntry, ReadyEntry, Entry, KeepsOrDrops
    <3>3. CASE e.cachePath # None
      <4>1. f = ReadyEntry(e, v, md5)
        BY <2>4, <3>1, <3>3 DEF NormalizeNewEntry
      <4>2. e.md5 # None /\ e.cacheState = "ready"
        BY <2>1, <2>4, <3>3 DEF CachedAt
      <4>3. f.md5 = e.md5
        BY <2>4, <3>1, <4>1, <4>2
      <4> QED BY <2>4, <3>1, <4>1, <4>2, <4>3 DEF KeepsOrDrops
    <3> QED BY <3>2, <3>3
  <2>5. KeepsOrDrops(e, f)
    BY <2>1, <2>3, <2>4 DEF Swept, KeepsOrDrops
  <2> QED BY <2>2, <2>5 DEF KeepsOrDrops, e, f
<1>4. \A q \in Paths : KeepsOrDrops(store.entries[q], store'.entries[q])
  <2>1. CASE UNCHANGED store
    BY <2>1 DEF KeepsOrDrops
  <2> QED BY <1>f, <1>3, <2>1, SweepCases, SweepWritesOne
<1> QED BY <1>f, <1>1, <1>2, <1>4, KeepsOrDropsCache

LEMMA CalmStep ==
    ASSUME BaseInv, CalmInv, [Next]_vars
    PROVE  CalmInv'
<1>o. Ops' = Ops
  BY DEF Next, vars, Ops, Here
<1>w. Calm' <=> Calm
  BY <1>o DEF Calm, Without
<1> SUFFICES ASSUME Calm, CacheInv PROVE CacheInv'
  BY <1>w DEF CalmInv
<1>k. ASSUME UNCHANGED <<store, cache, commitMu, engine, client>> PROVE CacheInv'
  BY <1>k, KeepsOrDropsCache DEF CacheInv, OnlyUploads, Left, KeepsOrDrops, BaseInv
<1>1. CASE UNCHANGED vars
  BY <1>1, <1>k DEF vars
<1>2. CASE EngineNext /\ UNCHANGED <<client, sweeper>>
  BY <1>2, EngineCaches
<1>3. CASE ServiceNext /\ UNCHANGED <<engine, sweeper>>
  BY <1>3, ServiceCaches
<1>4. CASE ReconcilerNext /\ UNCHANGED <<engine, client>>
  BY <1>4, SweepCaches
<1>5. CASE Crash
  BY <1>5 DEF Crash, Calm, Without
<1>6. ASSUME NEW p \in Paths, NEW v \in Contents \cup {None}, ControllerWrites(p, v) PROVE CacheInv'
  BY <1>6, <1>k DEF ControllerWrites
<1> QED BY <1>1, <1>2, <1>3, <1>4, <1>5, <1>6 DEF Next, Steps

\* CalmInv is an invariant: uploads, ranges, fetches, pruning and sweeps keep
\* cache files and entries together (replaceCacheFile, fetchToCache, pruneCache).
THEOREM SpecCalm == Spec => []CalmInv
<1>1. Init => CalmInv
  <2> SUFFICES ASSUME Init PROVE CacheInv
    BY DEF CalmInv
  <2>1. \A c \in Clients : client[c] = ClientIdle /\ ClientIdle.pc = "idle"
    BY DEF Init, ClientIdle
  <2>2. \A p \in Paths : store.entries[p] = NoEntry
    BY DEF Init, SharedInit, EmptyStore
  <2>3. NoEntry.cachePath = None /\ NoEntry.cacheState = "none"
    BY DEF NoEntry
  <2>4. JobIds(store) = {} /\ Left = {} /\ engine.pc = "idle"
    BY DEF Init, SharedInit, EmptyStore, JobIds, EngineIdle, Left
  <2> QED BY <2>1, <2>2, <2>3, <2>4
       DEF CacheInv, CachedAt, CallCached, Replacing, OnlyUploads, HeldFiles, Names
<1>2. BaseInv /\ CalmInv /\ [Next]_vars => CalmInv'
  BY CalmStep
<1> QED BY <1>1, <1>2, SpecBase, PTL DEF Spec

\* UploadIsSafe: a file the user has handed over is not lost while the proxy is
\* up: its upload stays queued (Upload, Delete, Rename, RetryJob, the engine)
\* and the cache file that will be sent is the one the entry names (replaceCacheFile
\* and its roll-back, fetchToCache, pruneCache, the sweeps), for any number of
\* files, clients, sweeps and jobs and on a disk that refuses batches.
THEOREM UploadsAreSafe == Spec => []UploadIsSafe
<1>1. CalmInv => CacheHoldsUploads
  <2> SUFFICES ASSUME Calm, CacheInv PROVE CacheHoldsEntry
    BY DEF CalmInv, CacheHoldsUploads, Calm
  <2> SUFFICES ASSUME NEW p \in Paths, store.entries[p].cacheState = "ready", store.entries[p].md5 # None,
                      Quiet(store.entries[p].cachePath)
               PROVE  cache[store.entries[p].cachePath] = store.entries[p].md5
    BY DEF CacheHoldsEntry
  <2>1. store.entries[p].cachePath = p /\ Names(store.entries[p])
    BY DEF CacheInv, CachedAt, Names
  <2>2. Undisturbed(p)
    BY <2>1 DEF Quiet, Undisturbed, Replacing
  <2> QED BY <2>1, <2>2 DEF CacheInv, HeldFiles
<1> QED BY <1>1, SpecCalm, PendingStaysQueued, PTL DEF UploadIsSafe

-----------------------------------------------------------------------------
(* The catalog and the machine.  An entry is Synced only while no job that  *)
(* could touch the file is left, and the machine holds what it names.       *)

\* The scenes of CatalogAgrees: uploads of new contents, ranges, deletes and
\* pruning on a good disk, with nobody else at the machine.
Steady ==
    /\ ~DiskMayFail /\ SweepKinds = {}
    /\ Without({"controller", "crash", "rename", "retry", "fetch", "discard", "reupload"})

Live(e) == e.sync \in {"pending_upload", "uploading", "synced"}

\* No job of p is younger than job i.
Youngest(p, i) ==
    /\ \A k \in JobIds(store) : store.jobs[k].path = p => k <= i
    /\ \A k \in Left : engine.queue[k].path = p => k <= i

\* The file of a live entry is its own; the job that carries its content is the
\* youngest of its path.
LiveAt(p) ==
    LET e == store.entries[p]
    IN  Live(e) =>
            /\ e.cachePath = p /\ e.md5 # None
            /\ Undisturbed(p) => cache[p] \in {e.md5, None}
            /\ \A i \in JobIds(store) :
                   (store.jobs[i].path = p /\ store.jobs[i].kind = "upload" /\ store.jobs[i].md5 = e.md5) =>
                       Youngest(p, i)

\* Job i is the one at hand and has had its effect.
Over(i) == engine.pc = "done" /\ i = CurrentId

\* Nothing is left that could touch p.
SettledJobs(p) ==
    /\ \A i \in JobIds(store) :
           (store.jobs[i].path = p /\ store.jobs[i].state \in {"queued", "running"}) => Over(i)
    /\ \A i \in Left : engine.queue[i].path = p => Over(i)

SyncedAt(p) ==
    store.entries[p].sync = "synced" =>
        /\ Undisturbed(p) => machine[p] = store.entries[p].md5
        /\ SettledJobs(p)

\* What a caller writes is new.
CallNew(c) ==
    LET rec == client[c]
    IN  /\ Replacing(rec) \/ rec.pc = "sweep" => commitMu = c
        /\ Replacing(rec) => /\ rec.source = None /\ rec.op \in {"upload", "range"}
                             /\ \A i \in JobIds(store) : store.jobs[i].md5 # rec.val
        /\ rec.pc = "commit" => cache[rec.path] \in {rec.val, None}

PlainJob(j) == j.kind \in {"upload", "delete"} /\ (j.kind = "upload" => j.cachePath = j.path)

PlainJobs ==
    /\ \A i \in JobIds(store) : PlainJob(store.jobs[i])
    /\ \A i \in Left : PlainJob(engine.queue[i])

\* What is on its way to the machine, and then there, is what the job names.
InFlight ==
    (engine.pc \in {"call", "settle"} /\ Current.kind = "upload" /\ Undisturbed(Current.path)
     /\ UploadJobMatches(store, Current, "uploading")) =>
        Current.md5 = IF engine.pc = "call" THEN engine.bytes ELSE machine[Current.path]

AgreeInv ==
    /\ \A s \in Sweepers : sweeper[s].pc = "idle"
    /\ \A p \in Paths : LiveAt(p) /\ SyncedAt(p)
    /\ \A c \in Clients : CallNew(c)
    /\ PlainJobs /\ InFlight

SteadyInv == Steady => AgreeInv

\* The jobs of p, after a step, were there before it.
JobsFrom(p) ==
    /\ \A i \in JobIds(store') : store'.jobs[i].path = p =>
           i \in JobIds(store) /\ SameTask(store'.jobs[i], store.jobs[i])
    /\ \A i \in Left' : engine'.queue[i].path = p =>
           \/ i \in Left /\ SameTask(engine'.queue[i], engine.queue[i])
           \/ i \in JobIds(store) /\ SameTask(engine'.queue[i], store.jobs[i]) /\ store.jobs[i].state = "queued"

SameFileAs(e, f) == f.cachePath = e.cachePath /\ f.md5 = e.md5

\* A live entry stays as good as it was while its file and its jobs do.
LEMMA LiveStays ==
    ASSUME NEW p \in Paths, LiveAt(p), JobsFrom(p),
           Live(store'.entries[p]) =>
               Live(store.entries[p]) /\ SameFileAs(store.entries[p], store'.entries[p]),
           Undisturbed(p)' => Undisturbed(p) /\ cache'[p] \in {cache[p], None}
    PROVE  LiveAt(p)'
<1> SUFFICES ASSUME Live(store'.entries[p])
             PROVE  /\ store'.entries[p].cachePath = p /\ store'.entries[p].md5 # None
                    /\ Undisturbed(p)' => cache'[p] \in {store'.entries[p].md5, None}
                    /\ \A i \in JobIds(store') :
                           (store'.jobs[i].path = p /\ store'.jobs[i].kind = "upload"
                            /\ store'.jobs[i].md5 = store'.entries[p].md5) => Youngest(p, i)'
  BY DEF LiveAt
<1>1. /\ store.entries[p].cachePath = p /\ store.entries[p].md5 # None
      /\ Undisturbed(p) => cache[p] \in {store.entries[p].md5, None}
      /\ \A i \in JobIds(store) :
             (store.jobs[i].path = p /\ store.jobs[i].kind = "upload"
              /\ store.jobs[i].md5 = store.entries[p].md5) => Youngest(p, i)
  BY DEF LiveAt
<1>2. store'.entries[p].cachePath = store.entries[p].cachePath /\ store'.entries[p].md5 = store.entries[p].md5
  BY DEF SameFileAs
<1>3. ASSUME NEW i \in JobIds(store'), store'.jobs[i].path = p, store'.jobs[i].kind = "upload",
             store'.jobs[i].md5 = store'.entries[p].md5
      PROVE  Youngest(p, i)'
  <2>1. Youngest(p, i)
    BY <1>1, <1>2, <1>3 DEF JobsFrom, SameTask
  <2>2. \A k \in JobIds(store') : store'.jobs[k].path = p => k <= i
    BY <2>1 DEF JobsFrom, Youngest, SameTask
  <2>3. \A k \in Left' : engine'.queue[k].path = p => k <= i
    BY <2>1 DEF JobsFrom, Youngest, SameTask
  <2> QED BY <2>2, <2>3 DEF Youngest
<1> QED BY <1>1, <1>2, <1>3

\* The engine takes its jobs from the queue.
LEMMA EngineJobsFrom ==
    ASSUME BaseInv, EngineQueueStep, NEW p \in Paths
    PROVE  JobsFrom(p)
<1>f. IsStore(store) /\ EngineShape
  BY DEF BaseInv, StoreShape, GoodStore
<1>s. \A j : SameTask(j, j)
  BY DEF SameTask
<1>1. \A i \in JobIds(store') : i \in JobIds(store) /\ SameTask(store'.jobs[i], store.jobs[i])
  BY <1>s DEF EngineQueueStep, QueueKept, EngineJobs, JobIds
<1>2. ASSUME NEW i \in Left'
      PROVE  \/ i \in Left /\ SameTask(engine'.queue[i], engine.queue[i])
             \/ i \in JobIds(store) /\ SameTask(engine'.queue[i], store.jobs[i]) /\ store.jobs[i].state = "queued"
  <2>1. CASE \E pc : MovedOn(pc)
    BY <1>2, <1>s, <2>1 DEF MovedOn, Left
  <2>2. CASE \E deferred : NextJob(deferred)
    BY <1>2, <1>s, <1>f, <2>2 DEF NextJob, Left, Restrict, EngineShape, EngineTypeOK
  <2>3. CASE engine' = EngineIdle
    BY <1>2, <2>3 DEF EngineIdle, Left
  <2>4. CASE engine'.queue = QueuedJobs(store)
    BY <1>2, <1>f, <1>s, <2>4, QueuedJobsAt DEF Left
  <2> QED BY <2>1, <2>2, <2>3, <2>4 DEF EngineQueueStep, EngineWalks
<1> QED BY <1>1, <1>2 DEF JobsFrom

\* Without a failing disk a job that is done is recorded, and gone from the pass.
DoneRecorded == engine.pc = "done" => EngineJobs("done") /\ NextJob(engine.deferred)

LEMMA EngineRecordsDone ==
    ASSUME BaseInv, EngineEffect, ~DiskMayFail
    PROVE  DoneRecorded
<1> SUFFICES ASSUME engine.pc = "done" PROVE EngineJobs("done") /\ NextJob(engine.deferred)
  BY DEF DoneRecorded
<1>f. IsStore(store)
  BY DEF BaseInv, StoreShape, GoodStore
<1>1. ~(EngineWalks \/ EngineMoves \/ EngineStarts \/ EngineMarks \/ EngineSettles)
  BY DEF EngineWalks, EngineMoves, EngineStarts, EngineMarks, EngineSettles, MayAttempt
<1>2. EngineRecords
  BY <1>1 DEF EngineEffect
<1>3. NextJob(engine.deferred)
  BY <1>2 DEF EngineRecords
<1>4. CASE CurrentId \in JobIds(store)
  <2>1. PICK n \in Nat : store'.jobs = JobUpdate(store, CurrentId, "done", n) /\ store'.nextJob = store.nextJob
    BY <1>2, <1>4 DEF EngineRecords, Result
  <2> QED BY <1>f, <1>3, <1>4, <2>1, JobUpdateJobs
<1>5. CASE CurrentId \notin JobIds(store)
  BY <1>2, <1>5, <1>3, QueueKeptJobs DEF EngineRecords, QueueKept
<1> QED BY <1>4, <1>5

\* What has settled for p stays so while the engine works.
LEMMA EngineSettledJobs ==
    ASSUME BaseInv, PassInv, EngineQueueStep, DoneRecorded, NEW p \in Paths, SettledJobs(p)
    PROVE  SettledJobs(p)'
<1>f. EngineShape /\ (Left # {} => CurrentId \in Left)
  BY CurrentFacts DEF BaseInv
<1>l. engine.pc \notin {"idle", "loop"} => Left # {}
  BY <1>f DEF EngineShape, EngineOK
<1>j. JobsFrom(p)
  BY EngineJobsFrom
<1>1. CASE engine.pc = "done"
  <2>1. EngineJobs("done") /\ NextJob(engine.deferred)
    BY <1>1 DEF DoneRecorded
  <2>2. Left' = Left \ {CurrentId} /\ \A i \in Left' : engine'.queue[i] = engine.queue[i]
    BY <1>f, <2>1 DEF NextJob, Left, Restrict, EngineShape, EngineTypeOK
  <2>3. \A i \in JobIds(store') :
            ~(store'.jobs[i].path = p /\ store'.jobs[i].state \in {"queued", "running"})
    BY <2>1 DEF EngineJobs, SettledJobs, Over, SameTask
  <2>4. \A i \in Left' : engine'.queue[i].path # p
    BY <2>2 DEF SettledJobs, Over
  <2> QED BY <2>3, <2>4 DEF SettledJobs
<1>2. CASE engine.pc # "done"
  <2>1. \A i \in JobIds(store) : ~(store.jobs[i].path = p /\ store.jobs[i].state \in {"queued", "running"})
    BY <1>2 DEF SettledJobs, Over
  <2>2. \A i \in Left : engine.queue[i].path # p
    BY <1>2 DEF SettledJobs, Over
  <2>3. \A i \in Left' : engine'.queue[i].path # p
    BY <1>j, <2>1, <2>2 DEF JobsFrom, SameTask
  <2>4. Left # {} /\ CurrentId \in JobIds(store) => store.jobs[CurrentId].path # p
    BY <1>f, <2>2 DEF PassInv, SameTask
  <2>5. ASSUME NEW i \in JobIds(store'), store'.jobs[i].path = p,
               store'.jobs[i].state \in {"queued", "running"}
        PROVE  FALSE
    <3>1. i \in JobIds(store) /\ store.jobs[i].path = p
      BY <1>j, <2>5 DEF JobsFrom, SameTask
    <3>2. CASE QueueKept
      BY <2>1, <2>5, <3>1, <3>2 DEF QueueKept
    <3>3. ASSUME NEW s, EngineJobs(s), Left # {} PROVE FALSE
      BY <2>1, <2>4, <2>5, <3>1, <3>3 DEF EngineJobs
    <3>4. QueueKept \/ (Left # {} /\ \E s : EngineJobs(s))
      BY <1>l DEF EngineQueueStep, MayAttempt
    <3> QED BY <3>2, <3>3, <3>4
  <2> QED BY <2>3, <2>5 DEF SettledJobs
<1> QED BY <1>1, <1>2

\* What a step of the engine leaves in a path's entry, when it only uploads and deletes.
EngineWrites(p, e, f) ==
    \/ f = e
    \/ /\ p = Current.path /\ engine.pc \in {"mark", "settle", "fail", "complete"}
       /\ f.sync # "synced" /\ (Live(f) => Live(e) /\ SameFileAs(e, f))
    \/ /\ p = Current.path /\ engine.pc = "settle" /\ engine'.pc = "done" /\ QueueKept
       /\ Current.kind = "upload" /\ UploadJobMatches(store, Current, "synced")
       /\ f.sync = "synced" /\ SameFileAs(e, f)

LEMMA EngineWritesEntries ==
    ASSUME BaseInv, EngineEffect, PlainJobs
    PROVE  \A p \in Paths : EngineWrites(p, store.entries[p], store'.entries[p])
<1>f. /\ StoreShape /\ EngineShape /\ IsStore(store) /\ store.entries \in [Paths -> Entry]
      /\ store.written = {}
  BY DEF BaseInv, StoreShape, GoodStore, IsStore
<1>l. engine.pc \notin {"idle", "loop"} => Left # {}
  BY <1>f DEF EngineShape, EngineOK
<1>u. Left # {} => Current.kind \in {"upload", "delete"} /\ Current.path \in Paths
  BY <1>f, CurrentFacts DEF PlainJobs, PlainJob, Current
<1>s. ASSUME store'.entries = store.entries
      PROVE  \A p \in Paths : EngineWrites(p, store.entries[p], store'.entries[p])
  BY <1>s DEF EngineWrites
<1>e. ASSUME NEW s, Left # {}, store'.entries = [store.entries EXCEPT ![Current.path].sync = s],
             engine.pc \in {"mark", "settle", "fail", "complete"},
             s # "synced", Live([sync |-> s]) => Live(store.entries[Current.path])
      PROVE  \A p \in Paths : EngineWrites(p, store.entries[p], store'.entries[p])
  BY <1>e, <1>f, <1>u, SyncSetAt DEF SameFileAs, EngineWrites, Live
<1>m. \A s \in {"uploading", "pending_upload"} : UploadJobMatches(store, Current, s) =>
          Live(store.entries[Current.path])
  BY DEF UploadJobMatches, Live
<1>1. CASE UNCHANGED <<store, fresh>> \/ EngineStarts
  BY <1>1, <1>s DEF EngineStarts, Result
<1>2. CASE EngineMarks
  <2>1. CASE store'.entries = [store.entries EXCEPT ![Current.path].sync = "deleting"]
    BY <1>2, <1>e, <1>l, <2>1 DEF EngineMarks, Live
  <2>2. CASE UploadJobMatches(store, Current, "uploading")
             /\ store'.entries = [store.entries EXCEPT ![Current.path].sync = "uploading"]
    BY <1>2, <1>e, <1>l, <1>m, <2>2 DEF EngineMarks
  <2> QED BY <1>2, <2>1, <2>2 DEF EngineMarks, Result
<1>3. CASE EngineSettles
  <2>1. PICK b : SettledAs(store, Current, b) /\ Batch(b)
    BY <1>3 DEF EngineSettles
  <2>2. Current.kind \in {"upload", "delete"} /\ Current.path \in Paths /\ engine.pc = "settle"
    BY <1>3, <1>l, <1>u DEF EngineSettles
  <2>3. QueueKept
    BY <1>f, <2>1, SettledKeepsQueue
  <2>4. CASE /\ Current.kind = "upload" /\ UploadJobMatches(store, Current, "synced")
             /\ Marked(store, b, Current.path, "synced")
    <3>1. store'.entries = [store.entries EXCEPT ![Current.path].sync = "synced"]
      BY <1>f, <2>1, <2>4, BatchResult DEF Marked, Result
    <3>2. store'.entries[Current.path].sync = "synced"
          /\ SameFileAs(store.entries[Current.path], store'.entries[Current.path])
          /\ \A q \in Paths : q # Current.path => store'.entries[q] = store.entries[q]
      BY <1>f, <2>2, <3>1, SyncSetAt DEF SameFileAs
    <3>3. engine'.pc = "done"
      BY <1>3, <2>4 DEF EngineSettles, MovedOn
    <3> QED BY <2>2, <2>3, <2>4, <3>2, <3>3 DEF EngineWrites
  <2>5. CASE Holds(b, [store.entries EXCEPT ![Current.path] = NoEntry], store.jobs, store.nextJob,
                   store.written \cup {Current.path})
    <3>1. store'.entries = [store.entries EXCEPT ![Current.path] = NoEntry]
      BY <2>1, <2>5, BatchResult DEF Result
    <3>2. store'.entries[Current.path].sync = "absent"
          /\ \A q \in Paths : q # Current.path => store'.entries[q] = store.entries[q]
      BY <1>f, <2>2, <3>1 DEF NoEntry
    <3> QED BY <2>2, <3>2 DEF EngineWrites, Live
  <2>6. CASE b = store
    BY <1>f, <1>s, <2>1, <2>6, BatchOfStore
  <2> QED BY <2>1, <2>2, <2>4, <2>5, <2>6 DEF SettledAs
<1>4. CASE EngineRecords
  <2>1. ASSUME NEW s, NEW sync \in {"error", "pending_upload", "pending_delete"}, OutcomeResult(s, sync),
               Left # {}, engine.pc \in {"fail", "complete"},
               sync = "pending_upload" => Current.kind = "upload"
        PROVE  \A p \in Paths : EngineWrites(p, store.entries[p], store'.entries[p])
    <3>1. CASE store'.entries = store.entries
      BY <1>s, <3>1
    <3>2. CASE StillOf(store, Current, sync)
               /\ store'.entries = [store.entries EXCEPT ![Current.path].sync = sync]
      BY <1>m, <2>1, <3>2, <1>e DEF StillOf, Live
    <3> QED BY <2>1, <3>1, <3>2 DEF OutcomeResult
  <2>2. Left # {} => /\ PendingSync(Current.kind) \in {"pending_upload", "pending_delete"}
                     /\ PendingSync(Current.kind) = "pending_upload" => Current.kind = "upload"
    BY <1>u DEF PendingSync
  <2> QED BY <1>4, <1>l, <1>s, <2>1, <2>2 DEF EngineRecords, Result
<1> QED BY <1>1, <1>2, <1>3, <1>4 DEF EngineEffect

\* The engine removes cache files and changes the one file that its job is about.
LEMMA EngineFiles ==
    ASSUME BaseInv, PlainJobs, EngineNext
    PROVE  /\ \A p \in Paths : cache'[p] \in {cache[p], None}
           /\ \A p \in Paths : machine'[p] = machine[p] \/ (engine.pc = "call" /\ p = Current.path)
<1>f. EngineShape /\ CacheTyped /\ MachineTyped
  BY DEF BaseInv
<1>l. engine.pc \notin {"idle", "loop"} => Left # {}
  BY <1>f DEF EngineShape, EngineOK
<1>u. Left # {} => Current.kind \in {"upload", "delete"} /\ Current.path \in Paths
  BY <1>f, CurrentFacts DEF PlainJobs, PlainJob, Current
<1>1. CASE UnlinkDeleted
  BY <1>1, <1>f DEF UnlinkDeleted, CacheTyped
<1>2. CASE MachineCall
  <2>1. UNCHANGED machine \/ machine' = Effect(Current)
    BY <1>2 DEF MachineCall
  <2>2. engine.pc = "call" /\ UNCHANGED cache
    BY <1>2 DEF MachineCall
  <2>3. \E v : Effect(Current) = [machine EXCEPT ![Current.path] = v]
    BY <1>l, <1>u, <2>2 DEF Effect
  <2> QED BY <1>f, <2>1, <2>2, <2>3 DEF MachineTyped
<1>3. CASE ~UnlinkDeleted /\ ~MachineCall
  <2>1. UNCHANGED <<cache, machine>>
    BY <1>3 DEF EngineNext, DrainStart, DrainEnd, SkipDeferred, BackOff, SessionBlocked, Unreachable,
           RecordRunning, NoLongerQueued, MarkDeleting, MarkUploading, OpenCacheFile,
           Settle, RecordSuccess, RecordFailure, RecordMachineCompletedFailure, shared
  <2> QED BY <2>1
<1> QED BY <1>1, <1>2, <1>3

\* The file that the engine opens is the one that the entry names.
LEMMA EngineInFlight ==
    ASSUME BaseInv, AgreeInv, EngineNext, UNCHANGED client
    PROVE  InFlight'
<1>f. EngineShape /\ CacheTyped /\ MachineTyped /\ PlainJobs /\ InFlight
  BY DEF BaseInv, AgreeInv
<1>l. engine.pc \notin {"idle", "loop"} => Left # {}
  BY <1>f DEF EngineShape, EngineOK
<1>u. Left # {} => Current.path \in Paths /\ PlainJob(Current)
  BY <1>f, CurrentFacts DEF PlainJobs, Current
<1> SUFFICES ASSUME engine'.pc \in {"call", "settle"}, Current'.kind = "upload", Undisturbed(Current.path)',
                    UploadJobMatches(store', Current', "uploading")
             PROVE  Current'.md5 = IF engine'.pc = "call" THEN engine'.bytes ELSE machine'[Current'.path]
  BY DEF InFlight
<1>1. OpenCacheFile \/ MachineCall \/ MarkDeleting \/ RecordRunning
  <2>1. \A pc : Goto(pc) \/ Leave(pc) => engine'.pc = pc
    BY <1>f, GotoMoves DEF MovedOn
  <2>2. \A ps : NextJob(ps) => engine'.pc = "loop"
    BY <1>f DEF NextJob, EngineShape, EngineTypeOK
  <2>3. DrainStart \/ engine' = EngineIdle => engine'.pc \in {"loop", "idle"}
    <3>1. \A jobs : [EngineIdle EXCEPT !.pc = "loop", !.queue = jobs].pc = "loop" /\ EngineIdle.pc = "idle"
      BY DEF EngineIdle
    <3> QED BY <3>1 DEF DrainStart
  <2>4. Settle => engine'.pc \in {"unlink", "done", "complete"}
    BY <1>f, <2>1 DEF EngineShape, EngineTypeOK, Settle, CompletedUnrecorded
  <2>5. MarkUploading => engine'.pc \in {"open", "done", "fail"}
    BY <2>1 DEF MarkUploading
  <2>6. DrainEnd \/ SkipDeferred \/ BackOff \/ SessionBlocked \/ Unreachable \/ NoLongerQueued =>
            engine'.pc \in {"idle", "loop", "fail"}
    BY <2>1, <2>2, <2>3 DEF DrainEnd, SkipDeferred, BackOff, SessionBlocked, Unreachable, NoLongerQueued
  <2>7. UnlinkDeleted \/ RecordSuccess \/ RecordFailure \/ RecordMachineCompletedFailure =>
            engine'.pc \in {"loop", "done", "complete"}
    BY <2>1, <2>2 DEF UnlinkDeleted, RecordSuccess, RecordFailure, RecordMachineCompletedFailure
  <2> QED BY <2>3, <2>4, <2>5, <2>6, <2>7 DEF EngineNext
<1>2. engine'.queue = engine.queue /\ Current' = Current /\ Left # {}
  <2>1. engine'.queue = engine.queue
    BY <1>f, <1>1 DEF OpenCacheFile, MachineCall, MarkDeleting, RecordRunning, Goto, Leave, EngineShape, EngineTypeOK
  <2>2. Left # {}
    BY <1>1, <1>l DEF OpenCacheFile, MachineCall, MarkDeleting, RecordRunning, MayAttempt
  <2> QED BY <2>1, <2>2 DEF Current, CurrentId, Left
<1>3. Undisturbed(Current.path)
  BY <1>2 DEF Undisturbed
<1>4. CASE OpenCacheFile
  <2>1. engine'.pc = "call" /\ engine'.bytes = cache[Current.cachePath] /\ cache[Current.cachePath] # None
    BY <1>4, <1>f DEF OpenCacheFile, Leave, EngineShape, EngineTypeOK
  <2>2. UNCHANGED store
    BY <1>4 DEF OpenCacheFile
  <2>3. LiveAt(Current.path) /\ Current.cachePath = Current.path
    BY <1>2, <1>u DEF AgreeInv, PlainJob
  <2>4. Live(store.entries[Current.path]) /\ store.entries[Current.path].md5 = Current.md5
    BY <1>2, <2>2 DEF UploadJobMatches, Live
  <2>5. cache[Current.path] \in {Current.md5, None}
    BY <1>3, <2>3, <2>4 DEF LiveAt
  <2> QED BY <1>2, <2>1, <2>3, <2>5
<1>5. CASE MachineCall
  <2>1. engine'.pc = "settle" /\ engine.pc = "call" /\ machine' = Effect(Current)
    BY <1>5, <1>f DEF MachineCall, Goto, Leave, EngineShape, EngineTypeOK
  <2>2. machine'[Current.path] = engine.bytes
    BY <1>f, <1>2, <1>u, <2>1 DEF Effect, MachineTyped
  <2>3. UNCHANGED store
    BY <1>5 DEF MachineCall
  <2>4. Current.md5 = engine.bytes
    BY <1>2, <1>3, <1>f, <2>1, <2>3 DEF InFlight
  <2> QED BY <1>2, <2>1, <2>2, <2>4
<1>6. CASE MarkDeleting
  BY <1>2, <1>6 DEF MarkDeleting
<1>7. CASE RecordRunning
  <2>1. engine'.pc # "call"
    BY <1>2, <1>7, <1>f, <1>u DEF RecordRunning, Goto, PlainJob, EngineShape, EngineTypeOK
  <2>2. engine'.pc # "settle"
    BY <1>7, <1>f DEF RecordRunning, Goto, EngineShape, EngineTypeOK
  <2> QED BY <2>1, <2>2
<1> QED BY <1>1, <1>4, <1>5, <1>6, <1>7

\* Callers who write nothing now keep what CallNew says of them, and so do all
\* when the lock stays with who has it.
LEMMA BystandersNew ==
    ASSUME BaseInv, AgreeInv, UNCHANGED commitMu,
           \A k \in Clients : \/ client'[k] = client[k]
                              \/ ~Replacing(client'[k]) /\ client'[k].pc # "sweep",
           \A p \in Paths : cache'[p] \in {cache[p], None},
           \A i \in JobIds(store') : \/ store'.jobs[i].md5 = None
                                     \/ i \in JobIds(store) /\ store'.jobs[i].md5 = store.jobs[i].md5
    PROVE  \A k \in Clients : CallNew(k)'
<1> SUFFICES ASSUME NEW k \in Clients, client'[k] = client[k] PROVE CallNew(k)'
  BY DEF CallNew, Replacing
<1>1. client[k] \in CallRecords /\ CallOK(client[k]) /\ CallNew(k)
  BY CallerFacts DEF BaseInv, AgreeInv
<1>2. Replacing(client[k]) => client[k].val # None /\ client[k].path \in Paths
  BY <1>1 DEF Replacing, CallOK, ReplacementOK, CallNew, CallRecords
<1>3. Replacing(client[k]) => \A i \in JobIds(store') : store'.jobs[i].md5 # client[k].val
  BY <1>1, <1>2 DEF CallNew
<1>4. client[k].pc = "commit" => cache'[client[k].path] \in {client[k].val, None}
  BY <1>1, <1>2 DEF CallNew, Replacing
<1> QED BY <1>1, <1>3, <1>4 DEF CallNew

\* The engine keeps catalog and machine together.
LEMMA EngineAgrees ==
    ASSUME BaseInv, BaseInv', RunInv, PassInv, OrderInv, Steady, AgreeInv, EngineNext,
           UNCHANGED <<client, sweeper>>
    PROVE  AgreeInv'
<1>f. /\ EngineShape /\ IsStore(store) /\ EngineEffect /\ EngineQueueStep /\ PlainJobs /\ UNCHANGED commitMu
      /\ store.entries \in [Paths -> Entry]
  BY BaseShapes, EngineStepEffect, EngineQueue, EngineScope
     DEF BaseInv, StoreShape, GoodStore, IsStore, AgreeInv
<1>l. engine.pc \notin {"idle", "loop"} => Left # {}
  BY <1>f DEF EngineShape, EngineOK
<1>c. Left # {} => CurrentId \in Left /\ Current.path \in Paths /\ engine.queue[CurrentId] = Current
  BY <1>f, CurrentFacts DEF Current
<1>d. DoneRecorded
  BY <1>f, EngineRecordsDone DEF Steady
<1>u. \A p \in Paths : Undisturbed(p)' = Undisturbed(p)
  BY DEF Undisturbed
<1>w. \A p \in Paths : EngineWrites(p, store.entries[p], store'.entries[p])
  BY <1>f, EngineWritesEntries
<1>j. \A p \in Paths : JobsFrom(p)
  BY <1>f, EngineJobsFrom
<1>m. /\ \A p \in Paths : cache'[p] \in {cache[p], None}
      /\ \A p \in Paths : machine'[p] = machine[p] \/ (engine.pc = "call" /\ p = Current.path)
  BY <1>f, EngineFiles
\* The job at hand is about an entry that is not synced.
<1>n. Left # {} /\ engine.pc # "done" => store.entries[Current.path].sync # "synced"
  BY <1>c DEF AgreeInv, SyncedAt, SettledJobs, Over
<1>1. ASSUME NEW p \in Paths PROVE LiveAt(p)'
  <2>1. Live(store'.entries[p]) =>
            Live(store.entries[p]) /\ SameFileAs(store.entries[p], store'.entries[p])
    BY <1>w DEF UploadJobMatches, Live, EngineWrites, SameFileAs
  <2>2. LiveAt(p)
    BY DEF AgreeInv
  <2> QED BY <1>j, <1>m, <1>u, <2>1, <2>2, LiveStays
<1>2. ASSUME NEW p \in Paths, store'.entries[p].sync = "synced"
      PROVE  (Undisturbed(p)' => machine'[p] = store'.entries[p].md5) /\ SettledJobs(p)'
  <2>1. CASE store'.entries[p] = store.entries[p]
    <3>1. SyncedAt(p)
      BY DEF AgreeInv
    <3>2. SettledJobs(p)'
      BY <1>2, <1>d, <1>f, <2>1, <3>1, EngineSettledJobs DEF SyncedAt
    <3>3. machine'[p] = machine[p]
      BY <1>2, <1>l, <1>m, <1>n, <2>1
    <3> QED BY <1>2, <1>u, <2>1, <3>1, <3>2, <3>3 DEF SyncedAt
  <2>2. CASE store'.entries[p] # store.entries[p]
    <3>1. /\ p = Current.path /\ engine.pc = "settle" /\ engine'.pc = "done" /\ QueueKept
          /\ Current.kind = "upload" /\ UploadJobMatches(store, Current, "synced")
          /\ SameFileAs(store.entries[p], store'.entries[p])
      BY <1>2, <1>w, <2>2 DEF EngineWrites
    <3>2. Left # {} /\ CurrentId \in Left /\ engine.queue[CurrentId] = Current
      BY <1>c, <1>l, <3>1
    <3>3. UploadJobMatches(store, Current, "uploading") /\ store.entries[p].md5 = Current.md5
          /\ Live(store.entries[p])
      BY <1>n, <3>1, <3>2 DEF UploadJobMatches, Live
    <3>4. Undisturbed(p)' => machine'[p] = store'.entries[p].md5
      BY <1>m, <3>1, <1>u, <3>3 DEF AgreeInv, InFlight, SameFileAs
    <3>5. CurrentId \in JobIds(store) /\ store.jobs[CurrentId].path = p
          /\ store.jobs[CurrentId].kind = "upload" /\ store.jobs[CurrentId].md5 = store.entries[p].md5
      BY <3>1, <3>2, <3>3 DEF RunInv, AtWork, ExecutePCs, CurrentRuns, PassInv, SameTask
    <3>6. Youngest(p, CurrentId)
      BY <3>3, <3>5 DEF AgreeInv, LiveAt
    <3>7. CurrentId \in Nat /\ (\A k \in Left : CurrentId <= k /\ k \in Nat) /\ \A i \in JobIds(store) : i \in Nat
      BY <1>f, <3>2, CurrentFacts DEF EngineShape, EngineTypeOK, IsQueue, Left, IsStore, JobIds
    <3>8. \A i \in Left : engine.queue[i].path = p => i = CurrentId
      BY <3>6, <3>7 DEF Youngest
    <3>9. ASSUME NEW i \in JobIds(store), store.jobs[i].path = p, store.jobs[i].state \in {"queued", "running"}
          PROVE  i = CurrentId
      <4>1. CASE store.jobs[i].state = "running"
        BY <4>1 DEF RunInv, RunningIsCurrentOnDisk, RunningIsCurrent, Steady
      <4>2. CASE store.jobs[i].state = "queued" /\ i \in Left
        BY <3>9, <4>2, <3>8 DEF PassInv, SameTask
      <4>3. CASE store.jobs[i].state = "queued" /\ i \notin Left
        <5>1. p \notin engine.deferred
          BY <3>1 DEF PassInv, JobTouchesDeferredPath, TouchedPaths
        <5>2. InOrder
          BY DEF OrderInv, Steady, Without
        <5>3. \A k \in Left : k < i
          BY <3>1, <3>9, <4>3, <5>1, <5>2 DEF InOrder
        <5>4. i <= CurrentId /\ CurrentId < i
          BY <3>2, <3>6, <3>9, <5>3 DEF Youngest
        <5> QED BY <3>7, <5>4
      <4> QED BY <3>9, <4>1, <4>2, <4>3
    <3>10. Left' = Left /\ CurrentId' = CurrentId /\ engine'.queue = engine.queue
      <4>1. engine'.queue = engine.queue
        <5>1. EngineSettles
          BY <1>f, <3>1 DEF EngineEffect, EngineWalks, EngineMoves, EngineStarts, EngineMarks, EngineRecords,
                            MayAttempt, MovedOn
        <5> QED BY <5>1 DEF EngineSettles, MovedOn
      <4> QED BY <4>1 DEF Left, CurrentId
    <3>11. SettledJobs(p)'
      BY <3>1, <3>8, <3>9, <3>10 DEF SettledJobs, Over, QueueKept, JobIds
    <3> QED BY <3>4, <3>11
  <2> QED BY <2>1, <2>2
<1>3. PlainJobs'
  <2>1. ASSUME NEW i \in JobIds(store') PROVE PlainJob(store'.jobs[i])
    <3>1. i \in JobIds(store) /\ SameTask(store'.jobs[i], store.jobs[i])
      BY <1>f DEF EngineQueueStep, QueueKept, EngineJobs, JobIds, SameTask
    <3> QED BY <1>f, <3>1 DEF PlainJobs, PlainJob, SameTask
  <2>2. ASSUME NEW i \in Left' PROVE PlainJob(engine'.queue[i])
    <3>1. engine'.queue[i].path \in Paths
      BY DEF BaseInv, EngineShape, EngineTypeOK, IsQueue, Left, Job
    <3> QED BY <1>f, <1>j, <3>1 DEF JobsFrom, PlainJobs, PlainJob, SameTask
  <2> QED BY <2>1, <2>2 DEF PlainJobs
<1>4. \A k \in Clients : CallNew(k)'
  <2>1. \A i \in JobIds(store') : i \in JobIds(store) /\ store'.jobs[i].md5 = store.jobs[i].md5
    BY <1>f DEF EngineQueueStep, QueueKept, EngineJobs, JobIds, SameTask
  <2> QED BY <1>f, <1>m, <2>1, BystandersNew
<1>5. InFlight'
  BY EngineInFlight
<1>6. \A s \in Sweepers : sweeper'[s].pc = "idle"
  BY DEF AgreeInv
<1> QED BY <1>1, <1>2, <1>3, <1>4, <1>5, <1>6 DEF AgreeInv, SyncedAt

\* A step of the service that writes no live entry for p, nor anything p's needs.
UntouchedAt(p) ==
    Live(store'.entries[p]) =>
        /\ store'.entries[p] = store.entries[p]
        /\ JobsFrom(p)
        /\ \A i \in JobIds(store') :
               (store'.jobs[i].path = p /\ store'.jobs[i].state \in {"queued", "running"}) =>
                   store.jobs[i].state \in {"queued", "running"}
        /\ Undisturbed(p)' => Undisturbed(p) /\ cache'[p] \in {cache[p], None}

\* The new entry of p is as it should be, and nothing on its way is taken for it.
WrittenAt(p) ==
    /\ LiveAt(p)' /\ store'.entries[p].sync # "synced"
    /\ engine.pc \in {"call", "settle"} /\ Current.path = p =>
           ~UploadJobMatches(store', Current, "uploading")

LEMMA AgreeFrom ==
    ASSUME BaseInv, AgreeInv, UNCHANGED <<engine, machine, sweeper>>,
           PlainJobs', \A k \in Clients : CallNew(k)',
           \A p \in Paths : UntouchedAt(p) \/ WrittenAt(p)
    PROVE  AgreeInv'
<1>f. EngineShape /\ Left' = Left /\ CurrentId' = CurrentId /\ Current' = Current
  BY DEF BaseInv, Left, CurrentId, Current
<1>1. ASSUME NEW p \in Paths PROVE LiveAt(p)'
  <2>1. CASE UntouchedAt(p) /\ Live(store'.entries[p])
    BY <2>1, LiveStays DEF AgreeInv, UntouchedAt, SameFileAs
  <2>2. CASE ~Live(store'.entries[p])
    BY <2>2 DEF LiveAt
  <2> QED BY <2>1, <2>2 DEF WrittenAt
<1>2. ASSUME NEW p \in Paths PROVE SyncedAt(p)'
  <2> SUFFICES ASSUME store'.entries[p].sync = "synced"
               PROVE  (Undisturbed(p)' => machine'[p] = store'.entries[p].md5) /\ SettledJobs(p)'
    BY DEF SyncedAt
  <2>1. UntouchedAt(p) /\ SyncedAt(p) /\ Live(store'.entries[p])
    BY DEF AgreeInv, Live, WrittenAt
  <2>2. store'.entries[p] = store.entries[p] /\ JobsFrom(p)
        /\ (Undisturbed(p)' => Undisturbed(p))
        /\ \A i \in JobIds(store') :
               (store'.jobs[i].path = p /\ store'.jobs[i].state \in {"queued", "running"}) =>
                   store.jobs[i].state \in {"queued", "running"}
    BY <2>1 DEF UntouchedAt
  <2>3. SettledJobs(p) /\ (Undisturbed(p) => machine[p] = store.entries[p].md5)
    BY <2>1, <2>2 DEF SyncedAt
  <2>4. \A i : Over(i)' = Over(i)
    BY <1>f DEF Over
  <2>5. \A i \in JobIds(store') :
            (store'.jobs[i].path = p /\ store'.jobs[i].state \in {"queued", "running"}) => Over(i)'
    BY <2>2, <2>3, <2>4 DEF JobsFrom, SettledJobs, SameTask
  <2>6. \A i \in Left' : engine'.queue[i].path = p => Over(i)'
    BY <1>f, <2>3, <2>4 DEF SettledJobs
  <2> QED BY <2>2, <2>3, <2>5, <2>6 DEF SettledJobs
<1>3. InFlight'
  <2> SUFFICES ASSUME engine.pc \in {"call", "settle"}, Current.kind = "upload", Undisturbed(Current.path)',
                      UploadJobMatches(store', Current, "uploading")
               PROVE  Current.md5 = IF engine.pc = "call" THEN engine.bytes ELSE machine[Current.path]
    BY <1>f DEF InFlight
  <2>1. Current.path \in Paths
    BY <1>f, CurrentFacts DEF EngineShape, EngineOK
  <2>2. UntouchedAt(Current.path) /\ Live(store'.entries[Current.path])
    BY <2>1 DEF UploadJobMatches, Live, WrittenAt
  <2>3. Undisturbed(Current.path) /\ store'.entries[Current.path] = store.entries[Current.path]
    BY <2>2 DEF UntouchedAt
  <2>4. UploadJobMatches(store, Current, "uploading") /\ InFlight
    BY <2>3 DEF UploadJobMatches, AgreeInv, HasEntry
  <2> QED BY <2>3, <2>4 DEF InFlight
<1>4. \A p \in Paths : LiveAt(p)' /\ SyncedAt(p)'
  BY <1>1, <1>2 DEF SyncedAt
<1> QED BY <1>3, <1>4 DEF AgreeInv

\* No job is new, or the one that is is of another path.
NoNewJob(p) == \A i \in JobIds(store') : store'.jobs[i].path = p => i # store.nextJob

LEMMA TidiedFrom ==
    ASSUME Tidied, "retry" \notin Ops, UNCHANGED engine, NEW p, NoNewJob(p)
    PROVE  /\ JobsFrom(p)
           /\ \A i \in JobIds(store') :
                  (store'.jobs[i].path = p /\ store'.jobs[i].state \in {"queued", "running"}) =>
                      store.jobs[i].state \in {"queued", "running"}
<1>1. \A i \in JobIds(store') : store'.jobs[i].path = p =>
          /\ i \in JobIds(store) /\ SameTask(store'.jobs[i], store.jobs[i])
          /\ store'.jobs[i].state = store.jobs[i].state \/ store'.jobs[i].state = "done"
  BY DEF Tidied, NoNewJob
<1>2. \A i \in Left' : i \in Left /\ SameTask(engine'.queue[i], engine.queue[i])
  BY DEF Left, SameTask
<1> QED BY <1>1, <1>2 DEF JobsFrom

LEMMA SameNumbersNoNew ==
    ASSUME Tidied, store'.nextJob = store.nextJob, IsStore(store)
    PROVE  /\ \A p : NoNewJob(p)
           /\ \A i \in JobIds(store') : i \in JobIds(store) /\ SameTask(store'.jobs[i], store.jobs[i])
<1>1. store.nextJob \in Nat
  BY DEF IsStore
<1>2. ~(store.nextJob < store'.nextJob)
  BY <1>1
<1>3. \A i \in JobIds(store) : i < store.nextJob /\ i \in Nat
  BY DEF IsStore, IsQueue, JobIds
<1>4. \A i \in JobIds(store') : i \in JobIds(store) /\ SameTask(store'.jobs[i], store.jobs[i])
  BY <1>2 DEF Tidied
<1>5. \A i \in JobIds(store') : i # store.nextJob
  BY <1>1, <1>3, <1>4
<1> QED BY <1>4, <1>5 DEF NoNewJob

\* No number is given out: every job there is was there.
LEMMA PlainStay ==
    ASSUME PlainJobs, UNCHANGED engine,
           \A i \in JobIds(store') : i \in JobIds(store) /\ SameTask(store'.jobs[i], store.jobs[i])
    PROVE  PlainJobs'
<1>1. \A i \in JobIds(store') : PlainJob(store'.jobs[i])
  BY DEF PlainJobs, PlainJob, SameTask
<1> QED BY <1>1 DEF PlainJobs, Left

\* Who has the lock, or takes it, is the only one who replaces a file.
LEMMA AloneNew ==
    ASSUME AgreeInv, ClientTypeOK, NEW c \in Clients, commitMu \in {c, "free"}, NEW rec, Become(c, rec),
           CallNew(c)'
    PROVE  /\ Alone(c) /\ client'[c] = rec /\ \A k \in Clients : k # c => client'[k] = client[k]
           /\ \A k \in Clients : CallNew(k)'
<1>1. \A k \in Clients : k # "free"
  BY SyncStateAssumption DEF Readers
<1>2. Alone(c)
  BY <1>1 DEF AgreeInv, CallNew, Alone
<1>3. client'[c] = rec /\ \A k \in Clients : k # c => client'[k] = client[k]
  BY BecomeAt
<1>4. \A k \in Clients : k # c => CallNew(k)'
  BY <1>2, <1>3 DEF Alone, CallNew, Replacing
<1> QED BY <1>2, <1>3, <1>4

\* Steps that leave the store alone.
LEMMA SameStoreAgrees ==
    ASSUME BaseInv, AgreeInv, UNCHANGED <<store, engine, machine, sweeper>>, \A k \in Clients : CallNew(k)',
           \A p \in Paths : Undisturbed(p)' => Undisturbed(p) /\ cache'[p] \in {cache[p], None}
    PROVE  AgreeInv'
<1>1. \A j : SameTask(j, j)
  BY DEF SameTask
<1>2. PlainJobs'
  BY <1>1, PlainStay DEF AgreeInv
<1>3. \A p \in Paths : UntouchedAt(p)
  BY <1>1 DEF UntouchedAt, JobsFrom, Left
<1> QED BY <1>2, <1>3, AgreeFrom

\* A replacement that begins.
LEMMA UploadAgrees ==
    ASSUME BaseInv, Steady, AgreeInv, UNCHANGED <<engine, sweeper>>,
           NEW c \in Clients, NEW p \in Paths, NEW v \in Contents, NEW op \in {"upload", "range"},
           Upload(c, p, v, op)
    PROVE  AgreeInv'
<1> DEFINE rec == [ClientIdle EXCEPT !.op = op, !.path = p, !.val = v]
           new == [rec EXCEPT !.pc = "replace", !.backup = cache[p]]
<1>1. /\ commitMu = "free" /\ commitMu' = c /\ cache' = [cache EXCEPT ![p] = None] /\ Become(c, new)
      /\ client[c].pc = "idle" /\ UNCHANGED <<store, machine>> /\ v \notin ContentsInUse
  BY DEF Upload, BackupCacheTarget, Call, Steady, Without
<1>2. new.pc = "replace" /\ new.path = p /\ new.source = None /\ new.op = op /\ new.val = v
  BY DEF ClientIdle
<1> HIDE DEF rec, new
<1>3. client'[c] = new
  BY <1>1, BecomeAt DEF BaseInv
<1>4. \A i \in JobIds(store) : store.jobs[i].md5 # v
  BY <1>1 DEF ContentsInUse
<1>5. CallNew(c)'
  BY <1>1, <1>2, <1>3, <1>4 DEF CallNew, Replacing
<1>6. /\ \A k \in Clients : k # c => client'[k] = client[k]
      /\ \A k \in Clients : CallNew(k)'
  BY <1>1, <1>5, AloneNew DEF BaseInv
<1>7. \A q \in Paths : Undisturbed(q)' => Undisturbed(q)
  BY <1>1, <1>6 DEF Undisturbed, Replacing
<1>8. \A q \in Paths : cache'[q] \in {cache[q], None}
  BY <1>1 DEF BaseInv, CacheTyped
<1> QED BY <1>1, <1>6, <1>7, <1>8, SameStoreAgrees

LEMMA ReplaceAgrees ==
    ASSUME BaseInv, AgreeInv, UNCHANGED <<engine, sweeper>>, NEW c \in Clients, ReplaceCacheFile(c)
    PROVE  AgreeInv'
<1> DEFINE p == client[c].path
           new == [client[c] EXCEPT !.pc = "commit"]
<1>f. client[c] \in CallRecords /\ CallOK(client[c]) /\ client[c].pc = "replace" /\ CallNew(c)
  BY CallerFacts DEF ReplaceCacheFile, BaseInv, AgreeInv
<1>1. client[c].source = None /\ client[c].op \in {"upload", "range"} /\ p \in Paths /\ commitMu = c
      /\ \A i \in JobIds(store) : store.jobs[i].md5 # client[c].val
  BY <1>f DEF CallNew, Replacing, CallOK, CallRecords
<1>2. Become(c, new) /\ UNCHANGED <<store, machine, commitMu>> /\ cache' = [cache EXCEPT ![p] = client[c].val]
  BY <1>1 DEF ReplaceCacheFile, Replaced, Target
<1>3. new.pc = "commit" /\ new.path = p /\ new.source = None /\ new.op = client[c].op
      /\ new.val = client[c].val
  BY <1>f, <1>1 DEF CallRecords
<1>4. cache'[p] = client[c].val /\ \A q \in Paths : q # p => cache'[q] = cache[q]
  BY <1>1, <1>2 DEF BaseInv, CacheTyped
<1> HIDE DEF new, p
<1>5. client'[c] = new
  BY <1>2, BecomeAt DEF BaseInv
<1>6. CallNew(c)'
  BY <1>1, <1>2, <1>3, <1>4, <1>5 DEF CallNew, Replacing
<1>7. /\ \A k \in Clients : k # c => client'[k] = client[k]
      /\ \A k \in Clients : CallNew(k)'
  BY <1>1, <1>2, <1>6, AloneNew DEF BaseInv
<1>8. \A q \in Paths : Undisturbed(q)' => Undisturbed(q) /\ q # p
  BY <1>3, <1>5, <1>7 DEF Undisturbed, Replacing, p
<1> QED BY <1>2, <1>4, <1>7, <1>8, SameStoreAgrees

\* The catalog hears of it: the job that is queued is the youngest, and the only
\* one with this content.
LEMMA CommitAgrees ==
    ASSUME BaseInv, RunInv, PassInv, Steady, AgreeInv, UNCHANGED <<engine, sweeper>>, Tidied,
           NEW c \in Clients, CommitReplacement(c)
    PROVE  AgreeInv'
<1>f. /\ client[c] \in CallRecords /\ CallOK(client[c]) /\ client[c].pc = "commit" /\ CallNew(c)
      /\ ServiceShape /\ IsStore(store) /\ store.entries \in [Paths -> Entry] /\ EngineShape
      /\ PlainJobs /\ ClientTypeOK
  BY CallerFacts, BaseShapes DEF CommitReplacement, BaseInv, AgreeInv, StoreShape, GoodStore, IsStore
<1>0. client[c].op \in {"upload", "range"} /\ commitMu = c
  BY <1>f DEF CallNew, Replacing
<1>2. Batch(CommitBatch(store, c)) /\ UNCHANGED <<cache, machine>> /\ Become(c, ClientIdle) /\ commitMu' = "free"
  BY DEF CommitReplacement, BatchFails, Steady, Return, Unlock
<1>3. PICK p \in Paths, v \in Contents :
          /\ p = client[c].path /\ v = client[c].val
          /\ Uploaded(p, CachedEntry(p, v, "pending_upload")) \/ RangeWritten(p, RangeEntry(p, v))
  BY <1>f, <1>0, <1>2, CommitEffect
<1>1. commitMu = c /\ cache[p] \in {v, None} /\ \A i \in JobIds(store) : store.jobs[i].md5 # v
  BY <1>0, <1>3, <1>f DEF CallNew, Replacing
<1>n. v # None
  BY <1>3, StoreAssumption
<1>r. "retry" \notin Ops
  BY DEF Steady, Without
<1>4. ClientIdle.pc = "idle"
  BY DEF ClientIdle
<1>5. client'[c] = ClientIdle
  BY <1>f, <1>2, BecomeAt
<1>6. CallNew(c)'
  BY <1>4, <1>5 DEF CallNew, Replacing
<1>7. Alone(c) /\ (\A k \in Clients : k # c => client'[k] = client[k]) /\ \A k \in Clients : CallNew(k)'
  BY <1>f, <1>1, <1>2, <1>6, AloneNew
<1>8. \A q \in Paths : q # p => Undisturbed(q)
  BY <1>3, <1>7 DEF Undisturbed, Alone
<1>o. ASSUME NEW q \in Paths, NoNewJob(q), store'.entries[q] = store.entries[q], q # p
      PROVE  UntouchedAt(q)
  BY <1>2, <1>8, <1>o, <1>r, TidiedFrom DEF UntouchedAt
<1>9. CASE RangeWritten(p, RangeEntry(p, v))
  <2>1. store'.entries = [store.entries EXCEPT ![p] = RangeEntry(p, v)] /\ store'.nextJob = store.nextJob
    BY <1>9 DEF RangeWritten, Result
  <2>2. ~Live(RangeEntry(p, v))
    BY DEF RangeEntry, CachedEntry, Live
  <2>3. PlainJobs' /\ \A q : NoNewJob(q)
    BY <1>f, <2>1, SameNumbersNoNew, PlainStay
  <2>4. UntouchedAt(p)
    BY <1>3, <1>f, <2>1, <2>2 DEF UntouchedAt
  <2>5. \A q \in Paths : q # p => UntouchedAt(q)
    BY <1>o, <1>f, <2>1, <2>3
  <2> QED BY <1>2, <1>7, <2>3, <2>4, <2>5, AgreeFrom
<1>10. CASE Uploaded(p, CachedEntry(p, v, "pending_upload"))
  <2> DEFINE e == CachedEntry(p, v, "pending_upload")
             j == NewJob("upload", p, None, e)
             n == store.nextJob
  <2>1. e.cachePath = p /\ e.md5 = v /\ e.sync = "pending_upload" /\ j.path = p /\ j.kind = "upload"
        /\ j.cachePath = p
    BY DEF CachedEntry, NewJob
  <2>2. store'.entries = [store.entries EXCEPT ![p] = e]
        /\ store'.jobs = Added(WithoutWrites(store.jobs, p), n, j)
    BY <1>10 DEF Uploaded, Result
  <2>3. IsQueue(store.jobs) /\ DOMAIN store.jobs = JobIds(store) /\ n \in Nat
        /\ \A i \in JobIds(store) : i < n /\ i \in Nat
    BY <1>f DEF IsStore, IsQueue, JobIds
  <2>4. DOMAIN WithoutWrites(store.jobs, p) = JobIds(store)
        /\ \A i \in JobIds(store) : SameTask(WithoutWrites(store.jobs, p)[i], store.jobs[i])
    BY <1>f, ClosedOthers, <2>3, ClosedTwice DEF WithoutWrites, MayClose
  <2> HIDE DEF e, j, n
  <2>5. JobIds(store') = JobIds(store) \cup {n} /\ store'.jobs[n] = j
        /\ \A i \in JobIds(store) : SameTask(store'.jobs[i], store.jobs[i])
    BY <2>2, <2>3, <2>4 DEF Added, JobIds
  <2>6. store'.entries[p] = e /\ \A q \in Paths : q # p => store'.entries[q] = store.entries[q]
    BY <1>3, <1>f, <2>2
  <2>7. \A q \in Paths : q # p => UntouchedAt(q)
    BY <2>1, <2>5, <1>o, <2>6 DEF NoNewJob, n
  <2>8. LiveAt(p)'
    <3>1. ASSUME NEW i \in JobIds(store'), store'.jobs[i].path = p, store'.jobs[i].md5 = v PROVE Youngest(p, i)'
      <4>1. i = n
        BY <1>1, <2>5, <3>1 DEF SameTask
      <4>2. \A k \in JobIds(store') : k <= n
        BY <2>3, <2>5
      <4>3. \A k \in Left' : k <= n
        BY <1>f, <2>3 DEF PassInv, EngineShape, EngineTypeOK, IsQueue, Left, n
      <4> QED BY <4>1, <4>2, <4>3 DEF Youngest
    <3>2. store'.entries[p].cachePath = p /\ store'.entries[p].md5 = v /\ cache'[p] \in {v, None}
      BY <1>1, <1>2, <2>1, <2>6
    <3>3. \A i \in JobIds(store') :
              (store'.jobs[i].path = p /\ store'.jobs[i].kind = "upload"
               /\ store'.jobs[i].md5 = store'.entries[p].md5) => Youngest(p, i)'
      BY <3>1, <3>2
    <3> QED BY <1>n, <3>2, <3>3 DEF LiveAt
  <2>9. engine.pc \in {"call", "settle"} /\ Current.path = p => ~UploadJobMatches(store', Current, "uploading")
    <3> SUFFICES ASSUME engine.pc \in {"call", "settle"}, Current.path = p, Current.md5 = v PROVE FALSE
      BY <2>1, <2>6 DEF UploadJobMatches
    <3>1. Left # {}
      BY <1>f DEF EngineShape, EngineOK
    <3>2. CurrentId \in Left /\ CurrentId \in JobIds(store)
      BY <1>f, <3>1, CurrentFacts DEF RunInv, AtWork, ExecutePCs, CurrentRuns
    <3>3. store.jobs[CurrentId].md5 = v
      BY <3>2 DEF PassInv, SameTask, Current
    <3> QED BY <1>1, <3>2, <3>3
  <2>10. PlainJobs'
    BY <1>f, <2>1, <2>5 DEF PlainJobs, PlainJob, SameTask, Left
  <2>11. store'.entries[p].sync # "synced"
    BY <2>1, <2>6
  <2>12. WrittenAt(p)
    BY <2>8, <2>9, <2>11 DEF WrittenAt
  <2> QED BY <1>2, <1>7, <2>7, <2>10, <2>12, AgreeFrom
<1> QED BY <1>3, <1>9, <1>10

\* A caller who writes no file makes the entry of p no live one.
LEMMA BuriedAgrees ==
    ASSUME BaseInv, Steady, AgreeInv, Tidied, UNCHANGED <<engine, sweeper, machine, cache, commitMu>>,
           NEW c \in Clients, NEW rec, Become(c, rec), ~Replacing(client[c]), ~Replacing(rec),
           rec.pc # "sweep", NEW p \in Paths, ~Live(store'.entries[p]),
           \A q \in Paths : q # p => store'.entries[q] = store.entries[q] /\ NoNewJob(q),
           \A i \in JobIds(store') : \/ store'.jobs[i].md5 = None
                                     \/ i \in JobIds(store) /\ store'.jobs[i].md5 = store.jobs[i].md5,
           PlainJobs'
    PROVE  AgreeInv'
<1>1. client'[c] = rec /\ \A k \in Clients : k # c => client'[k] = client[k]
  BY BecomeAt DEF BaseInv
<1>2. \A q \in Paths : cache'[q] \in {cache[q], None}
  OBVIOUS
<1>3. \A k \in Clients : client'[k] = client[k] \/ (~Replacing(client'[k]) /\ client'[k].pc # "sweep")
  BY <1>1
<1>4. \A k \in Clients : CallNew(k)'
  BY <1>2, <1>3, BystandersNew
<1>5. \A q \in Paths : Undisturbed(q)' => Undisturbed(q)
  BY <1>1 DEF Undisturbed
<1>r. "retry" \notin Ops
  BY DEF Steady, Without
<1>6. ASSUME NEW q \in Paths, q # p PROVE UntouchedAt(q)
  BY <1>2, <1>5, <1>6, <1>r, TidiedFrom DEF UntouchedAt
<1>7. UntouchedAt(p)
  BY DEF UntouchedAt
<1> QED BY <1>4, <1>6, <1>7, AgreeFrom

\* Delete queues its job.
LEMMA DeleteAgrees ==
    ASSUME BaseInv, Steady, AgreeInv, UNCHANGED <<engine, sweeper>>, Tidied,
           NEW c \in Clients, EnqueueDelete(c)
    PROVE  AgreeInv'
<1>f. /\ client[c] \in CallRecords /\ CallOK(client[c]) /\ IsStore(store) /\ store.written = {}
      /\ store.entries \in [Paths -> Entry] /\ PlainJobs
  BY CallerFacts DEF BaseInv, StoreShape, GoodStore, IsStore, AgreeInv
<1>1. PICK p \in Paths : (HasEntry(store, p) /\ DeleteQueued(p)) \/ UNCHANGED <<store, fresh>>
  BY <1>f, DeleteEffect
<1>2. /\ Become(c, ClientIdle) /\ client[c].pc = "enqueueDelete" /\ ClientIdle.pc = "idle"
      /\ UNCHANGED <<cache, machine, commitMu>>
  BY DEF EnqueueDelete, Return, ClientIdle
<1>3. ~Replacing(client[c]) /\ ~Replacing(ClientIdle)
  BY <1>2 DEF Replacing
<1>4. CASE UNCHANGED store
  <2>1. client'[c] = ClientIdle /\ \A k \in Clients : k # c => client'[k] = client[k]
    BY <1>2, BecomeAt DEF BaseInv
  <2>2. \A q \in Paths : cache'[q] \in {cache[q], None}
    BY <1>2
  <2>3. \A k \in Clients : client'[k] = client[k] \/ (~Replacing(client'[k]) /\ client'[k].pc # "sweep")
    BY <1>2, <1>3, <2>1
  <2>4. \A k \in Clients : CallNew(k)'
    BY <1>2, <1>4, <2>2, <2>3, BystandersNew
  <2>5. \A q \in Paths : Undisturbed(q)' => Undisturbed(q)
    BY <1>3, <2>1 DEF Undisturbed
  <2> QED BY <1>2, <1>4, <2>2, <2>4, <2>5, SameStoreAgrees
<1>5. CASE DeleteQueued(p)
  <2> DEFINE n == store.nextJob
             j == NewJob("delete", p, None, NoEntry)
  <2>1. /\ j.path = p /\ j.kind = "delete" /\ j.md5 = None
    BY DEF NewJob, NoEntry
  <2>2. /\ store'.entries = [store.entries EXCEPT ![p].sync = "pending_delete"]
        /\ store'.jobs = Added(store.jobs, n, j)
    BY <1>5 DEF DeleteQueued, Result
  <2>3. DOMAIN store.jobs = JobIds(store) /\ n \in Nat /\ \A i \in JobIds(store) : i < n /\ i \in Nat
    BY <1>f DEF IsStore, IsQueue, JobIds
  <2> HIDE DEF j, n
  <2>4. JobIds(store') = JobIds(store) \cup {n} /\ store'.jobs[n] = j
        /\ \A i \in JobIds(store) : store'.jobs[i] = store.jobs[i]
    BY <2>2, <2>3 DEF Added, JobIds
  <2>5. store'.entries[p].sync = "pending_delete" /\ \A q \in Paths : q # p => store'.entries[q] = store.entries[q]
    BY <1>f, <2>2, SyncSetAt
  <2>6. ~Live(store'.entries[p])
    BY <2>5 DEF Live
  <2>7. \A q \in Paths : q # p => NoNewJob(q)
    BY <2>1, <2>4 DEF NoNewJob, n
  <2>8. PlainJobs'
    BY <1>f, <2>1, <2>4 DEF PlainJobs, PlainJob, Left
  <2>9. \A i \in JobIds(store') : \/ store'.jobs[i].md5 = None
                                  \/ i \in JobIds(store) /\ store'.jobs[i].md5 = store.jobs[i].md5
    BY <2>1, <2>4
  <2> QED BY <1>2, <1>3, <2>5, <2>6, <2>7, <2>8, <2>9, BuriedAgrees
<1> QED BY <1>1, <1>4, <1>5

\* Delete of a file that is only here: the entry goes with its jobs.
LEMMA DiscardAgrees ==
    ASSUME BaseInv, Steady, AgreeInv, UNCHANGED <<engine, sweeper>>, Tidied,
           NEW c \in Clients, DiscardBatch(c)
    PROVE  AgreeInv'
<1>f. /\ client[c] \in CallRecords /\ CallOK(client[c]) /\ IsStore(store) /\ store.written = {}
      /\ store.entries \in [Paths -> Entry] /\ PlainJobs
  BY CallerFacts DEF BaseInv, StoreShape, GoodStore, IsStore, AgreeInv
<1>1. PICK p \in Paths : client[c].pc = "discard" /\ (Discarded(p) \/ UNCHANGED <<store, fresh>>)
  BY <1>f, DiscardEffect
<1>2. PICK rec : /\ Become(c, rec) /\ rec.pc \in {"idle", "unlink"}
                 /\ UNCHANGED <<cache, machine, commitMu>>
  BY <1>f DEF ClientIdle, CallRecords, DiscardBatch, Return
<1>3. ~Replacing(client[c]) /\ ~Replacing(rec) /\ rec.pc # "sweep"
  BY <1>1, <1>2 DEF Replacing
<1>4. CASE UNCHANGED store
  <2>1. client'[c] = rec /\ \A k \in Clients : k # c => client'[k] = client[k]
    BY <1>2, BecomeAt DEF BaseInv
  <2>2. \A q \in Paths : cache'[q] \in {cache[q], None}
    BY <1>2
  <2>3. \A k \in Clients : client'[k] = client[k] \/ (~Replacing(client'[k]) /\ client'[k].pc # "sweep")
    BY <1>3, <2>1
  <2>4. \A k \in Clients : CallNew(k)'
    BY <1>2, <1>4, <2>2, <2>3, BystandersNew
  <2>5. \A q \in Paths : Undisturbed(q)' => Undisturbed(q)
    BY <1>3, <2>1 DEF Undisturbed
  <2> QED BY <1>2, <1>4, <2>2, <2>4, <2>5, SameStoreAgrees
<1>5. CASE Discarded(p)
  <2>1. /\ store'.entries = [store.entries EXCEPT ![p] = NoEntry] /\ store'.nextJob = store.nextJob
    BY <1>5 DEF Discarded, Result
  <2>2. /\ \A q : NoNewJob(q)
        /\ \A i \in JobIds(store') : i \in JobIds(store) /\ SameTask(store'.jobs[i], store.jobs[i])
    BY <1>f, <2>1, SameNumbersNoNew
  <2>3. PlainJobs'
    BY <1>f, <2>2, PlainStay
  <2>4. ~Live(store'.entries[p]) /\ \A q \in Paths : q # p => store'.entries[q] = store.entries[q]
    BY <1>f, <2>1 DEF NoEntry, Live
  <2>5. \A i \in JobIds(store') : \/ store'.jobs[i].md5 = None
                                  \/ i \in JobIds(store) /\ store'.jobs[i].md5 = store.jobs[i].md5
    BY <2>2 DEF SameTask
  <2> QED BY <1>2, <1>3, <2>2, <2>3, <2>4, <2>5, BuriedAgrees
<1> QED BY <1>1, <1>4, <1>5

\* RunMaintenance drops finished jobs.
LEMMA PruneAgrees ==
    ASSUME BaseInv, Steady, AgreeInv, UNCHANGED <<engine, sweeper>>, Tidied,
           NEW c \in Clients, PruneJobs(c)
    PROVE  AgreeInv'
<1>f. IsStore(store) /\ store.written = {} /\ PlainJobs
  BY DEF BaseInv, StoreShape, GoodStore, AgreeInv
<1>r. "retry" \notin Ops
  BY DEF Steady, Without
<1>1. UNCHANGED <<cache, machine, commitMu, client>>
  BY DEF PruneJobs
<1>2. store'.entries = store.entries /\ store'.nextJob = store.nextJob
  BY <1>f, PruneEffect DEF Pruned, Result
<1>3. /\ \A q : NoNewJob(q)
      /\ \A i \in JobIds(store') : i \in JobIds(store) /\ SameTask(store'.jobs[i], store.jobs[i])
  BY <1>f, <1>2, SameNumbersNoNew
<1>4. PlainJobs'
  BY <1>f, <1>3, PlainStay
<1>5. \A k \in Clients : CallNew(k)'
  BY <1>3, <1>1, BystandersNew DEF SameTask
<1>6. \A q \in Paths : Undisturbed(q)' => Undisturbed(q)
  BY <1>1 DEF Undisturbed
<1>7. ASSUME NEW q \in Paths PROVE UntouchedAt(q)
  BY <1>1, <1>2, <1>3, <1>6, <1>r, TidiedFrom DEF UntouchedAt
<1> QED BY <1>1, <1>4, <1>5, <1>7, AgreeFrom

\* The steps that take a lock or remove cache files, or only begin a call.
LEMMA OrphansAgree ==
    ASSUME BaseInv, AgreeInv, UNCHANGED <<engine, sweeper>>, NEW c \in Clients,
           \/ UnlinkDiscarded(c) \/ PruneCache(c) \/ PruneCacheRemove(c)
           \/ \E p \in Paths : Delete(c, p)
    PROVE  AgreeInv'
<1>f. client[c] \in CallRecords /\ CallNew(c) /\ CacheTyped /\ ClientTypeOK
  BY CallerFacts DEF BaseInv, AgreeInv
<1>i. ClientIdle.pc = "idle" /\ ~Replacing(ClientIdle)
  BY DEF ClientIdle, Replacing
<1>1. /\ UNCHANGED <<store, machine>> /\ ~Replacing(client[c])
      /\ \A q \in Paths : cache'[q] \in {cache[q], None}
  BY <1>f DEF UnlinkDiscarded, PruneCache, PruneCacheRemove, Delete, Call, Replacing, shared, CacheTyped
<1>2. CASE UnlinkDiscarded(c) \/ \E p \in Paths : Delete(c, p)
  <2>1. PICK rec : Become(c, rec) /\ ~Replacing(rec) /\ rec.pc # "sweep" /\ UNCHANGED commitMu
    <3>1. CASE UnlinkDiscarded(c)
      BY <3>1, <1>i DEF UnlinkDiscarded, Return
    <3>2. ASSUME NEW p \in Paths, Delete(c, p)
          PROVE  \E rec : Become(c, rec) /\ ~Replacing(rec) /\ rec.pc # "sweep" /\ UNCHANGED commitMu
      <4> DEFINE rec == [ClientIdle EXCEPT !.op = "delete", !.path = p,
                             !.pc = IF ShouldDiscardLocalEntry(p) THEN "discard" ELSE "enqueueDelete"]
      <4>1. rec.pc \in {"discard", "enqueueDelete"}
        BY DEF ClientIdle
      <4>2. Become(c, rec) /\ UNCHANGED commitMu
        BY <3>2 DEF Delete, shared
      <4> HIDE DEF rec
      <4> QED BY <4>1, <4>2 DEF Replacing
    <3> QED BY <1>2, <3>1, <3>2
  <2>2. client'[c] = rec /\ \A k \in Clients : k # c => client'[k] = client[k]
    BY <1>f, <2>1, BecomeAt
  <2>3. \A k \in Clients : client'[k] = client[k] \/ (~Replacing(client'[k]) /\ client'[k].pc # "sweep")
    BY <2>1, <2>2
  <2>4. \A k \in Clients : CallNew(k)'
    BY <1>1, <2>1, <2>3, BystandersNew
  <2>5. \A q \in Paths : Undisturbed(q)' => Undisturbed(q)
    BY <1>1, <2>2 DEF Undisturbed
  <2> QED BY <1>1, <2>4, <2>5, SameStoreAgrees
<1>3. CASE PruneCache(c) \/ PruneCacheRemove(c)
  <2>1. PICK rec : Become(c, rec) /\ ~Replacing(rec) /\ (rec.pc = "sweep" => commitMu' = c)
    <3>1. CASE PruneCacheRemove(c)
      BY <3>1, <1>i DEF PruneCacheRemove, Return
    <3>2. CASE PruneCache(c)
      BY <3>2 DEF ClientIdle, PruneCache, Replacing
    <3> QED BY <1>3, <3>1, <3>2
  <2>2. commitMu \in {c, "free"}
    BY <1>3, <1>f DEF PruneCache, PruneCacheRemove, CallNew
  <2>3. client'[c] = rec
    BY <1>f, <2>1, BecomeAt
  <2>4. CallNew(c)'
    BY <2>1, <2>3 DEF CallNew, Replacing
  <2>5. /\ \A k \in Clients : k # c => client'[k] = client[k]
        /\ \A k \in Clients : CallNew(k)'
    BY <1>f, <2>1, <2>2, <2>4, AloneNew
  <2>6. \A q \in Paths : Undisturbed(q)' => Undisturbed(q)
    BY <1>1, <2>5 DEF Undisturbed
  <2> QED BY <1>1, <2>5, <2>6, SameStoreAgrees
<1> QED BY <1>2, <1>3

\* The calls that a steady scene makes keep catalog and machine together.
LEMMA ServiceAgrees ==
    ASSUME BaseInv, RunInv, PassInv, Steady, AgreeInv, ServiceNext, UNCHANGED <<engine, sweeper>>
    PROVE  AgreeInv'
<1>0. PICK c \in Clients :
        \/ \E p \in Paths, v \in Contents, op \in {"upload", "range"} : Upload(c, p, v, op)
        \/ ReplaceCacheFile(c) \/ CommitReplacement(c)
        \/ \E p \in Paths : Delete(c, p) \/ DiscardLocal(c, p) \/ Fetch(c, p)
        \/ EnqueueDelete(c) \/ DiscardBatch(c) \/ DiscardJobsBatch(c) \/ UnlinkDiscarded(c)
        \/ \E p, dest \in Paths : Rename(c, p, dest)
        \/ EnqueueRemoteRename(c) \/ RenameLocalUpload(c)
        \/ \E id \in JobIds(store) : Retry(c, id)
        \/ Download(c) \/ InstallFetched(c) \/ CommitFetch(c)
        \/ PruneJobs(c) \/ PruneCache(c) \/ PruneCacheRemove(c)
  BY DEF ServiceNext
<1>t. Tidied
  BY BaseShapes, ServiceStepEffect, ServiceTidies DEF BaseInv, StoreShape, GoodStore
<1>f. CallOK(client[c]) /\ CallOpOK(client[c]) /\ CallNew(c)
  BY CallerFacts DEF BaseInv, OpsInv, AgreeInv
<1>o. {"rename", "retry", "fetch", "discard"} \cap Ops = {}
  BY DEF Steady, Without
\* The calls that are not made here.
<1>1. ~(\E p \in Paths : DiscardLocal(c, p) \/ Fetch(c, p))
  BY <1>o DEF DiscardLocal, Fetch, Call
<1>2. ~(\E p, dest \in Paths : Rename(c, p, dest)) /\ ~(\E id \in JobIds(store) : Retry(c, id))
  BY <1>o DEF Rename, Retry, Call
<1>3. ~(EnqueueRemoteRename(c) \/ RenameLocalUpload(c) \/ DiscardJobsBatch(c))
  BY <1>f, <1>o DEF EnqueueRemoteRename, RenameLocalUpload, DiscardJobsBatch, CallOK, CallOpOK
<1>4. ~(Download(c) \/ InstallFetched(c) \/ CommitFetch(c))
  BY <1>f, <1>o DEF Download, InstallFetched, CommitFetch, CallOK, CallOpOK, CallNew, Replacing
\* Those that are.
<1>5. ASSUME NEW p \in Paths, NEW v \in Contents, NEW op \in {"upload", "range"}, Upload(c, p, v, op)
      PROVE  AgreeInv'
  BY <1>5, UploadAgrees
<1>6. CASE ReplaceCacheFile(c)
  BY <1>6, ReplaceAgrees
<1>7. CASE CommitReplacement(c)
  BY <1>7, <1>t, CommitAgrees
<1>8. CASE EnqueueDelete(c)
  BY <1>8, <1>t, DeleteAgrees
<1>9. CASE DiscardBatch(c)
  BY <1>9, <1>t, DiscardAgrees
<1>10. CASE PruneJobs(c)
  BY <1>10, <1>t, PruneAgrees
<1>11. CASE UnlinkDiscarded(c) \/ PruneCache(c) \/ PruneCacheRemove(c) \/ \E p \in Paths : Delete(c, p)
  BY <1>11, OrphansAgree
<1> QED BY <1>0, <1>1, <1>2, <1>3, <1>4, <1>5, <1>6, <1>7, <1>8, <1>9, <1>10, <1>11

\* The invariant is kept by every step: no sweep runs, nobody else writes.
LEMMA SteadyStep ==
    ASSUME BaseInv, BaseInv', RunInv, PassInv, OrderInv, SteadyInv, [Next]_vars
    PROVE  SteadyInv'
<1>s. UNCHANGED scene
  BY DEF Next, vars
<1>w. Steady' <=> Steady
  BY <1>s DEF Steady, Without, Ops, DiskMayFail, SweepKinds, Here
<1> SUFFICES ASSUME Steady, AgreeInv PROVE AgreeInv'
  BY <1>w DEF SteadyInv
<1>1. CASE UNCHANGED vars
  <2>1. \A k \in Clients : client'[k] = client[k] \/ (~Replacing(client'[k]) /\ client'[k].pc # "sweep")
    BY <1>1 DEF vars
  <2>2. /\ UNCHANGED <<store, engine, machine, sweeper, commitMu>>
        /\ \A q \in Paths : cache'[q] \in {cache[q], None}
    BY <1>1 DEF vars
  <2>3. \A k \in Clients : CallNew(k)'
    BY <2>1, <2>2, BystandersNew
  <2>4. \A q \in Paths : Undisturbed(q)' => Undisturbed(q)
    BY <1>1 DEF vars, Undisturbed
  <2> QED BY <2>2, <2>3, <2>4, SameStoreAgrees
<1>2. CASE EngineNext /\ UNCHANGED <<client, sweeper>>
  BY <1>2, EngineAgrees
<1>3. CASE ServiceNext /\ UNCHANGED <<engine, sweeper>>
  BY <1>3, ServiceAgrees
<1>4. ~ReconcilerNext
  <2>1. \A s \in Sweepers : sweeper[s].pc = "idle"
    BY DEF AgreeInv
  <2>2. SweepKinds = {}
    BY DEF Steady
  <2> QED BY <2>1, <2>2 DEF ReconcilerNext, List, ValidateStart, DeepCheck, DeepCheckEnd, ReadCatalog,
                            ValidateList, Apply, ApplyEnd
<1>5. ~Crash /\ ~\E p \in Paths, v \in Contents \cup {None} : ControllerWrites(p, v)
  BY DEF Crash, ControllerWrites, Steady, Without
<1> QED BY <1>1, <1>2, <1>3, <1>4, <1>5 DEF Next, Steps

\* SteadyInv is an invariant: a file that the catalog calls live is the one its
\* youngest upload carries (Upload, UploadRange, Delete, execute, setUploadJobSync).
THEOREM SpecSteady == Spec => []SteadyInv
<1>1. Init => SteadyInv
  <2> SUFFICES ASSUME Init PROVE AgreeInv
    BY DEF SteadyInv
  <2>1. \A c \in Clients : client[c] = ClientIdle /\ ClientIdle.pc = "idle"
    BY DEF Init, ClientIdle
  <2>2. \A p \in Paths : store.entries[p] = NoEntry
    BY DEF Init, SharedInit, EmptyStore
  <2>3. ~Live(NoEntry) /\ NoEntry.sync # "synced"
    BY DEF NoEntry, Live
  <2>4. JobIds(store) = {} /\ Left = {} /\ engine.pc = "idle"
    BY DEF Init, SharedInit, EmptyStore, JobIds, EngineIdle, Left
  <2>5. \A s \in Sweepers : sweeper[s].pc = "idle"
    BY DEF Init, SweeperIdle
  <2>6. \A p \in Paths : LiveAt(p) /\ SyncedAt(p)
    BY <2>2, <2>3 DEF LiveAt, SyncedAt
  <2>7. \A c \in Clients : CallNew(c)
    BY <2>1 DEF CallNew, Replacing
  <2>8. PlainJobs /\ InFlight
    BY <2>4 DEF PlainJobs, InFlight
  <2> QED BY <2>5, <2>6, <2>7, <2>8 DEF AgreeInv
<1>2. BaseInv /\ BaseInv' /\ RunInv /\ PassInv /\ OrderInv /\ SteadyInv /\ [Next]_vars => SteadyInv'
  BY SteadyStep
<1> QED BY <1>1, <1>2, SpecBase, SpecRun, SpecOrder, PTL DEF Spec

\* CatalogIsTrue: with uploads of new contents, ranges, deletes and maintenance in
\* any number and order on a good disk, and nobody else at the machine, an entry
\* that waits for a job has one and a file that the catalog calls Synced is the
\* machine's: the guard of setUploadJobSync notices every change of the entry
\* during the transfer, and Delete and the engine never leave a job behind that
\* could touch a Synced file.
THEOREM CatalogAgrees == Spec => [](Steady => CatalogIsTrue)
<1>1. SteadyInv /\ PendingHasJobWhileUp => (Steady => CatalogIsTrue)
  <2> SUFFICES ASSUME Steady, AgreeInv, PendingHasJobWhileUp PROVE CatalogIsTrue
    BY DEF SteadyInv
  <2>1. PendingHasJob
    BY DEF Steady, PendingHasJobWhileUp, Without
  <2>2. ASSUME NEW p \in Paths, store.entries[p].sync = "synced", Quiet(p)
        PROVE  machine[p] = store.entries[p].md5
    BY <2>2 DEF Quiet, Undisturbed, Replacing, AgreeInv, SyncedAt
  <2> QED BY <2>1, <2>2 DEF CatalogIsTrue, SyncedAgrees
<1> QED BY <1>1, SpecSteady, PendingStaysQueued, PTL
=============================================================================
