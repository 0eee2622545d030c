----------------------------- MODULE Reconciler -----------------------------
(***************************************************************************)
(* The sweeps of internal/synceng/reconcile.go: the frequent metadata       *)
(* sweep, the deep one that also compares MD5s, and the validation of the   *)
(* cache after a restart.  Each lists the machine while it holds the        *)
(* connection and folds the listing into the catalog afterwards, entry by   *)
(* entry, each in a batch that looks whether the entry it read is still     *)
(* there.  Each of the loops is a goroutine: a member of Sweepers.          *)
(*                                                                          *)
(* sweeper[s].pc is the line loop s has reached:                            *)
(*    idle     between sweeps                                               *)
(*    list     startup validation has its candidates, the listing is next   *)
(*    check    deep sweep, holding the connection: MD5s are compared        *)
(*    read     the connection is free, the catalog is read next             *)
(*    apply    the listing is folded in, the paths of todo are left         *)
(***************************************************************************)
EXTENDS SyncState

CONSTANT
    MetadataMD5    \* whether this machine model answers md5sum

VARIABLE sweeper

ASSUME ReconcilerAssumption == MetadataMD5 \in BOOLEAN

SweeperTypeOK ==
    sweeper \in [Sweepers -> [pc : {"idle", "list", "check", "read", "apply"},
                             kind : {"none", "metadata", "deep", "startup"},
                             remote : [Paths -> Files], known : [Paths -> Entry],
                             todo : SUBSET Paths]]

SweeperIdle == [pc |-> "idle", kind |-> "none", remote |-> [p \in Paths |-> None],
                known |-> [p \in Paths |-> NoEntry], todo |-> {}]

Now(s, rec) == sweeper' = [sweeper EXCEPT ![s] = rec]

Forget(s) == fresh' = [fresh EXCEPT ![s] = {}]

IsSettled(sync) == sync \in {"synced", "remote_only"}

Catalogued == {p \in Paths : HasEntry(store, p)}

-----------------------------------------------------------------------------
(* The guarded updates of one entry.  An entry that anybody has written     *)
(* since the sweep read it (sameReconcileEntry compares UpdatedAt) stays.   *)

Unchanged(s, p) == HasEntry(store, p) /\ p \in fresh[s]

MD5Differs(e, md5) == md5 # None /\ e.md5 \notin {None, md5}

MarkRemoteOnly(b, p, v, md5) ==
    PutEntry(b, p, [sync |-> "remote_only", md5 |-> md5, size |-> SizeOf[v],
                    cachePath |-> None, cacheState |-> "none"])

MarkCacheReady(b, p, v, md5) ==
    PutEntry(b, p, [b.entries[p] EXCEPT !.size = SizeOf[v], !.cacheState = "ready",
                                        !.md5 = IF md5 = None THEN @ ELSE md5])

\* Mutant: a discovered file overwrites the entry of a local upload.
PutDiscoveredAlways(b, p, v) == MarkRemoteOnly(b, p, v, None)

PutDiscoveredIfAbsent(b, p, v) ==
    IF HasEntry(b, p) THEN b ELSE MarkRemoteOnly(b, p, v, None)

\* A batch of a sweep; a failed write is logged and the sweep goes on.
SweepBatch(b) == Batch(b) \/ BatchFails(b)

-----------------------------------------------------------------------------
(* Reconcile and DeepReconcile                                              *)

List(s, kind) ==
    /\ sweeper[s].pc = "idle"
    /\ kind \in SweepKinds \cap {"metadata", "deep"}
    /\ opMu = "free"
    /\ Now(s, [SweeperIdle EXCEPT
                   !.kind = kind, !.remote = machine,
                   !.pc = IF kind = "deep" THEN "check" ELSE "read",
                   !.known = IF kind = "deep" THEN store.entries ELSE @,
                   !.todo = IF kind = "deep" THEN Catalogued ELSE @])
    /\ opMu' = IF kind = "deep" THEN s ELSE "free"
    /\ IF kind = "deep" THEN Look(s, Catalogued) ELSE UNCHANGED fresh
    /\ UNCHANGED <<store, cache, machine, commitMu>>

\* The cached synced files whose size still fits are compared by MD5.
DeepCheckable(s, p) ==
    LET e == sweeper[s].known[p]
        v == sweeper[s].remote[p]
    IN  /\ e.sync = "synced" /\ e.cachePath # None /\ e.cacheState # "none"
        /\ v # None /\ e.size = SizeOf[v]

\* md5sum reads the file as it is now; without it the size alone decides.
DeepCheckBatch(b, s, p) ==
    LET v == sweeper[s].remote[p]
        md5 == IF MetadataMD5 THEN machine[p] ELSE None
    IN  IF ~Unchanged(s, p) THEN b
        ELSE IF MD5Differs(sweeper[s].known[p], md5)
        THEN MarkRemoteOnly(b, p, v, md5)
        ELSE MarkCacheReady(b, p, v, md5)

DeepCheck(s, p) ==
    /\ sweeper[s].pc = "check"
    /\ p \in sweeper[s].todo
    /\ \/ /\ DeepCheckable(s, p)
          /\ MetadataMD5 => machine[p] # None
          /\ SweepBatch(DeepCheckBatch(store, s, p))
       \/ UNCHANGED <<store, fresh>>         \* not checkable, or md5sum did not answer
    /\ Now(s, [sweeper[s] EXCEPT !.todo = @ \ {p}])
    /\ UNCHANGED <<cache, machine, opMu, commitMu>>

\* WithMachine returns; an error ends the sweep.
DeepCheckEnd(s) ==
    /\ sweeper[s].pc = "check"
    /\ opMu' = "free"
    /\ Forget(s)
    /\ \/ /\ sweeper[s].todo = {}
          /\ Now(s, [sweeper[s] EXCEPT !.pc = "read",
                                       !.known = SweeperIdle.known])
       \/ Now(s, SweeperIdle)
    /\ UNCHANGED <<store, cache, machine, commitMu>>

ReadCatalog(s) ==
    /\ sweeper[s].pc = "read"
    /\ Look(s, Catalogued)
    /\ Now(s, [sweeper[s] EXCEPT !.pc = "apply", !.known = store.entries,
                   !.todo = Catalogued \cup {p \in Paths : sweeper[s].remote[p] # None}])
    /\ UNCHANGED <<store, cache, machine, opMu, commitMu>>

\* remoteOnlyMTimeChanged: times are not modelled, so it may always hold.
MTimeMayDiffer(e) == e.sync = "remote_only"

ReconcileEntry(s, p) ==
    LET e == sweeper[s].known[p]
        v == sweeper[s].remote[p]
    IN  \/ /\ v # None /\ e.sync = "absent"
           /\ SweepBatch(PutDiscoveredIfAbsent(store, p, v))
        \/ /\ v # None /\ IsSettled(e.sync)
           /\ e.size # SizeOf[v] \/ MTimeMayDiffer(e)
           /\ Unchanged(s, p)
           /\ SweepBatch(MarkRemoteOnly(store, p, v, None))
        \/ /\ v = None /\ IsSettled(e.sync)
           /\ Unchanged(s, p)
           /\ SweepBatch(DeleteEntry(store, p))
        \/ /\ \/ ~IsSettled(e.sync) /\ e.sync # "absent"
              \/ IsSettled(e.sync) /\ ~Unchanged(s, p)
              \/ v # None /\ IsSettled(e.sync) /\ e.size = SizeOf[v]
           /\ UNCHANGED <<store, fresh>>

-----------------------------------------------------------------------------
(* ValidateStartupCache                                                     *)

AwaitsValidation(e) == e.sync = "synced" /\ e.cachePath # None /\ e.cacheState = "validating"

ValidateStart(s) ==
    /\ sweeper[s].pc = "idle"
    /\ "startup" \in SweepKinds
    /\ \E p \in Paths : AwaitsValidation(store.entries[p])
    /\ Now(s, [SweeperIdle EXCEPT !.pc = "list", !.kind = "startup", !.known = store.entries,
                   !.todo = {p \in Paths : AwaitsValidation(store.entries[p])}])
    /\ UNCHANGED shared

\* Listing and MD5s in one callback; on an error the loop starts again.
ValidateList(s) ==
    /\ sweeper[s].pc = "list"
    /\ opMu = "free"
    /\ \/ Now(s, [sweeper[s] EXCEPT !.pc = "apply", !.remote = machine])
       \/ Now(s, SweeperIdle)
    /\ UNCHANGED shared

\* The latest entry is read again and judged by the machine's answer.
ValidateEntry(s, p) ==
    LET latest == store.entries[p]
        v == sweeper[s].remote[p]
        md5 == IF MetadataMD5 THEN v ELSE None
        current == AwaitsValidation(latest) /\ latest.cachePath = sweeper[s].known[p].cachePath
    IN  \/ ~current /\ UNCHANGED <<store, fresh>>
        \/ current /\ v = None /\ SweepBatch(DeleteEntry(store, p))
        \/ /\ current /\ v # None /\ latest.size # SizeOf[v]
           /\ SweepBatch(MarkRemoteOnly(store, p, v, None))
        \/ /\ current /\ v # None /\ latest.size = SizeOf[v]
           /\ \/ MetadataMD5 /\ UNCHANGED <<store, fresh>>          \* md5sum failed
              \/ /\ MD5Differs(latest, md5)
                 /\ SweepBatch(MarkRemoteOnly(store, p, v, md5))
              \/ /\ ~MD5Differs(latest, md5)
                 /\ SweepBatch(MarkCacheReady(store, p, v, md5))

Apply(s, p) ==
    /\ sweeper[s].pc = "apply"
    /\ p \in sweeper[s].todo
    /\ \/ sweeper[s].kind # "startup" /\ ReconcileEntry(s, p)
       \/ sweeper[s].kind = "startup" /\ ValidateEntry(s, p)
    /\ Now(s, [sweeper[s] EXCEPT !.todo = @ \ {p}])
    /\ UNCHANGED <<cache, machine, opMu, commitMu>>

ApplyEnd(s) ==
    /\ sweeper[s].pc = "apply"
    /\ sweeper[s].todo = {}
    /\ Now(s, SweeperIdle)
    /\ Forget(s)
    /\ UNCHANGED <<store, cache, machine, opMu, commitMu>>

ReconcilerNext ==
    \E s \in Sweepers :
        \/ \E kind \in SweepKinds : List(s, kind)
        \/ \E p \in Paths : DeepCheck(s, p) \/ Apply(s, p)
        \/ DeepCheckEnd(s) \/ ReadCatalog(s) \/ ApplyEnd(s)
        \/ ValidateStart(s) \/ ValidateList(s)
=============================================================================
