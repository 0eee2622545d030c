----------------------------- MODULE SyncState ------------------------------
(***************************************************************************)
(* What the sync engine, the file service and the reconcile sweeps share:   *)
(* the durable store, the cache directory, the files on the machine, and    *)
(* the two locks that order their steps.  Each of them is a module of its   *)
(* own; FileSync composes the three.                                        *)
(***************************************************************************)
EXTENDS Store

CONSTANTS
    Clients,       \* concurrent callers of the file service
    Sweepers,      \* reconcile loops (metadata, deep, startup validation)
    Scenes         \* what may happen, a sequence of records

VARIABLES
    scene,         \* which of Scenes this behaviour is
    store,         \* the store's model, always equal to what is on disk
    cache,         \* cache[p]: the bytes of the cache file named after p, or None
    machine,       \* machine[p]: the bytes of file p on the machine, or None
    opMu,          \* who holds the machine connection (Arbiter.opMu)
    commitMu,      \* who replaces cache files (Service.commitMu)
    fresh          \* fresh[r]: paths whose entry reader r has seen and nobody wrote since

shared == <<store, cache, machine, opMu, commitMu, fresh>>

Readers == Clients \cup Sweepers
Files == Contents \cup {None}

Here == Scenes[scene]
Ops == Here.ops                  \* the operations the callers use
SweepKinds == Here.sweeps        \* the sweeps that run: metadata, deep, startup
DiskMayFail == Here.disk         \* whether a write of the store file can fail
MaxJobs == Here.jobs             \* bound: no call starts once this many jobs were enqueued
MaxCallers == Here.callers       \* bound: calls in progress at once
UsedPaths == Here.paths          \* bound: the paths that callers and the controller write

OpNames == {"none", "upload", "reupload", "range", "delete", "discard", "rename", "retry",
            "fetch", "prune", "controller", "crash", "reconcile"}

ASSUME SyncStateAssumption ==
    /\ \A i \in DOMAIN Scenes :
           Scenes[i] \in [ops : SUBSET OpNames, sweeps : SUBSET {"metadata", "deep", "startup"},
                         disk : BOOLEAN, jobs : Nat, callers : Nat, paths : SUBSET Paths]
    /\ Clients \cap Sweepers = {}
    /\ {"free", "engine"} \cap Readers = {}

SharedTypeOK ==
    /\ scene \in DOMAIN Scenes
    /\ IsStore(store) /\ store.written = {}
    /\ cache \in [Paths -> Files]
    /\ machine \in [Paths -> Files]
    /\ opMu \in {"free", "engine"} \cup Sweepers
    /\ commitMu \in {"free"} \cup Clients
    /\ fresh \in [Readers -> SUBSET Paths]

SharedInit ==
    /\ scene \in DOMAIN Scenes
    /\ store = EmptyStore
    /\ cache = [p \in Paths |-> None]
    /\ machine = [p \in Paths |-> None]
    /\ opMu = "free"
    /\ commitMu = "free"
    /\ fresh = [r \in Readers |-> {}]

-----------------------------------------------------------------------------
(* A batch reaches the disk, or the store stays as it was.  A batch that    *)
(* changed nothing is not written, so it cannot fail.                       *)

Batch(b) ==
    /\ store' = [b EXCEPT !.written = {}]
    /\ fresh' = [r \in Readers |-> fresh[r] \ b.written]

BatchFails(b) ==
    /\ DiskMayFail
    /\ b # store
    /\ UNCHANGED <<store, fresh>>

\* Reader r looks at the entries of ps, and remembers which UpdatedAt they had.
Look(r, ps) == fresh' = [fresh EXCEPT ![r] = ps]

\* The file that an upload of content v leaves in the catalog.
CachedEntry(p, v, sync) ==
    [sync |-> sync, md5 |-> v, size |-> SizeOf[v], cachePath |-> p, cacheState |-> "ready"]
=============================================================================
