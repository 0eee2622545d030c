----------------------------- MODULE MCFileSync -----------------------------
(***************************************************************************)
(* Instances of FileSync for TLC.                                           *)
(***************************************************************************)
EXTENDS FileSync, TLC

CONSTANTS p1, p2, v1, v2, v3, c1, c2, s1, none

OneSize == [v \in Contents |-> 1]

\* Contents and callers are told apart by nothing but equality.
Symmetry == Permutations(Contents) \cup Permutations(Clients)

\* One caller, one path, one operation after the other
Scene(ops, sweeps, jobs) ==
    [ops |-> ops, sweeps |-> sweeps, jobs |-> jobs, disk |-> FALSE, callers |-> 1, paths |-> {p1}]
Raced(s) == [s EXCEPT !.callers = 2]

MCQueue == <<Raced(Scene({"upload", "delete"}, {}, 3))>>

\* A disk that refuses batches; sweeps beside callers and the controller;
\* restarts on what was left on disk.
OnBadDisk(s) == [s EXCEPT !.disk = TRUE]
MCMoves == [OnBadDisk(Scene({"upload", "range", "delete", "rename"}, {}, 2)) EXCEPT !.paths = {p1, p2}]
MCMovesAgain == OnBadDisk(Scene({"upload", "delete", "rename"}, {}, 3))
MCRanges == OnBadDisk(Scene({"upload", "range", "delete"}, {}, 3))
MCSweep == Raced(Scene({"upload", "fetch", "controller"}, {"metadata"}, 2))
MCDeepSweep == Raced(Scene({"upload", "fetch", "prune", "controller"}, {"deep"}, 1))
MCSweeps == Scene({"upload", "fetch", "prune", "controller"}, {"metadata", "deep"}, 2)
MCRestart == Scene({"upload", "delete", "discard", "retry", "crash", "controller"}, {"startup"}, 2)
MCRestartSweep == Scene({"upload", "delete", "crash", "controller"}, {"metadata", "startup"}, 2)
MCFiles == <<MCMoves, MCMovesAgain, MCRanges, MCSweep, MCDeepSweep, MCSweeps,
             MCRestart, MCRestartSweep>>

\* Reproductions
MCRename == <<[Scene({"upload", "rename"}, {}, 3) EXCEPT !.paths = {p1, p2}]>>
MCUpload == <<Scene({"upload"}, {}, 1)>>
MCTwoUploads == <<Scene({"upload"}, {}, 2)>>
MCUploadSweep == <<Scene({"upload"}, {"metadata"}, 1)>>
MCCrash == <<Scene({"upload", "crash"}, {"startup"}, 2)>>
MCDelete == <<Scene({"upload", "delete"}, {}, 3)>>
MCDeleteRace == <<Raced(Scene({"upload", "delete"}, {}, 2))>>
MCDiscardRace == <<Raced(Scene({"upload", "discard"}, {}, 2))>>
MCFetchRace == <<Raced(Scene({"upload", "fetch"}, {}, 2))>>
MCRetryRename == <<Scene({"upload", "rename", "retry"}, {}, 4)>>
MCRetryFetched ==
    <<OnBadDisk(Scene({"upload", "retry", "fetch", "controller", "prune"}, {"metadata"}, 2))>>
=============================================================================
