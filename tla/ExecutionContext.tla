------------------------- MODULE ExecutionContext ---------------------------
(***************************************************************************)
(* The execution context (internal/service/service.go): which job is        *)
(* running, at which line, and how the spindle was last told to turn, kept  *)
(* in memory, checkpointed to the store, and read back after a restart.     *)
(* "Start spindle" in a paused job repeats the direction and speed it       *)
(* remembers.                                                               *)
(*                                                                          *)
(* Three goroutines update it: the status observer, the log observer (for   *)
(* lines the controller sent) and API requests.  An update is made under    *)
(* executionMu; a checkpoint is written under executionPersistMu, after     *)
(* executionMu is released.  worker[t].pc is where goroutine t is:          *)
(*    idle                                                                  *)
(*    record     a spindle command was sent and is to be recorded           *)
(*    lock       the update asks for a checkpoint                           *)
(*    write      holding executionPersistMu, with a snapshot to write       *)
(*    stamp      written, executionPersistedAt is next                      *)
(*    recover    a status was applied; the program may be scanned next      *)
(*    recovered  the scan is done and its result is to be applied           *)
(***************************************************************************)
EXTENDS ActiveGcode

CONSTANTS
    Interval,      \* executionCheckpointInterval, in ticks
    MaxClock       \* bound on time, in the scenes in which it passes

VARIABLES
    execution,     \* the context in memory
    saved,         \* the checkpoint in the store
    persistedAt,   \* executionPersistedAt, 0 for the zero time
    persistMu,     \* who holds executionPersistMu
    worker,
    recovery,      \* path and time of the last scan
    clock,
    revision       \* auxiliary: the number of updates so far

contextVars == <<execution, saved, persistedAt, persistMu, worker, recovery, clock, revision>>
vars == <<activeVars, contextVars>>

Workers == {"status", "log", "api"}

ASSUME ContextAssumption ==
    Interval \in Nat \ {0} /\ MaxClock \in Nat \ {0} /\ None \notin Workers

NoContext == [path |-> None, line |-> 0, dir |-> 0, s |-> 0, stopped |-> FALSE,
              source |-> "none", rev |-> 0]
Contexts == [path : Paths, line : Nat, dir : Directions, s : {0} \cup Speeds,
             stopped : BOOLEAN, source : {"none", "status", "log", "api", "active_gcode"},
             rev : Nat]

NoWords == [m |-> 0, s |-> Silent]
Commands == {[m |-> m, s |-> s] : m \in {0, 3, 4, 5}, s \in {Silent, 0} \cup Speeds} \ {NoWords}
IdleWorker == [pc |-> "idle", at |-> 0, force |-> FALSE, snap |-> NoContext, words |-> NoWords,
               then |-> "idle", line |-> 0, path |-> None, seen |-> NoWords]

\* seen is auxiliary: what the spindle's modal state was when the report was made.
Report == [state |-> fw.state, line |-> fw.line, rpm |-> fw.rpm, at |-> clock,
           seen |-> IF scene.words = {} THEN [m |-> fw.dir, s |-> fw.s] ELSE NoWords,
           file |-> IF scene.words = {} THEN fw.file ELSE None]

Reports == [state : States, line : Nat, rpm : {0} \cup Speeds, at : 0 .. MaxClock,
            seen : Words, file : Paths]
PCs == {"idle", "record", "lock", "write", "stamp", "recover", "recovered"}
Records == [pc : PCs, at : 0 .. MaxClock, force : BOOLEAN, snap : Contexts,
            words : Commands \cup {NoWords}, then : {"idle", "recover"}, line : Nat,
            path : Paths, seen : Words]

TypeOK ==
    /\ ActiveTypeOK
    /\ status # None => status \in Reports
    /\ execution \in Contexts /\ saved \in Contexts
    /\ persistMu \in Workers \cup {None}
    /\ worker \in [Workers -> Records]
    /\ \A t \in Workers : "recover" \in {worker[t].pc, worker[t].then} => worker[t].path # None
    /\ recovery \in [path : Paths, at : 0 .. MaxClock]
    /\ clock \in 1 .. MaxClock /\ persistedAt \in 0 .. MaxClock
    /\ revision \in Nat

Init ==
    /\ ActiveInit
    /\ execution = NoContext /\ saved = NoContext /\ persistedAt = 0 /\ persistMu = None
    /\ worker = [t \in Workers |-> IdleWorker]
    /\ recovery = [path |-> None, at |-> 0]
    /\ clock = 1 /\ revision = 0

SpindleKnown(c) == c.s > 0 /\ c.dir \in {3, 4}

-----------------------------------------------------------------------------
(* updateExecutionContext.  new is the context the callback leaves behind.  *)

Become(t, rec) == worker' = [worker EXCEPT ![t] = rec]

Return(t) ==
    Become(t, IF worker[t].then = "idle" THEN IdleWorker
              ELSE [worker[t] EXCEPT !.pc = worker[t].then, !.then = "idle"])

Due(force, at) == force \/ persistedAt = 0 \/ at >= persistedAt + Interval

\* rec is the goroutine's record on entry, new the updated context.
Update(t, rec, new, force, at) ==
    IF new = execution
    THEN /\ Become(t, IF rec.then = "idle" THEN IdleWorker
                      ELSE [rec EXCEPT !.pc = rec.then, !.then = "idle"])
         /\ UNCHANGED <<execution, revision>>
    ELSE /\ revision' = revision + 1
         /\ execution' = [new EXCEPT !.rev = revision + 1]
         /\ Become(t, IF Due(force, at)
                      THEN [rec EXCEPT !.pc = "lock", !.at = at, !.force = force]
                      ELSE IF rec.then = "idle" THEN IdleWorker
                      ELSE [rec EXCEPT !.pc = rec.then, !.then = "idle"])

\* Mutant: the status observer does not wait for another write.
LockFree(t) ==
    /\ worker[t].pc = "lock" /\ (persistMu = None \/ t = "status")
    /\ IF Due(worker[t].force, worker[t].at)
       THEN /\ persistMu' = t
            /\ Become(t, [worker[t] EXCEPT !.pc = "write", !.snap = execution])
       ELSE persistMu' = persistMu /\ Return(t)
    /\ UNCHANGED <<activeVars, execution, saved, persistedAt, recovery, clock, revision>>

\* A fresh snapshot is taken once executionPersistMu is held.
Lock(t) ==
    /\ worker[t].pc = "lock" /\ persistMu = None
    /\ IF Due(worker[t].force, worker[t].at)
       THEN /\ persistMu' = t
            /\ Become(t, [worker[t] EXCEPT !.pc = "write", !.snap = execution])
       ELSE persistMu' = persistMu /\ Return(t)
    /\ UNCHANGED <<activeVars, execution, saved, persistedAt, recovery, clock, revision>>

Write(t) ==
    /\ worker[t].pc = "write"
    /\ saved' = worker[t].snap
    /\ Become(t, [worker[t] EXCEPT !.pc = "stamp"])
    /\ UNCHANGED <<activeVars, execution, persistedAt, persistMu, recovery, clock, revision>>

\* The store cannot be written: nothing is retried here.
WriteFails(t) ==
    /\ worker[t].pc = "write" /\ "fail" \in scene.requests
    /\ persistMu' = None
    /\ Return(t)
    /\ UNCHANGED <<activeVars, execution, saved, persistedAt, recovery, clock, revision>>

Stamp(t) ==
    /\ worker[t].pc = "stamp"
    /\ persistedAt' = IF worker[t].at > persistedAt THEN worker[t].at ELSE persistedAt
    /\ persistMu' = None
    /\ Return(t)
    /\ UNCHANGED <<activeVars, execution, saved, recovery, clock, revision>>

-----------------------------------------------------------------------------
(* Spindle commands: the machine obeys, then the command is recorded.       *)

Command(t, w) ==
    /\ worker[t].pc = "idle" /\ t \in {"log", "api"}
    /\ w \in scene.words
    /\ Spend(IF t = "api" THEN "api" ELSE "controller")
    /\ fw' = Spoken(fw, w)
    /\ Become(t, [IdleWorker EXCEPT !.pc = "record", !.words = w, !.at = clock])
    /\ UNCHANGED <<onMachine, entries, stored, selectVars, probeVars, status, execution, saved,
                   persistedAt, persistMu, recovery, clock, revision>>

\* The context after the words of one line, from the given source.
Recorded(c, w, source) ==
    LET spoke == IF w.s = Silent \/ w.s = c.s THEN c ELSE [c EXCEPT !.s = w.s, !.source = source]
    IN  CASE w.m = 5 -> [spoke EXCEPT !.stopped = TRUE, !.source = source]
          [] w.m \in {3, 4} -> [spoke EXCEPT !.dir = w.m, !.stopped = FALSE, !.source = source]
          [] OTHER -> spoke

\* Mutant: a command is checkpointed when the interval has passed.
RecordLazily(t) ==
    /\ worker[t].pc = "record"
    /\ Update(t, worker[t], Recorded(execution, worker[t].words, t), FALSE,
              IF t = "api" THEN clock ELSE worker[t].at)
    /\ UNCHANGED <<activeVars, saved, persistedAt, persistMu, recovery, clock>>

\* recordExecutionCommand: always checkpointed.  An API request takes the time
\* now, a controller line has the time at which it was logged.
Record(t) ==
    /\ worker[t].pc = "record"
    /\ Update(t, worker[t], Recorded(execution, worker[t].words, t), TRUE,
              IF t = "api" THEN clock ELSE worker[t].at)
    /\ UNCHANGED <<activeVars, saved, persistedAt, persistMu, recovery, clock>>

-----------------------------------------------------------------------------
(* Status reports.                                                          *)

ReportStatus ==
    /\ status = None
    /\ status' = Report
    /\ UNCHANGED <<scene, fw, onMachine, entries, stored, selectVars, probeVars, contextVars>>

Observed(c, st, path) ==
    LET job == IF stateMayReportActiveGcode(st.state)
               THEN [c EXCEPT !.path = IF path = None THEN @ ELSE path,
                              !.line = IF st.line > 0 THEN st.line ELSE @]
               ELSE c
    IN  IF st.rpm > 0 /\ c.dir \in {3, 4}
        THEN [job EXCEPT !.s = st.rpm, !.stopped = FALSE,
                         !.source = IF c.s = st.rpm THEN @ ELSE "status"]
        ELSE job

\* The observer goroutine: maybeLoadActiveGcodeFromMachine, then
\* observeExecutionStatus.  A newly identified job is checkpointed at once.
ObserveStatus ==
    LET path == IF stateMayReportActiveGcode(status.state) THEN stored ELSE None
        rec == [IdleWorker EXCEPT
                  !.then = IF path # None /\ status.line > 0 THEN "recover" ELSE "idle",
                  !.line = status.line, !.path = path, !.at = status.at,
                  !.seen = IF status.file = path THEN status.seen ELSE NoWords]
    IN  /\ worker["status"].pc = "idle" /\ status # None
        /\ status' = None
        /\ Probed(status)
        /\ IF scene.context
           THEN Update("status", rec, Observed(execution, status, path),
                       path # None /\ path # execution.path, status.at)
           ELSE UNCHANGED <<execution, worker, revision>>
        /\ UNCHANGED <<scene, fw, onMachine, entries, stored, selectVars, saved, persistedAt,
                       persistMu, recovery, clock>>

-----------------------------------------------------------------------------
(* maybeRecoverSpindleContextFromActiveGcode.                               *)

\* The modal spindle state after the first n lines of f.
SpindleAt(f) ==
    LET at[n \in 0 .. Lines(f)] ==
            IF n = 0 THEN [dir |-> 0, s |-> 0, rpm |-> 0]
            ELSE Spoken(at[n - 1], Program[f][n])
    IN  at

\* The scan ends at the reported line or at the end of the file.
Scanned(f, line) == SpindleAt(f)[IF line > Lines(f) THEN Lines(f) ELSE line]

\* Nothing to recover, or the same path was scanned a short while ago.
RecoverNot ==
    LET w == worker["status"]
    IN  /\ w.pc = "recover"
        /\ \/ SpindleKnown(execution)
           \/ recovery.path = w.path /\ clock < recovery.at + Interval
        /\ Become("status", IdleWorker)
        /\ UNCHANGED <<activeVars, execution, saved, persistedAt, persistMu, recovery, clock,
                       revision>>

\* The cached program is scanned up to the reported line, without a lock.
Scan ==
    LET w == worker["status"]
        at == Scanned(w.path, w.line)
    IN  /\ w.pc = "recover"
        /\ ~SpindleKnown(execution)
        /\ recovery.path # w.path \/ clock >= recovery.at + Interval
        /\ recovery' = [path |-> w.path, at |-> clock]
        /\ IF ReadCache(w.path) > 0 /\ at.s > 0 /\ at.dir # 0
           THEN Become("status", [w EXCEPT !.pc = "recovered",
                                           !.snap = [NoContext EXCEPT !.dir = at.dir, !.s = at.s,
                                                       !.stopped = at.rpm = 0]])
           ELSE Become("status", IdleWorker)
        /\ UNCHANGED <<activeVars, execution, saved, persistedAt, persistMu, clock, revision>>

Recovered(c, path, found) ==
    IF c.path # path \/ SpindleKnown(c) THEN c
    ELSE [c EXCEPT !.dir = found.dir, !.s = found.s, !.stopped = found.stopped,
                   !.source = "active_gcode"]

Recover ==
    LET w == worker["status"]
    IN  /\ w.pc = "recovered"
        /\ Update("status", w, Recovered(execution, w.path, w.snap), TRUE, w.at)
        /\ UNCHANGED <<activeVars, saved, persistedAt, persistMu, recovery, clock>>

-----------------------------------------------------------------------------
Tick ==
    /\ clock < MaxClock /\ scene.ticks
    /\ clock' = clock + 1
    /\ UNCHANGED <<activeVars, execution, saved, persistedAt, persistMu, worker, recovery, revision>>

\* The process stops at any moment; the store is what is left.
Crash ==
    /\ Spend("crash")
    /\ execution' = saved
    /\ persistedAt' = 0 /\ persistMu' = None
    /\ worker' = [t \in Workers |-> IdleWorker]
    /\ recovery' = [path |-> None, at |-> 0]
    /\ active' = NoActive /\ select' = NoSelect /\ get' = NoGet
    /\ launch' = [pc |-> "idle", path |-> None]
    /\ probe' = [inFlight |-> FALSE, loaded |-> FALSE, recent |-> FALSE,
                 unsupported |-> ~scene.probe]
    /\ task' = NoTask /\ status' = None /\ own' = None
    /\ UNCHANGED <<fw, onMachine, entries, stored, answer, saved, clock, revision>>

ContextNext ==
    \/ ReportStatus \/ ObserveStatus \/ RecoverNot \/ Scan \/ Recover \/ Tick \/ Crash
    \/ \E t \in Workers :
         \/ Lock(t) \/ Write(t) \/ WriteFails(t) \/ Stamp(t) \/ Record(t)
         \/ \E w \in Commands : Command(t, w)

Next == (ActiveNext /\ UNCHANGED contextVars) \/ ContextNext

Spec == Init /\ [][Next]_vars

\* The tracker is polled, the observer and the probe task run, the probe
\* interval passes, and a machine that keeps being asked answers in the end.
Fairness ==
    /\ WF_vars(ReportStatus) /\ WF_vars(ObserveStatus)
    /\ WF_vars(ProbeInterval /\ UNCHANGED contextVars)
    /\ WF_vars((TaskQueryFails \/ TaskVerify \/ TaskRecord \/ TaskCache \/ TaskDone)
                 /\ UNCHANGED contextVars)
    /\ SF_vars(TaskQuery /\ UNCHANGED contextVars)

LiveSpec == Spec /\ Fairness

-----------------------------------------------------------------------------
(* Properties.                                                              *)

\* A checkpoint never goes back: what a slow goroutine writes is not older than
\* what another one wrote while it waited, so that a restart never restores a
\* spindle state that a newer checkpoint had replaced.
CheckpointsMoveForward == [][saved'.rev >= saved.rev]_saved

\* A spindle command that was answered is on disk, or its write failed: when
\* nobody is between an update and its checkpoint and nothing ever failed, the
\* direction, speed and stop on disk are those in memory, except for what
\* status reports alone have added since.
CommandsAreDurable ==
    ("fail" \notin scene.requests /\ \A t \in Workers : worker[t].pc \notin {"lock", "write"})
        => /\ saved.dir = execution.dir
           /\ execution.source \in {"log", "api", "active_gcode"}
                => saved.source = execution.source /\ saved.s = execution.s

\* A scan yields to what was observed meanwhile: it never replaces a direction
\* and speed that are known ("never overwrites a newer command observed
\* directly from controller/API traffic").
RecoveryYields ==
    [][execution'.source = "active_gcode" /\ execution'.rev > revision
            => ~SpindleKnown(execution) \/ execution.source = "active_gcode"]_<<execution, revision>>

\* A recovered direction and speed are those the machine's player had at the
\* line it reported, when the selected file is the one that is playing and the
\* operator has not spoken to the spindle.
RecoveredIsPrograms ==
    LET w == worker["status"]
    IN  w.pc = "recovered" /\ w.seen # NoWords /\ scene.words = {}
            => w.snap.dir = w.seen.m /\ w.snap.s = w.seen.s

\* What the operator chose and said is what is kept: a selection is not
\* overwritten by a late parse; what "start spindle" would repeat after a pause
\* or a restart is the last command, which is on disk, and a recovered one is
\* the program's (activeGcodeFromStoredPath, updateExecutionContext,
\* maybeRecoverSpindleContextFromActiveGcode).
ChoicesAreKept == SelectionStaysLoaded /\ CommandsAreDurable /\ RecoveredIsPrograms

\* A slower writer never replaces a newer command, on disk or in memory
\* (updateExecutionContext, maybeRecoverSpindleContextFromActiveGcode).
NewerCommandWins == CheckpointsMoveForward /\ RecoveryYields

\* The spindle controls of a paused job (jobControlState).
spindleStopped == fw.rpm = 0
CanStartSpindle == fw.state = "Pause" /\ spindleStopped /\ SpindleKnown(execution)

\* Start spindle repeats the direction the machine last turned in.
OfferedDirectionIsLast == CanStartSpindle => execution.dir = fw.dir

\* An M5 that was sent keeps Stop from being offered again while a report made
\* before it is still on its way.
StopStaysSuppressed ==
    [][status # None /\ status' = None /\ execution.stopped
            => execution'.stopped \/ fw.rpm > 0]_<<status, execution>>
=============================================================================
