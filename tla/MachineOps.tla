---------------------------- MODULE MachineOps ----------------------------
(***************************************************************************)
(* The Service operations that talk to the machine in several exchanges:    *)
(* job control, overrides, MDI lines, probing, tracing, tools, recovery.     *)
(*                                                                          *)
(* Each operation is a sequence of instructions (one definition per method,  *)
(* below "Operations"), worked through one exchange at a time.  It holds the *)
(* arbiter's operation lock where the method runs inside WithMachine; the    *)
(* realtime controls need no lock, the machine moves on by itself, and the   *)
(* tracker is fed and ages at any time.  A diagnostic line of the machine    *)
(* stays in the connection until the next exchange reads it.                 *)
(***************************************************************************)
EXTENDS MachineFirmware, FiniteSets

CONSTANTS
    Clients,   \* who calls the Service
    None,
    Anchor,    \* where an anchor of the machine is, on x
    SafeZ,     \* the safe height: configured, and within safeZCeilingMM
    Limits,    \* the learned limits of x
    Scenes     \* a sequence: what a behaviour does, requests and environment

\* The words a line may begin with
Console == {"suspend", "resume", "M999", "$X", "$H", "reset", "report"}
ToolLines == {"M3", "M5", "M494", "M491", "M493", "M490", "M6"}
MoveLines == {"G53Z", "G53X", "G90X", "G38", "G10L20Z", "G10L2X", "M220", "M331", "M480"}

\* A call of the Service: the method, what the request names, and a number
Methods == {"pause", "resume", "feed", "vacuum", "probe", "trace", "probe3d", "set_tool",
            "change_tool", "drop_tool", "calibrate_tool", "continue"}
Kinds(op) ==
    CASE op = "paused" -> {"stop_spindle", "start_spindle", "raise_z"}
      [] op = "gcode" -> Console \cup ToolLines \cup MoveLines
      [] op = "origin" -> {"anchor", "machine"}
      [] op = "zero" -> {"auto", "floor"}
      [] op = "recover" -> {"recover", "unlock", "home", "reset"}
      [] OTHER -> {""}
AllMethods == Methods \cup {"paused", "gcode", "origin", "zero", "recover"}
Requests == {r \in [op : AllMethods, kind : UNION {Kinds(op) : op \in AllMethods}, v : Int] :
               r.kind \in Kinds(r.op)}

Statuses == [state : States, x : Int, z : Int, wx : Int, wz : Int, tool : Int, rpm : Int,
             override : Int, vacuum : Int, halt : Nat]
Operations == [req : Requests, pc : Nat, st : Statuses, z : Int, offset : Int, contact : Int,
               code : Nat, halted : BOOLEAN, after : Nat]
Results == [req : Requests, ok : BOOLEAN, contact : Int]

ASSUME OpsAssumption ==
    /\ Anchor \in Int /\ SafeZ \in Int /\ Limits \subseteq Int
    /\ None \notin Clients \cup Operations \cup Results

\* A machine that is found in Alarm has a reason for it and stands still, and
\* does not report Hold.
ASSUME ScenesAssumption ==
    /\ Scenes \in Seq([machine : Machines({ByProgram}), calls : [Clients -> Seq(Requests)],
                        alarmLock : BOOLEAN, unlockClears : BOOLEAN, vacuum : BOOLEAN,
                        anchors : BOOLEAN, panel : BOOLEAN, observed : BOOLEAN,
                        lose : Nat, control : Nat, play : Nat,
                        controls : SUBSET {"hold", "resume", "halt"},
                        codes : SUBSET (Nat \ {0})])
    /\ \A s \in DOMAIN Scenes : LET f == Scenes[s].machine IN
          /\ f.state = "Alarm" \/ f.resumeTo = "Alarm" =>
               f.halt # 0 /\ f.motion = <<>> /\ ~f.program /\ ~f.suspended
          /\ f.state = "Alarm" => ~f.held

VARIABLES
    scene,     \* which of Scenes this behaviour is
    fw,        \* the machine
    tracker,   \* Tracker: the last status, and whether it is fresh
    diag,      \* a diagnostic waits to be read from the connection
    lock,      \* Arbiter.opMu: who holds it, or None
    ops,       \* per client, the operation under way
    calls,     \* per client, how many it has begun
    done,      \* per client, how its last operation ended
    left       \* what the environment may still do: lose, control, play

vars == <<scene, fw, tracker, diag, lock, ops, calls, done, left>>

Here == Scenes[scene]
Smaller(a, b) == IF a < b THEN a ELSE b
Larger(a, b) == IF a > b THEN a ELSE b
Matches(status, want) == \A k \in DOMAIN want : status[k] \in want[k]

Recovery(code) ==
    CASE code \in 1..20 -> "unlock" [] code \in 21..40 -> "reset"
      [] code >= 41 -> "power_cycle" [] OTHER -> "inspect"

-----------------------------------------------------------------------------
(* Lines the machine takes.                                                 *)

Line(c, v) == [c |-> c, v |-> v]
ClassifyGcode(line) ==
    [reply |-> line.c \in {"report", "G38"}, idle |-> line.c # "report"]
CanRunWhilePaused(line) == line.c \in {"G53Z", "G53X", "G90X", "M3", "M5", "M220"}

\* Console words are taken in any state; the rest is refused in Alarm by a
\* machine that is locked then.
InAlarm(f) == f.state = "Alarm" \/ (f.held /\ f.resumeTo = "Alarm")
Rejected(f, line) ==
    CASE line.c = "suspend" -> statusAt(f).state # "Run"
      [] line.c = "resume" -> ~f.suspended
      [] OTHER -> line.c \notin Console /\ Here.alarmLock /\ InAlarm(f)

\* Moves and coordinate systems.  M480 is the firmware's own probing script.
applySimulatedGcode(f, line, by) ==
    CASE line.c = "G53Z" -> applyAbsoluteMove(f, "z", line.v, TRUE, by)
      [] line.c = "G53X" -> applyAbsoluteMove(f, "x", line.v, TRUE, by)
      [] line.c = "G90X" -> applyAbsoluteMove(f, "x", line.v, FALSE, by)
      [] line.c = "G38" -> applyProbeMove(f, line.v, by)
      [] line.c = "G10L20Z" -> applyWorkPosition(f)
      [] line.c = "G10L2X" -> applyWorkOffset(f, line.v)
      [] line.c = "M220" -> applyFeedOverride(f, line.v)
      [] line.c = "M331" -> applyAutoVacuum(f, line.v, Here.vacuum)
      [] line.c = "M480" -> applyAbsoluteMove(f, "x", line.v, TRUE, by)

applyToolGcode(f, line) ==
    CASE line.c = "M3" -> startSpindle(f, line.v)
      [] line.c = "M5" -> stopSpindle(f)
      [] line.c = "M494" -> [f EXCEPT !.laser = TRUE]
      [] line.c = "M491" -> calibrateActiveTool(f)
      [] line.c = "M493" -> setActiveTool(f, line.v)
      [] line.c = "M490" -> continueToolChange(f)
      [] line.c = "M6" -> beginToolChange(f, line.v)

applyConsole(f, line) ==
    CASE line.c = "suspend" -> [f EXCEPT !.suspended = TRUE, !.state = "Pause"]
      [] line.c = "resume" -> [f EXCEPT !.suspended = FALSE, !.state = "Run"]
      [] line.c = "$X" -> IF Here.unlockClears THEN clearAlarm(f) ELSE f
      [] line.c = "M999" -> clearAlarm(f)
      [] line.c = "$H" -> home(f)
      [] OTHER -> f

Taken(f, line, by) ==
    IF Rejected(f, line) THEN f
    ELSE CASE line.c \in Console -> applyConsole(f, line)
           [] line.c \in ToolLines -> applyToolGcode(f, line)
           [] OTHER -> applySimulatedGcode(f, line, by)

-----------------------------------------------------------------------------
(* Instructions                                                             *)

Lock(idle)       == [i |-> "lock", idle |-> idle]       \* WithMachine
Unlock           == [i |-> "unlock"]
Check(ok)        == [i |-> "check", ok |-> ok]          \* an error return
Track(want)      == [i |-> "track", want |-> want]      \* Tracker().Current
Gate(want)       == [i |-> "gate", want |-> want]       \* the tracker, or a query when it is stale
Learn            == [i |-> "learn"]                     \* recoveryStatus
Query(want)      == [i |-> "query", want |-> want]      \* queryRecoveryStatus
Refresh          == [i |-> "refresh"]                   \* refreshStatusBestEffort
Send(line)       == [i |-> "send", line |-> line]       \* SendGcodeLine, SendConsoleCommand
Contact          == [i |-> "contact"]                   \* the answer of G38.2
Await(want, ok)  == [i |-> "await", want |-> want, ok |-> ok, strict |-> TRUE, late |-> "error"]
Poll(want, late) == [i |-> "await", want |-> want, ok |-> States, strict |-> FALSE, late |-> late]
Anything         == [state |-> States]
In(s)            == [state |-> s]
IdleOrRun        == {"Idle", "Run"}

-----------------------------------------------------------------------------
(* Operations.  o.st is the last status the operation asked for, o.z the     *)
(* height it started from and o.contact what its probing move answered.      *)

PauseJob(o) ==
    <<Lock(FALSE), Query(In({"Run"})), Send(Line("suspend", 0)), Poll(In({"Pause"}), "error"), Unlock>>
ResumeJob(o) ==
    <<Lock(FALSE), Query(In({"Pause"})), Send(Line("resume", 0)), Poll(In({"Run"}), "error"), Unlock>>

RaiseTarget(o) == Smaller(o.st.z + o.req.v, SafeZ)
RunPausedJobCommand(o) ==
    LET way == CASE o.req.kind = "stop_spindle" ->
                        [ok |-> TRUE, line |-> Line("M5", 0), want |-> [state |-> {"Pause"}, rpm |-> {0}]]
                 [] o.req.kind = "start_spindle" ->
                        [ok |-> o.req.v > 0, line |-> Line("M3", o.req.v),
                         want |-> [state |-> {"Pause"}, rpm |-> {o.req.v}]]
                 [] o.req.kind = "raise_z" ->
                        [ok |-> RaiseTarget(o) > o.st.z, line |-> Line("G53Z", RaiseTarget(o)),
                         want |-> [state |-> {"Pause"}, z |-> {RaiseTarget(o)}]]
    IN  <<Lock(FALSE), Query(In({"Pause"})), Check(way.ok), Send(way.line), Poll(way.want, "error"), Unlock>>

SetFeedOverride(o) ==
    <<Check(o.req.v \in 50..200), Lock(FALSE), Send(Line("M220", o.req.v)),
      Query([override |-> {o.req.v}]), Unlock>>
SetAutoVacuum(o) ==
    <<Lock(FALSE), Send(Line("M331", o.req.v)), Poll([vacuum |-> {o.req.v}], "ok"), Unlock>>

SendGcode(o) ==
    LET line == Line(o.req.kind, o.req.v)
        states == IF CanRunWhilePaused(line) THEN {"Idle", "Pause"} ELSE {"Idle"}
    IN  <<Lock(FALSE), Gate(In(IF ClassifyGcode(line).idle THEN states ELSE States)), Send(line)>>
        \o (IF ClassifyGcode(line).reply /\ line.c = "G38" THEN <<Contact>> ELSE <<>>) \o <<Unlock>>

\* Relative to an anchor of the machine, once those are known.
ResolveMachineOrigin(o) ==
    [ok |-> o.req.kind = "machine" \/ Here.anchors, x |-> IF o.req.kind = "machine" THEN o.req.v ELSE Anchor + o.req.v]
SetMachineOrigin(o) ==
    <<Check(ResolveMachineOrigin(o).ok), Lock(TRUE), Send(Line("G10L2X", ResolveMachineOrigin(o).x)), Unlock>>

ProbeRetract(o) == Smaller(o.contact + 1, SafeZ)

\* Mutant: travel before the lift.
ProbeZAcrossFirst(o) ==
    <<Lock(TRUE), Unlock, Track([tool |-> {Probe}]), Lock(TRUE),
      Send(Line("G53X", o.req.v)), Send(Line("G53Z", SafeZ)), Send(Line("G38", 4)), Contact,
      Check(o.contact = Surface), Send(Line("G53Z", ProbeRetract(o))),
      Await(In({"Idle"}), States), Unlock>>

ProbeZ(o) ==
    <<Lock(TRUE), Unlock, Track([tool |-> {Probe}]), Lock(TRUE),
      Send(Line("G53Z", SafeZ)), Send(Line("G53X", o.req.v)), Send(Line("G38", 4)), Contact,
      Check(o.contact = Surface), Send(Line("G53Z", ProbeRetract(o))),
      Await(In({"Idle"}), States), Unlock>>

\* Travel is given in work coordinates, from the offset seen at the start.
TracePoint(o, p) == Send(Line("G90X", p - o.offset))
waitTraceMotion(p) == Await([state |-> {"Idle"}, x |-> {p}], IdleOrRun)

\* Mutant: the gate asks the tracker, not the machine.
TraceByTracker(o) ==
    <<Lock(TRUE), Track([tool |-> {Probe}]), Track(In({"Idle"})), Send(Line("M494", 0)),
      Send(Line("G53Z", SafeZ)), Await([state |-> {"Idle"}, z |-> {SafeZ}], IdleOrRun),
      TracePoint(o, 1), waitTraceMotion(1), TracePoint(o, o.req.v), waitTraceMotion(o.req.v), Unlock>>

TraceOutline(o) ==
    <<Lock(TRUE), Track([tool |-> {Probe}]), Query(In({"Idle"})), Send(Line("M494", 0)),
      Send(Line("G53Z", SafeZ)), Await([state |-> {"Idle"}, z |-> {SafeZ}], IdleOrRun),
      TracePoint(o, 1), waitTraceMotion(1), TracePoint(o, o.req.v), waitTraceMotion(o.req.v), Unlock>>

\* AutoZProbe and ProbeFloor.
Retract(o) == IF o.req.kind = "floor" THEN Larger(o.z, SafeZ) ELSE o.z

\* Mutant: the origin is set after the retract.
ZeroAfterRetract(o) ==
    <<Lock(TRUE), Query(In({"Idle"})), Send(Line("G53Z", o.z)), Send(Line("G38", 4)), Contact,
      Check(o.contact = Surface), Send(Line("G53Z", Retract(o))), Send(Line("G10L20Z", 0)),
      Query([wz |-> {0}]), Refresh, Unlock>>

zProbeSetWorkZero(o) ==
    <<Lock(TRUE), Query(In({"Idle"})), Send(Line("G53Z", o.z)), Send(Line("G38", 4)), Contact,
      Check(o.contact = Surface), Send(Line("G10L20Z", 0)), Query([wz |-> {0}]),
      Send(Line("G53Z", Retract(o)))>>
    \o (IF o.req.kind = "floor"
        THEN <<Await(In({"Idle"}), States), Check(o.st.z = Retract(o))>> ELSE <<>>)
    \o <<Refresh, Unlock>>

\* The first travel of the firmware's script stays within the learned limits.
probe3DInitialPosition(o) == o.st.x + o.req.v
Probe3D(o) ==
    <<Lock(TRUE), Query([state |-> {"Idle"}, tool |-> {Probe3DTool}]),
      Check(probe3DInitialPosition(o) \in Limits), Send(Line("M480", probe3DInitialPosition(o))),
      Refresh, Unlock>>

validChangeToolID(t) == t \in {Probe, Laser, Probe3DTool} \/ t \in 1..999
validCurrentToolID(t) == t = NoTool \/ validChangeToolID(t)
sendToolMachineAction(line) == <<Lock(TRUE), Send(line), Refresh, Unlock>>
sendToolContinueAction(line) == <<Lock(FALSE), Query(In({"Tool"})), Send(line), Refresh, Unlock>>

SetCurrentToolID(o) ==
    <<Check(validCurrentToolID(o.req.v))>> \o sendToolMachineAction(Line("M493", o.req.v))
ChangeTool(o) ==
    <<Check(validChangeToolID(o.req.v))>> \o sendToolMachineAction(Line("M6", o.req.v))
DropCurrentTool(o) == sendToolMachineAction(Line("M6", NoTool))
CalibrateCurrentTool(o) == sendToolMachineAction(Line("M491", 0))
ContinueToolChange(o) == sendToolContinueAction(Line("M490", 0))

\* RecoverAlarm reads the reason before it takes the lock.
RecoveryAllowed(o) ==
    LET reason == Recovery(o.st.halt)
    IN  /\ o.st.state = "Alarm" \/ (o.req.kind = "home" /\ o.st.state = "Idle")
        /\ CASE o.req.kind = "recover" -> reason \in {"unlock", "reset"}
             [] o.req.kind = "unlock" -> o.st.halt = 0 \/ reason = "unlock"
             [] o.req.kind = "home" -> o.st.state = "Alarm" /\ o.st.halt # 0 => reason = "unlock"
             [] o.req.kind = "reset" -> reason # "power_cycle"
runRecoveryCommand(word) == Send(Line(word, 0))    \* and a query follows
NotAlarm == In(States \ {"Alarm"})

\* $X; if that leaves the machine in Alarm with reason 10, M999.
recoverAlarmUnlock(o) ==
    IF o.st.state = "Alarm" \/ o.pc > 6
    THEN <<Lock(FALSE), runRecoveryCommand("$X"), Query(Anything),
           Check(o.code = 10), runRecoveryCommand("M999"), Query(NotAlarm), Unlock>>
    ELSE <<Lock(FALSE), runRecoveryCommand("$X"), Query(Anything), Unlock>>
recoverAlarmHome(o) == <<Lock(FALSE), runRecoveryCommand("$H"), Query(NotAlarm), Unlock>>
recoverAlarmReset(o) == <<Lock(FALSE), Send(Line("reset", 0)), Unlock>>
recoverAlarmGuided(o) ==
    IF Recovery(o.code) = "unlock" THEN recoverAlarmUnlock(o) ELSE recoverAlarmReset(o)
RecoverAlarm(o) ==
    <<Learn, Check(RecoveryAllowed(o))>> \o
    CASE o.req.kind = "recover" -> recoverAlarmGuided(o)
      [] o.req.kind = "unlock" -> recoverAlarmUnlock(o)
      [] o.req.kind = "home" -> recoverAlarmHome(o)
      [] o.req.kind = "reset" -> recoverAlarmReset(o)

Script(o) ==
    CASE o.req.op = "pause" -> PauseJob(o)
      [] o.req.op = "resume" -> ResumeJob(o)
      [] o.req.op = "paused" -> RunPausedJobCommand(o)
      [] o.req.op = "feed" -> SetFeedOverride(o)
      [] o.req.op = "vacuum" -> SetAutoVacuum(o)
      [] o.req.op = "gcode" -> SendGcode(o)
      [] o.req.op = "origin" -> SetMachineOrigin(o)
      [] o.req.op = "probe" -> ProbeZ(o)
      [] o.req.op = "trace" -> TraceOutline(o)
      [] o.req.op = "zero" -> zProbeSetWorkZero(o)
      [] o.req.op = "probe3d" -> Probe3D(o)
      [] o.req.op = "set_tool" -> SetCurrentToolID(o)
      [] o.req.op = "change_tool" -> ChangeTool(o)
      [] o.req.op = "drop_tool" -> DropCurrentTool(o)
      [] o.req.op = "calibrate_tool" -> CalibrateCurrentTool(o)
      [] o.req.op = "continue" -> ContinueToolChange(o)
      [] o.req.op = "recover" -> RecoverAlarm(o)

-----------------------------------------------------------------------------
(* Steps of an operation                                                    *)

Begin(c) ==
    /\ ops[c] = None /\ calls[c] < Len(Here.calls[c])
    /\ calls' = [calls EXCEPT ![c] = @ + 1]
    /\ ops' = [ops EXCEPT ![c] =
            [req |-> Here.calls[c][calls[c] + 1], pc |-> 1, st |-> tracker.status, z |-> 0,
             offset |-> 0, contact |-> 0, code |-> 0, halted |-> FALSE, after |-> 0]]
    /\ UNCHANGED <<scene, fw, tracker, diag, lock, done, left>>

\* The instruction client c is at.
At(c) == Script(ops[c])[ops[c].pc]
Free(c) == IF lock = c THEN None ELSE lock

Go(c, o) == ops' = [ops EXCEPT ![c] = [o EXCEPT !.pc = @ + 1]] /\ UNCHANGED done
Fail(c) ==
    /\ ops' = [ops EXCEPT ![c] = None]
    /\ done' = [done EXCEPT ![c] = [req |-> ops[c].req, ok |-> FALSE, contact |-> 0]]
    /\ lock' = Free(c)
GoOrFail(c, ok, o) == IF ok THEN Go(c, o) /\ UNCHANGED lock ELSE Fail(c)

\* A status is asked for: the machine reports, the tracker is fed.
Reported == Status(fw)
Learned(o) == [o EXCEPT !.st = Reported]
Preflight(o) ==
    [Learned(o) EXCEPT !.z = IF o.pc = 2 THEN Reported.z ELSE @, !.offset = Reported.x - Reported.wx]
Feed == tracker' = [status |-> Reported, fresh |-> TRUE] /\ fw' = statusAt(fw)

\* A query finds the diagnostic that was waiting, is not answered in time, or
\* is answered.
QueryFails == diag /\ diag' = FALSE /\ UNCHANGED <<tracker, fw, left>>
QueryLost == ~diag /\ left.lose > 0 /\ left' = [left EXCEPT !.lose = @ - 1] /\ UNCHANGED <<tracker, fw, diag>>
QueryAnswered == ~diag /\ Feed /\ UNCHANGED <<diag, left>>

\* WithMachine: the lock, then an Idle machine where that is asked for.
Acquire(c, ins) ==
    /\ ins.i = "lock" /\ lock = None
    /\ IF ~ins.idle \/ tracker.fresh
       THEN /\ IF ins.idle => tracker.status.state = "Idle"
               THEN Go(c, ops[c]) /\ lock' = c
               ELSE Fail(c)
            /\ UNCHANGED <<tracker, fw, diag, left>>
       ELSE \/ QueryFails /\ Fail(c)
            \/ QueryLost /\ Fail(c)
            \/ /\ QueryAnswered
               /\ IF Reported.state = "Idle" THEN Go(c, ops[c]) /\ lock' = c ELSE Fail(c)
    /\ UNCHANGED <<scene, calls>>

\* WithMachine returns; after the last of them the operation has succeeded.
Release(c, ins) ==
    /\ ins.i = "unlock"
    /\ lock' = None
    /\ IF ops[c].pc < Len(Script(ops[c])) THEN Go(c, [ops[c] EXCEPT !.halted = FALSE])
       ELSE /\ ops' = [ops EXCEPT ![c] = None]
            /\ done' = [done EXCEPT ![c] = [req |-> ops[c].req, ok |-> TRUE, contact |-> ops[c].contact]]
    /\ UNCHANGED <<scene, fw, tracker, diag, calls, left>>

Decide(c, ins) ==
    /\ \/ ins.i = "check" /\ GoOrFail(c, ins.ok, ops[c])
       \/ ins.i = "track" /\ GoOrFail(c, Matches(tracker.status, ins.want), ops[c])
       \/ ins.i = "gate" /\ tracker.fresh /\ GoOrFail(c, Matches(tracker.status, ins.want), ops[c])
    /\ UNCHANGED <<scene, fw, tracker, diag, calls, left>>

Ask(c, ins) ==
    /\ ins.i = "query" \/ (ins.i = "gate" /\ ~tracker.fresh)
    /\ \/ QueryFails /\ Fail(c)
       \/ QueryLost /\ Fail(c)
       \/ QueryAnswered /\ GoOrFail(c, Matches(Reported, ins.want), Preflight(ops[c]))
    /\ UNCHANGED <<scene, calls>>

BestEffort(c, ins) ==
    /\ ins.i = "refresh"
    /\ QueryFails \/ QueryLost \/ QueryAnswered
    /\ Go(c, ops[c]) /\ UNCHANGED <<scene, lock, calls>>

\* recoveryStatus: from the tracker, or a transaction of its own.
LearnReason(c, ins) ==
    /\ ins.i = "learn"
    /\ \/ /\ tracker.fresh
          /\ Go(c, [ops[c] EXCEPT !.st = tracker.status, !.code = tracker.status.halt])
          /\ UNCHANGED <<tracker, fw, diag, left, lock>>
       \/ /\ ~tracker.fresh /\ lock = None
          /\ \/ (QueryFails \/ QueryLost) /\ Fail(c)
             \/ /\ QueryAnswered /\ UNCHANGED lock
                /\ Go(c, [ops[c] EXCEPT !.st = Reported, !.code = Reported.halt])
    /\ UNCHANGED <<scene, calls>>

\* A line is written, then what the machine says is read: a diagnostic that
\* was waiting, or the refusal of this line, ends the operation.
Refused(f, line) == diag \/ Rejected(f, line)

Exchange(c, ins) ==
    /\ ins.i = "send"
    /\ fw' = Taken(fw, ins.line, <<c, calls[c]>>)
    /\ diag' = FALSE
    /\ GoOrFail(c, ~Refused(fw, ins.line),
                [ops[c] EXCEPT !.after = IF @ < 2 /\ ops[c].halted THEN @ + 1 ELSE @])
    /\ UNCHANGED <<scene, tracker, calls, left>>

\* The answer of a probing move comes when the move has ended; a halt answers
\* for it, and nothing may come for two minutes.
Probing(c) == \E i \in DOMAIN fw.motion : fw.motion[i].by = <<c, calls[c]>> /\ fw.motion[i].kind = "probe"
TakeContact(c, ins) ==
    /\ ins.i = "contact"
    /\ \/ diag /\ diag' = FALSE /\ Fail(c)
       \/ ~diag /\ ~Probing(c) /\ Go(c, [ops[c] EXCEPT !.contact = fw.m["z"]]) /\ UNCHANGED <<diag, lock>>
       \/ ~diag /\ Probing(c) /\ Fail(c) /\ UNCHANGED diag
    /\ UNCHANGED <<scene, fw, tracker, calls, left>>

\* waitForMachineState and its like: ask until the answer is the wanted one.
\* The strict ones give up on an error that is no timeout, and waitTraceMotion
\* on a state that is neither Idle nor Run.
Wait(c) ==
    /\ ops[c] # None /\ At(c).i = "await"
    /\ LET ins == At(c) IN
       \/ QueryFails /\ IF ins.strict THEN Fail(c) ELSE UNCHANGED <<ops, done, lock>>
       \/ QueryLost /\ UNCHANGED <<ops, done, lock>>
       \/ /\ QueryAnswered
          /\ CASE Matches(Reported, ins.want) -> Go(c, Learned(ops[c])) /\ UNCHANGED lock
               [] ~Matches(Reported, ins.want) /\ Reported.state \notin ins.ok -> Fail(c)
               [] OTHER -> UNCHANGED <<ops, done, lock>>
    /\ UNCHANGED <<scene, calls>>

\* Mutant: a wait that must succeed has no deadline.
WaitEndsWell(c, ins) ==
    /\ ins.i = "await" /\ ins.late = "ok"
    /\ Go(c, ops[c])
    /\ UNCHANGED <<scene, lock, fw, tracker, diag, calls, left>>

\* The deadline passes without the wanted status.
WaitEnds(c, ins) ==
    /\ ins.i = "await"
    /\ GoOrFail(c, ins.late = "ok", ops[c])
    /\ UNCHANGED <<scene, fw, tracker, diag, calls, left>>

Step(c) ==
    /\ ops[c] # None
    /\ LET ins == At(c)
       IN  \/ Acquire(c, ins) \/ Release(c, ins) \/ Decide(c, ins) \/ Ask(c, ins) \/ BestEffort(c, ins)
           \/ LearnReason(c, ins) \/ Exchange(c, ins) \/ TakeContact(c, ins) \/ WaitEnds(c, ins)

-----------------------------------------------------------------------------
(* Everything else that happens                                             *)

\* A keep-alive poll, or a status the relay sees pass.  The poll, which needs
\* the lock, reads a waiting diagnostic.
Observe ==
    /\ Here.observed
    /\ Feed
    /\ diag' = IF lock = None THEN FALSE ELSE diag
    /\ UNCHANGED <<scene, lock, ops, calls, done, left>>

Ages ==
    /\ Here.observed
    /\ tracker' = [tracker EXCEPT !.fresh = FALSE]
    /\ UNCHANGED <<scene, fw, diag, lock, ops, calls, done, left>>

\* Service.SendControl, at any time.
SendControl(ctl) ==
    /\ left.control > 0 /\ ctl \in Here.controls
    /\ left' = [left EXCEPT !.control = @ - 1]
    /\ fw' = CASE ctl = "hold" -> FeedHold(fw) [] ctl = "resume" -> Resume(fw) [] ctl = "halt" -> Halt(fw, 1)
    /\ diag' = (diag \/ ctl = "halt")
    /\ ops' = [c \in Clients |->
                 IF ctl = "halt" /\ lock = c THEN [ops[c] EXCEPT !.halted = TRUE] ELSE ops[c]]
    /\ UNCHANGED <<scene, tracker, lock, calls, done>>

\* The machine stops by itself.
Fault(code) ==
    /\ left.control > 0 /\ code \in Here.codes
    /\ left' = [left EXCEPT !.control = @ - 1]
    /\ fw' = Halt(fw, code)
    /\ UNCHANGED <<scene, tracker, diag, lock, ops, calls, done>>

\* The controller starts the program.  Its frames wait while an operation has
\* its turn, the buttons of the machine do not.
Plays ==
    /\ left.play > 0 /\ (lock = None \/ Here.panel) /\ fileOpsIdle(fw)
    /\ left' = [left EXCEPT !.play = @ - 1]
    /\ fw' = startProgram(fw)
    /\ UNCHANGED <<scene, tracker, diag, lock, ops, calls, done>>

Moves ==
    /\ fw.motion # <<>> /\ ~fw.held
    /\ fw' = MoveEnds(fw)
    /\ UNCHANGED <<scene, tracker, diag, lock, ops, calls, done, left>>

ProgramEnds ==
    /\ fw.program /\ fw.motion = <<>> /\ ~fw.held /\ ~fw.suspended
    /\ fw' = advanceProgram(fw)
    /\ UNCHANGED <<scene, tracker, diag, lock, ops, calls, done, left>>

Init ==
    /\ scene \in DOMAIN Scenes
    /\ fw = Here.machine
    /\ tracker = [status |-> Status(fw), fresh |-> TRUE]
    /\ diag = FALSE /\ lock = None
    /\ ops = [c \in Clients |-> None] /\ done = [c \in Clients |-> None]
    /\ calls = [c \in Clients |-> 0]
    /\ left = [lose |-> Here.lose, control |-> Here.control, play |-> Here.play]

Next ==
    \/ \E c \in Clients : Begin(c) \/ Step(c) \/ Wait(c)
    \/ Observe \/ Ages \/ Plays \/ Moves \/ ProgramEnds
    \/ \E ctl \in {"hold", "resume", "halt"} : SendControl(ctl)
    \/ \E code \in Here.codes : Fault(code)

Spec == Init /\ [][Next]_vars

\* An operation goes on as long as it can; a wait may ask again and again, but
\* its deadline passes.
LiveSpec == Spec /\ \A c \in Clients : WF_vars(Step(c))

-----------------------------------------------------------------------------
(* Properties                                                               *)

TypeOK ==
    /\ scene \in DOMAIN Scenes
    /\ fw \in Machines({ByProgram} \cup (Clients \X Nat))
    /\ (fw.state = "Alarm" => fw.halt # 0 /\ fw.motion = <<>> /\ ~fw.program)
    /\ tracker \in [status : Statuses, fresh : BOOLEAN] /\ diag \in BOOLEAN
    /\ lock \in Clients \cup {None} /\ (lock # None => ops[lock] # None)
    /\ ops \in [Clients -> Operations \cup {None}]
    /\ \A c \in Clients : ops[c] # None => ops[c].pc \in DOMAIN Script(ops[c])
    /\ calls \in [Clients -> Nat]
    /\ done \in [Clients -> Results \cup {None}]
    /\ left \in [lose : Nat, control : Nat, play : Nat]

\* The operation a move of the queue belongs to.
Owner(seg) == IF seg.by = ByProgram THEN "program" ELSE Here.calls[seg.by[1]][seg.by[2]].op

\* An emergency halt ends the operation whose turn it comes in: the "ALARM" line
\* is read by the next exchange, whatever that is, so at most the line that was
\* about to be written is still written (SendConsoleCommand,
\* drainAvailableFrames).  ProbeZ takes two turns, and the second begins anew.
HaltStopsOperation == \A c \in Clients : ops[c] # None => ops[c].after <= 1

\* ProbeZ and TraceOutline travel over the work at the safe height only,
\* wherever an earlier operation, a probing move that failed or a halt left
\* the spindle.
TravelAtSafeZ ==
    fw.motion # <<>> =>
        LET seg == Head(fw.motion)
        IN  Owner(seg) \in {"probe", "trace"} /\ seg.m["x"] # fw.m["x"] => fw.m["z"] = SafeZ

\* ProbeZ, ProbeFloor and TraceOutline return success with their motion done:
\* "the next field point must not be injected into the machine's queued
\* motion".
OwnMotionDone ==
    \A c \in Clients :
        done[c] # None /\ done[c].ok /\ ops[c] = None
            /\ (done[c].req.op \in {"probe", "trace"} \/ done[c].req.kind = "floor") =>
        \A i \in DOMAIN fw.motion : fw.motion[i].by # <<c, calls[c]>>

\* The operations that ask the machine themselves, and not the tracker, never
\* put a move behind those of a program, however stale the tracker is.
ProgramIsSpared ==
    [][\A i \in DOMAIN fw'.motion \ DOMAIN fw.motion :
           Owner(fw'.motion[i]) \in {"trace", "zero", "probe3d"} => ~fw.program]_vars

\* When AutoZProbe or ProbeFloor says that work Z zero is at the contact, it
\* is: also after lost statuses, a halt, a hold or a program in between.
WorkZeroIsContact ==
    [][\A c \in Clients :
           (done'[c] # done[c] /\ done'[c].ok /\ done'[c].req.op = "zero") =>
           LET e == End(fw) IN e.m["z"] - e.w["z"] = done'[c].contact /\ done'[c].contact = Surface]_vars

\* An operation gives way: to a halt, and to a program that runs.
YieldsToOthers == []HaltStopsOperation /\ ProgramIsSpared

\* A probing or tracing operation that reports success has finished its own
\* motion and left the origin where it says.
SuccessIsTrue == []OwnMotionDone /\ WorkZeroIsContact

\* Every operation comes to an end, and so gives the lock back: no exchange
\* or wait is without a deadline, whatever is lost, held or halted.
OperationsEnd == \A c \in Clients : ops[c] # None ~> ops[c] = None

-----------------------------------------------------------------------------
(* What the code does not keep; the README names the run of each.           *)

\* "An ordinary command can never disturb a running program": SendGcode and
\* ProbeZ trust a tracker that is fresh, and the program started since.
OrdinaryCommandsSpareProgram ==
    [][\A i \in DOMAIN fw'.motion \ DOMAIN fw.motion :
           Owner(fw'.motion[i]) \in {"gcode", "probe"} => ~fw.program]_vars

\* ProbeZ probes with the probe: its look at the tool and its moves are in two
\* transactions, and another operation may come between them.
ProbesWithProbe ==
    [][\A i \in DOMAIN fw'.motion \ DOMAIN fw.motion :
           Owner(fw'.motion[i]) = "probe" => fw.tool = Probe]_vars

\* RecoverAlarm never clears an alarm whose reason asks for a power cycle: the
\* reason is read from the tracker, before the lock.
ClearsWithReason ==
    [][fw.state = "Alarm" /\ fw'.state # "Alarm" /\ lock # None => Recovery(fw.halt) # "power_cycle"]_vars
=============================================================================
