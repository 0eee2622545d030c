-------------------------- MODULE MachineFirmware --------------------------
(***************************************************************************)
(* The machine behind the connection: the simulator of the repository as a  *)
(* state and one operator per command, each from the machine before to the   *)
(* machine after.                                                            *)
(*                                                                          *)
(* Two axes stand for all: "x" for travel over the work, "z" for the height. *)
(* m is the machine position and w the work position.  A move under way is   *)
(* seen at its start until it ends.  Tool lengths are left out: a tool is    *)
(* an identifier, and calibrated or not.                                     *)
(***************************************************************************)
EXTENDS Integers, Sequences

CONSTANTS
    NoTool,      \* nothing is clamped in the spindle, or no tool is awaited
    Laser,       \* tool 8888
    Probe3DTool, \* tool 9999
    Surface,     \* height at which a probing move touches the work
    Job          \* travel of the program that is played, as targets on x

ASSUME FirmwareAssumption ==
    {NoTool, Laser, Probe3DTool, Surface} \subseteq Int /\ Job \in Seq(Int)

Probe == 0    \* tool 0
Axes == {"x", "z"}
ByProgram == <<"program", 0>>
Points == [Axes -> Int]
States == {"Idle", "Run", "Hold", "Pause", "Alarm", "Tool"}

\* The moves of the queue, each asked for by one of bys, and the machine.
MovesBy(bys) == [m : Points, w : Points, by : bys, kind : {"move", "probe"}]
Machines(bys) ==
    [state : States, held : BOOLEAN, resumeTo : States, suspended : BOOLEAN, program : BOOLEAN,
     motion : Seq(MovesBy(bys)), m : Points, w : Points, tool : Int, target : Int, inserted : Int,
     calibrated : BOOLEAN, laser : BOOLEAN, rpm : Int, override : Int, vacuum : Int, halt : Nat]

\* What a machine that has just been homed holds.
Machine ==
    [state |-> "Idle", held |-> FALSE, resumeTo |-> "Idle", suspended |-> FALSE,
     program |-> FALSE, motion |-> <<>>, m |-> [a \in Axes |-> 0], w |-> [a \in Axes |-> 0],
     tool |-> Probe, target |-> NoTool, inserted |-> Probe, calibrated |-> TRUE,
     laser |-> FALSE, rpm |-> 0, override |-> 100, vacuum |-> 0, halt |-> 0]

-----------------------------------------------------------------------------
(* Time: the queue of moves, the program, and the status that is reported.  *)

\* Where the machine is once the queue has been worked off.
End(f) ==
    IF f.motion = <<>> THEN [m |-> f.m, w |-> f.w]
    ELSE LET last == f.motion[Len(f.motion)] IN [m |-> last.m, w |-> last.w]

\* A machine with moves left runs, whatever it was in before.
advanceMotion(f) == [f EXCEPT !.state = IF f.motion # <<>> THEN "Run" ELSE @]

\* The first move of the queue ends.
MoveEnds(f) ==
    LET seg == Head(f.motion)
        rest == Tail(f.motion)
    IN  [f EXCEPT !.motion = rest, !.m = seg.m, !.w = seg.w,
                  !.state = CASE rest # <<>> -> "Run"
                              [] rest = <<>> /\ @ = "Run" /\ ~f.program -> "Idle"
                              [] OTHER -> @]

\* The program has no line left.
advanceProgram(f) ==
    [f EXCEPT !.program = FALSE,
              !.state = IF f.motion = <<>> /\ @ = "Run" THEN "Idle" ELSE @]

\* The machine as its own status report leaves it.
statusAt(f) ==
    CASE f.held -> [f EXCEPT !.state = "Hold"]
      [] ~f.held /\ f.suspended -> [f EXCEPT !.state = "Pause"]
      [] ~f.held /\ ~f.suspended /\ f.program -> [f EXCEPT !.state = "Run"]
      [] OTHER -> advanceMotion(f)

\* What a status tells of the machine.
Status(f) ==
    [state |-> statusAt(f).state, x |-> f.m["x"], z |-> f.m["z"], wx |-> f.w["x"], wz |-> f.w["z"],
     tool |-> f.tool, rpm |-> f.rpm, override |-> f.override, vacuum |-> f.vacuum, halt |-> f.halt]

\* A move to somewhere else joins the queue; by is who asked for it.
appendMotion(f, to, by, kind) ==
    IF to = End(f) /\ kind # "probe" THEN advanceMotion(f)
    ELSE [advanceMotion(f) EXCEPT
              !.motion = Append(@, [m |-> to.m, w |-> to.w, by |-> by, kind |-> kind]),
              !.state = "Run"]

\* G53 names a machine position, a plain G90 a work position.
applyAbsoluteMove(f, axis, value, machineCoords, by) ==
    LET from == End(f)
        d == value - (IF machineCoords THEN from.m ELSE from.w)[axis]
    IN  appendMotion(f, [m |-> [from.m EXCEPT ![axis] = @ + d],
                         w |-> [from.w EXCEPT ![axis] = @ + d]], by, "move")

\* G38.2: down until the work is touched, or the whole depth.  The firmware
\* does it after the moves before it, and answers when it is there.
ProbeTarget(f, depth) == End(f).m["z"] - depth
applyProbeMove(f, depth, by) ==
    LET from == End(f)
        at == IF ProbeTarget(f, depth) <= Surface /\ Surface <= from.m["z"] THEN Surface
              ELSE ProbeTarget(f, depth)
        d == at - from.m["z"]
    IN  appendMotion(f, [m |-> [from.m EXCEPT !["z"] = at],
                         w |-> [from.w EXCEPT !["z"] = @ + d]], by, "probe")

\* G10 L20 P0 Z0 counts from the end of the queue.
applyWorkPosition(f) ==
    IF f.motion = <<>> THEN [f EXCEPT !.w["z"] = 0]
    ELSE [f EXCEPT !.motion[Len(f.motion)].w["z"] = 0]

\* G10 L2 P0 X: counts from where the machine is.
applyWorkOffset(f, offset) == [f EXCEPT !.w["x"] = f.m["x"] - offset]

-----------------------------------------------------------------------------
(* Realtime controls, which need no turn.                                   *)

FeedHold(f) ==
    IF f.held THEN f
    ELSE [f EXCEPT !.held = TRUE, !.state = "Hold",
                   !.resumeTo = IF f.program THEN "Run" ELSE advanceMotion(f).state]

Resume(f) ==
    IF ~f.held THEN f
    ELSE [f EXCEPT !.held = FALSE, !.resumeTo = "Idle",
                   !.state = CASE f.motion # <<>> \/ f.program -> "Run"
                               [] f.motion = <<>> /\ ~f.program /\ f.resumeTo = "Hold" -> "Idle"
                               [] OTHER -> f.resumeTo]

Stopped(f) ==
    [f EXCEPT !.motion = <<>>, !.program = FALSE, !.suspended = FALSE]

\* A halt by control, or by the machine itself for another reason.
Halt(f, code) ==
    [Stopped(f) EXCEPT !.held = FALSE, !.resumeTo = "Idle", !.state = "Alarm", !.halt = code]

clearAlarm(f) ==
    [Stopped(f) EXCEPT !.held = FALSE, !.resumeTo = "Idle", !.state = "Idle", !.halt = 0]

home(f) ==
    [Stopped(f) EXCEPT !.m = [a \in Axes |-> 0], !.w = [a \in Axes |-> 0], !.state = "Idle"]

\* A program is laid out in the queue when it starts.
fileOpsIdle(f) == statusAt(f).state = "Idle"
startProgram(f) ==
    [Stopped(f) EXCEPT
        !.program = TRUE, !.state = "Run",
        !.motion = [i \in DOMAIN Job |->
                       [m |-> [f.m EXCEPT !["x"] = Job[i]], by |-> ByProgram, kind |-> "move",
                        w |-> [f.w EXCEPT !["x"] = Job[i] - f.m["x"] + f.w["x"]]]]]

-----------------------------------------------------------------------------
(* Tools                                                                    *)

toolChangeTargetSatisfied(f, tool) ==
    IF tool \in {Laser, Probe3DTool} THEN f.inserted = NoTool
    ELSE f.inserted = tool /\ f.calibrated

beginToolChange(f, tool) ==
    CASE tool = NoTool -> [f EXCEPT !.inserted = NoTool, !.tool = NoTool, !.target = NoTool, !.state = "Idle"]
      [] tool # NoTool /\ f.tool = tool /\ toolChangeTargetSatisfied(f, tool) -> f
      [] OTHER -> [f EXCEPT !.target = tool, !.state = "Tool"]

calibrateActiveTool(f) == [f EXCEPT !.calibrated = f.inserted # NoTool, !.target = NoTool]

continueToolChange(f) ==
    CASE f.target = NoTool -> [f EXCEPT !.state = "Idle"]
      [] f.target \in {Laser, Probe3DTool} ->
            [f EXCEPT !.inserted = NoTool, !.laser = f.target = Probe3DTool, !.tool = f.target,
                      !.target = NoTool, !.state = "Idle"]
      [] OTHER ->
            calibrateActiveTool([f EXCEPT !.inserted = IF @ = NoTool THEN f.target ELSE @,
                                          !.tool = f.target, !.state = "Idle"])

setActiveTool(f, tool) ==
    [f EXCEPT !.tool = tool, !.target = NoTool,
              !.laser = CASE tool = Probe3DTool -> TRUE [] tool = Laser -> @ [] OTHER -> FALSE]

-----------------------------------------------------------------------------
(* Outputs                                                                  *)

\* The firmware clamps what it is given.
applyFeedOverride(f, percent) ==
    [f EXCEPT !.override = CASE percent < 10 -> 10 [] percent > 1000 -> 1000 [] OTHER -> percent]

\* A machine whose status has no such field keeps nothing.
applyAutoVacuum(f, mode, reported) == IF reported THEN [f EXCEPT !.vacuum = mode] ELSE f

stopSpindle(f) == [f EXCEPT !.rpm = 0]
startSpindle(f, rpm) == [f EXCEPT !.rpm = rpm]
=============================================================================
