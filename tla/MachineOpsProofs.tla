-------------------------- MODULE MachineOpsProofs --------------------------
(***************************************************************************)
(* Proofs about the Service operations on the machine: their type, that     *)
(* they give way to a halt and to a program, that they travel at the safe    *)
(* height, and that what they report as done is done.                        *)
(*                                                                          *)
(* First what each command does to the machine, then the instructions of     *)
(* every method, position by position.  On these rests the invariant that    *)
(* the others share (BaseInv): the types, who holds the lock, and that a     *)
(* machine in Alarm stands still.  From it follow three lemmas that replace   *)
(* the actions in all that comes after: a client's step advances, repeats    *)
(* or ends its own operation (Outcome) and leaves those of the others alone  *)
(* (OthersKept, OthersQuiet); everything else lets the machine drift         *)
(* (WorldIs).                                                               *)
(***************************************************************************)
EXTENDS MachineOps, SequenceTheorems, TLAPS

-----------------------------------------------------------------------------
(* The machine keeps its type.                                              *)

USE FirmwareAssumption DEF Axes

LEMMA EndTyped ==
    ASSUME NEW bys, NEW f \in Machines(bys)
    PROVE  End(f).m \in Points /\ End(f).w \in Points
<1>1. CASE f.motion = <<>>
  BY <1>1 DEF End, Machines
<1>2. CASE f.motion # <<>>
  <2>1. f.motion \in Seq(MovesBy(bys)) /\ Len(f.motion) \in 1..Len(f.motion)
    BY <1>2 DEF Machines
  <2>2. f.motion[Len(f.motion)] \in MovesBy(bys)
    BY <2>1
  <2> QED BY <2>2, <1>2 DEF End, MovesBy
<1> QED BY <1>1, <1>2

LEMMA TimeTyped ==
    ASSUME NEW bys, NEW f \in Machines(bys)
    PROVE  /\ advanceMotion(f) \in Machines(bys)
           /\ advanceProgram(f) \in Machines(bys)
           /\ statusAt(f) \in Machines(bys)
           /\ f.motion # <<>> => MoveEnds(f) \in Machines(bys)
<1>1. advanceMotion(f) \in Machines(bys)
  BY DEF advanceMotion, Machines, States
<1>2. advanceProgram(f) \in Machines(bys)
  BY DEF advanceProgram, Machines, States
<1>3. statusAt(f) \in Machines(bys)
  BY <1>1 DEF statusAt, Machines, States
<1>4. ASSUME f.motion # <<>> PROVE MoveEnds(f) \in Machines(bys)
  <2>1. Head(f.motion) \in MovesBy(bys) /\ Tail(f.motion) \in Seq(MovesBy(bys))
    BY <1>4, HeadTailProperties DEF Machines
  <2> DEFINE s == Head(f.motion)
             r == Tail(f.motion)
  <2>2. s.m \in Points /\ s.w \in Points
    BY <2>1 DEF MovesBy
  <2> HIDE DEF s, r
  <2> QED BY <2>1, <2>2 DEF MoveEnds, Machines, States, s, r
<1> QED BY <1>1, <1>2, <1>3, <1>4

LEMMA StatusTyped ==
    ASSUME NEW bys, NEW f \in Machines(bys)
    PROVE  Status(f) \in Statuses
<1>1. statusAt(f).state \in States
  BY TimeTyped DEF Machines
<1> QED BY <1>1 DEF Status, Statuses, Machines, Points

LEMMA AppendTyped ==
    ASSUME NEW bys, NEW f \in Machines(bys), NEW by \in bys, NEW kind \in {"move", "probe"},
           NEW to, to.m \in Points, to.w \in Points
    PROVE  appendMotion(f, to, by, kind) \in Machines(bys)
<1>1. advanceMotion(f) \in Machines(bys)
  BY TimeTyped
<1> DEFINE g == advanceMotion(f)
           move == [m |-> to.m, w |-> to.w, by |-> by, kind |-> kind]
<1>2. move \in MovesBy(bys)
  BY DEF MovesBy
<1>3. Append(g.motion, move) \in Seq(MovesBy(bys))
  BY <1>1, <1>2 DEF Machines
<1> HIDE DEF g, move
<1>4. [g EXCEPT !.motion = Append(@, move), !.state = "Run"] \in Machines(bys)
  BY <1>1, <1>3 DEF Machines, States, g
<1> QED BY <1>1, <1>4 DEF appendMotion, g, move

LEMMA MoveTyped ==
    ASSUME NEW bys, NEW f \in Machines(bys), NEW by \in bys, NEW v \in Int
    PROVE  /\ \A axis \in Axes : /\ applyAbsoluteMove(f, axis, v, TRUE, by) \in Machines(bys)
                                  /\ applyAbsoluteMove(f, axis, v, FALSE, by) \in Machines(bys)
           /\ applyProbeMove(f, v, by) \in Machines(bys)
<1> DEFINE from == End(f)
<1>0. from.m \in Points /\ from.w \in Points
  BY EndTyped
<1> HIDE DEF from
<1>1. ASSUME NEW axis \in Axes, NEW mc \in BOOLEAN
      PROVE  applyAbsoluteMove(f, axis, v, mc, by) \in Machines(bys)
  <2> DEFINE d == v - (IF mc THEN from.m ELSE from.w)[axis]
             to == [m |-> [from.m EXCEPT ![axis] = @ + d], w |-> [from.w EXCEPT ![axis] = @ + d]]
  <2>1. d \in Int
    BY <1>0 DEF Points
  <2> HIDE DEF d
  <2>2. to.m \in Points /\ to.w \in Points
    BY <1>0, <2>1 DEF Points
  <2> HIDE DEF to
  <2>3. appendMotion(f, to, by, "move") \in Machines(bys)
    BY <2>2, AppendTyped
  <2> QED BY <2>3 DEF applyAbsoluteMove, to, d, from
<1>2. applyProbeMove(f, v, by) \in Machines(bys)
  <2> DEFINE at == IF ProbeTarget(f, v) <= Surface /\ Surface <= from.m["z"] THEN Surface ELSE ProbeTarget(f, v)
             d == at - from.m["z"]
             to == [m |-> [from.m EXCEPT !["z"] = at], w |-> [from.w EXCEPT !["z"] = @ + d]]
  <2>1. at \in Int
    BY <1>0 DEF Points, ProbeTarget, from
  <2> HIDE DEF at
  <2>2. d \in Int
    BY <1>0, <2>1 DEF Points
  <2> HIDE DEF d
  <2>3. to.m \in Points /\ to.w \in Points
    BY <1>0, <2>1, <2>2 DEF Points
  <2> HIDE DEF to
  <2>4. appendMotion(f, to, by, "probe") \in Machines(bys)
    BY <2>3, AppendTyped
  <2>5. applyProbeMove(f, v, by) = appendMotion(f, to, by, "probe")
    BY Zenon DEF applyProbeMove, to, d, at, from
  <2> QED BY <2>4, <2>5
<1>3. \A axis \in Axes : applyAbsoluteMove(f, axis, v, TRUE, by) \in Machines(bys)
  BY <1>1
<1>4. \A axis \in Axes : applyAbsoluteMove(f, axis, v, FALSE, by) \in Machines(bys)
  BY <1>1
<1> QED BY <1>2, <1>3, <1>4

LEMMA PointWith ==
    ASSUME NEW p \in Points, NEW a \in Axes, NEW i \in Int
    PROVE  [p EXCEPT ![a] = i] \in Points
  BY DEF Points

LEMMA OriginTyped ==
    ASSUME NEW bys, NEW f \in Machines(bys), NEW v \in Int
    PROVE  /\ applyWorkPosition(f) \in Machines(bys)
           /\ applyWorkOffset(f, v) \in Machines(bys)
<1>0. \A p \in Points : [f EXCEPT !.w = p] \in Machines(bys)
  BY DEF Machines
<1>5. f.w \in Points /\ f.m \in Points
  BY DEF Machines
<1>6. f.m["x"] - v \in Int
  BY <1>5 DEF Points
<1>4. [f.w EXCEPT !["x"] = f.m["x"] - v] \in Points /\ [f.w EXCEPT !["z"] = 0] \in Points
  BY <1>5, <1>6, PointWith
<1>1. applyWorkOffset(f, v) \in Machines(bys)
  BY <1>0, <1>4 DEF applyWorkOffset
<1>2. CASE f.motion = <<>>
  BY <1>0, <1>1, <1>2, <1>4 DEF applyWorkPosition
<1>3. CASE f.motion # <<>>
  <2> DEFINE n == Len(f.motion)
             s == f.motion[n]
             moved == [f.motion EXCEPT ![n].w["z"] = 0]
  <2>1. f.motion \in Seq(MovesBy(bys)) /\ n \in 1..Len(f.motion) /\ n \in Nat
    BY <1>3 DEF Machines
  <2>2. s \in MovesBy(bys)
    BY <2>1
  <2>3. [s EXCEPT !.w["z"] = 0] \in MovesBy(bys)
    <3> HIDE DEF s
    <3> QED BY <2>2 DEF MovesBy, Points
  <2>4. moved \in Seq(MovesBy(bys))
    <3>1. moved = [f.motion EXCEPT ![n] = [s EXCEPT !.w["z"] = 0]]
      OBVIOUS
    <3> HIDE DEF s, n, moved
    <3> QED BY <2>1, <2>3, <3>1
  <2> HIDE DEF n, s, moved
  <2>5. [f EXCEPT !.motion = moved] \in Machines(bys)
    BY <2>4 DEF Machines
  <2>6. applyWorkPosition(f) = [f EXCEPT !.motion = moved]
    BY <1>3 DEF applyWorkPosition, moved, n
  <2> QED BY <1>1, <2>5, <2>6
<1> QED BY <1>1, <1>2, <1>3

LEMMA ControlTyped ==
    ASSUME NEW bys, NEW f \in Machines(bys), NEW code \in Nat
    PROVE  /\ FeedHold(f) \in Machines(bys)
           /\ Resume(f) \in Machines(bys)
           /\ Halt(f, code) \in Machines(bys)
           /\ clearAlarm(f) \in Machines(bys)
           /\ home(f) \in Machines(bys)
<1>1. <<>> \in Seq(MovesBy(bys))
  OBVIOUS
<1>2. Stopped(f) \in Machines(bys)
  BY <1>1 DEF Stopped, Machines
<1>3. advanceMotion(f).state \in States
  BY TimeTyped DEF Machines
<1>4. FeedHold(f) \in Machines(bys)
  BY <1>3 DEF FeedHold, Machines, States
<1>5. Resume(f) \in Machines(bys)
  BY DEF Resume, Machines, States
<1>6. Halt(f, code) \in Machines(bys)
  BY <1>2 DEF Halt, Machines, States
<1>7. clearAlarm(f) \in Machines(bys)
  BY <1>2 DEF clearAlarm, Machines, States
<1>8. [a \in Axes |-> 0] \in Points
  BY DEF Points
<1>9. home(f) \in Machines(bys)
  BY <1>2, <1>8 DEF home, Machines, States
<1> QED BY <1>4, <1>5, <1>6, <1>7, <1>9

LEMMA ProgramTyped ==
    ASSUME NEW bys, NEW f \in Machines(bys), ByProgram \in bys
    PROVE  startProgram(f) \in Machines(bys)
<1> DEFINE moves == [i \in DOMAIN Job |->
                       [m |-> [f.m EXCEPT !["x"] = Job[i]], by |-> ByProgram, kind |-> "move",
                        w |-> [f.w EXCEPT !["x"] = Job[i] - f.m["x"] + f.w["x"]]]]
<1>1. ASSUME NEW i \in DOMAIN Job PROVE moves[i] \in MovesBy(bys)
  <2>1. Job[i] \in Int /\ f.m \in Points /\ f.w \in Points
    BY DEF Machines
  <2>2. [f.m EXCEPT !["x"] = Job[i]] \in Points
    BY <2>1 DEF Points
  <2>3. [f.w EXCEPT !["x"] = Job[i] - f.m["x"] + f.w["x"]] \in Points
    BY <2>1 DEF Points
  <2> QED BY <2>2, <2>3 DEF MovesBy
<1>2. moves \in Seq(MovesBy(bys))
  <2>1. moves \in [1..Len(Job) -> MovesBy(bys)] /\ Len(Job) \in Nat
    BY <1>1
  <2> HIDE DEF moves
  <2> QED BY <2>1
<1> HIDE DEF moves
<1>3. Stopped(f) \in Machines(bys)
  <2>1. <<>> \in Seq(MovesBy(bys))
    OBVIOUS
  <2> QED BY <2>1 DEF Stopped, Machines
<1>4. [Stopped(f) EXCEPT !.program = TRUE, !.state = "Run", !.motion = moves] \in Machines(bys)
  BY <1>2, <1>3 DEF Machines, States
<1> QED BY <1>4 DEF startProgram, moves

LEMMA ToolTyped ==
    ASSUME NEW bys, NEW f \in Machines(bys), NEW v \in Int
    PROVE  /\ beginToolChange(f, v) \in Machines(bys)
           /\ calibrateActiveTool(f) \in Machines(bys)
           /\ continueToolChange(f) \in Machines(bys)
           /\ setActiveTool(f, v) \in Machines(bys)
           /\ applyFeedOverride(f, v) \in Machines(bys)
           /\ \A r \in BOOLEAN : applyAutoVacuum(f, v, r) \in Machines(bys)
           /\ stopSpindle(f) \in Machines(bys)
           /\ startSpindle(f, v) \in Machines(bys)
           /\ [f EXCEPT !.laser = TRUE] \in Machines(bys)
<1>1. beginToolChange(f, v) \in Machines(bys)
  BY DEF beginToolChange, Machines, States
<1>2. \A g \in Machines(bys) : calibrateActiveTool(g) \in Machines(bys)
  BY DEF calibrateActiveTool, Machines
<1>3. continueToolChange(f) \in Machines(bys)
  <2> DEFINE g == [f EXCEPT !.inserted = IF @ = NoTool THEN f.target ELSE @,
                                          !.tool = f.target, !.state = "Idle"]
  <2>1. g \in Machines(bys)
    BY DEF Machines, States
  <2> HIDE DEF g
  <2>2. calibrateActiveTool(g) \in Machines(bys)
    BY <2>1, <1>2
  <2>3. CASE f.target = NoTool
    BY <2>3 DEF continueToolChange, Machines, States
  <2>4. CASE f.target # NoTool /\ f.target \in {Laser, Probe3DTool}
    BY <2>4 DEF continueToolChange, Machines, States
  <2>5. CASE f.target # NoTool /\ f.target \notin {Laser, Probe3DTool}
    BY <2>2, <2>5 DEF continueToolChange, g
  <2> QED BY <2>3, <2>4, <2>5
<1>4. setActiveTool(f, v) \in Machines(bys)
  BY DEF setActiveTool, Machines
<1>5. applyFeedOverride(f, v) \in Machines(bys)
  <2> DEFINE w == CASE v < 10 -> 10 [] v > 1000 -> 1000 [] OTHER -> v
  <2>1. w \in Int
    OBVIOUS
  <2> HIDE DEF w
  <2>2. [f EXCEPT !.override = w] \in Machines(bys)
    BY <2>1 DEF Machines
  <2> QED BY <2>2 DEF applyFeedOverride, w
<1>6. \A r \in BOOLEAN : applyAutoVacuum(f, v, r) \in Machines(bys)
  BY DEF applyAutoVacuum, Machines
<1>7. stopSpindle(f) \in Machines(bys)
  <2> DEFINE r == 0
  <2>1. r \in Int
    OBVIOUS
  <2> HIDE DEF r
  <2>2. [f EXCEPT !.rpm = r] \in Machines(bys)
    BY <2>1 DEF Machines
  <2> QED BY <2>2 DEF stopSpindle, r
<1>9. startSpindle(f, v) \in Machines(bys)
  BY DEF startSpindle, Machines
<1>8. [f EXCEPT !.laser = TRUE] \in Machines(bys)
  BY DEF Machines
<1> QED BY <1>1, <1>2, <1>3, <1>4, <1>5, <1>6, <1>7, <1>8, <1>9

Lines == [c : Console \cup ToolLines \cup MoveLines, v : Int]

LEMMA TakenTyped ==
    ASSUME NEW bys, NEW f \in Machines(bys), NEW by \in bys, NEW line \in Lines,
           Here.alarmLock \in BOOLEAN, Here.unlockClears \in BOOLEAN, Here.vacuum \in BOOLEAN
    PROVE  Taken(f, line, by) \in Machines(bys)
<1>0. line.v \in Int /\ line.c \in Console \cup ToolLines \cup MoveLines
  BY DEF Lines
<1>1. CASE Rejected(f, line)
  BY <1>1 DEF Taken
<1>2. CASE ~Rejected(f, line) /\ line.c \in Console
  <2>1. clearAlarm(f) \in Machines(bys) /\ home(f) \in Machines(bys)
    BY ControlTyped
  <2>2. [f EXCEPT !.suspended = TRUE, !.state = "Pause"] \in Machines(bys)
    BY DEF Machines, States
  <2>3. [f EXCEPT !.suspended = FALSE, !.state = "Run"] \in Machines(bys)
    BY DEF Machines, States
  <2>4. applyConsole(f, line) \in Machines(bys)
    BY <2>1, <2>2, <2>3 DEF applyConsole
  <2>5. line.c \notin ToolLines
    BY <1>2 DEF Console, ToolLines
  <2> QED BY <1>2, <2>4, <2>5 DEF Taken
<1>3. CASE ~Rejected(f, line) /\ line.c \notin Console /\ line.c \in ToolLines
  <2>1. applyToolGcode(f, line) \in Machines(bys)
    BY <1>3, <1>0, ToolTyped DEF ToolLines, applyToolGcode
  <2> QED BY <1>3, <2>1 DEF Taken
<1>4. CASE ~Rejected(f, line) /\ line.c \notin Console /\ line.c \notin ToolLines
  BY <1>0, <1>4, ToolTyped, MoveTyped, OriginTyped DEF MoveLines, applySimulatedGcode, Taken
<1> QED BY <1>1, <1>2, <1>3, <1>4

HIDE FirmwareAssumption DEF Axes

-----------------------------------------------------------------------------
(* The methods, instruction by instruction.                                 *)

\* Before this instruction a method does not hold the lock, from the next one
\* on it does; ProbeZ takes it twice.
Entry(op) ==
    CASE op \in {"feed", "origin", "set_tool", "change_tool"} -> 2
      [] op = "recover" -> 3 [] op = "probe" -> 4 [] OTHER -> 1
InsideAt(op, pc) == pc > Entry(op) \/ (op = "probe" /\ pc = 2)
Inside(o) == InsideAt(o.req.op, o.pc)

LEMMA InstructionKinds ==
    /\ Lock(TRUE).i = "lock" /\ Lock(FALSE).i = "lock"
    /\ Unlock.i = "unlock" /\ Learn.i = "learn" /\ Refresh.i = "refresh" /\ Contact.i = "contact"
    /\ \A ok : Check(ok).i = "check" /\ Check(ok).ok = ok
    /\ \A want : Track(want).i = "track" /\ Gate(want).i = "gate" /\ Query(want).i = "query"
    /\ \A want : Track(want).want = want /\ Gate(want).want = want /\ Query(want).want = want
    /\ \A line : Send(line).i = "send" /\ Send(line).line = line
    /\ \A want, ok : /\ Await(want, ok).i = "await" /\ Await(want, ok).strict
                     /\ Await(want, ok).want = want /\ Await(want, ok).late = "error"
    /\ \A want, late : /\ Poll(want, late).i = "await" /\ ~Poll(want, late).strict
                       /\ Poll(want, late).want = want
  BY DEF Lock, Unlock, Learn, Refresh, Contact, Check, Track, Gate, Query, Send, Await, Poll

\* What the waits of a trace are for.
Lifts == [state |-> {"Idle"}, z |-> {SafeZ}]
Reaches(x) == [state |-> {"Idle"}, x |-> {x}]

\* The instructions after which only the end is left, and those of a transaction.
Yielding(ins) == ins.i = "refresh" \/ (ins.i = "await" /\ ~ins.strict)
Talks == {"send", "query", "gate", "contact", "refresh", "await", "unlock"}

\* What every method keeps to at the instruction it is at.
Shape(o) ==
    LET ins == Script(o)[o.pc]
    IN  /\ ins.i \in Talks \cup {"lock", "check", "track", "learn"}
        /\ ins.i = "lock" => ~Inside(o) /\ InsideAt(o.req.op, o.pc + 1)
        /\ ins.i = "unlock" => ~InsideAt(o.req.op, o.pc + 1) \/ o.pc = Len(Script(o))
        /\ ins.i \notin {"lock", "unlock"} => (Inside(o) <=> InsideAt(o.req.op, o.pc + 1))
        /\ ins.i \in Talks => Inside(o)
        /\ ins.i = "learn" => o.req.op = "recover" /\ o.pc = 1
        /\ ins.i = "send" => ins.line \in Lines
        /\ Yielding(ins) => o.pc + 1 = Len(Script(o)) /\ o.req.op # "recover"
        /\ o.pc = Len(Script(o)) <=> ins.i = "unlock" /\ ~(o.req.op = "probe" /\ o.pc = 2)

LEMMA LineTyped ==
    ASSUME NEW v \in Int
    PROVE  /\ Line("suspend", v) \in Lines /\ Line("resume", v) \in Lines /\ Line("M999", v) \in Lines
           /\ Line("$X", v) \in Lines /\ Line("$H", v) \in Lines /\ Line("reset", v) \in Lines
           /\ Line("report", v) \in Lines /\ Line("M3", v) \in Lines /\ Line("M5", v) \in Lines
           /\ Line("M494", v) \in Lines /\ Line("M491", v) \in Lines /\ Line("M493", v) \in Lines
           /\ Line("M490", v) \in Lines /\ Line("M6", v) \in Lines /\ Line("G53Z", v) \in Lines
           /\ Line("G53X", v) \in Lines /\ Line("G90X", v) \in Lines /\ Line("G38", v) \in Lines
           /\ Line("G10L20Z", v) \in Lines /\ Line("G10L2X", v) \in Lines /\ Line("M220", v) \in Lines
           /\ Line("M331", v) \in Lines /\ Line("M480", v) \in Lines
  BY DEF Line, Lines, Console, ToolLines, MoveLines

LEMMA OperationTyped ==
    ASSUME NEW o \in Operations
    PROVE  /\ o.req.v \in Int /\ o.req.op \in AllMethods /\ o.req.kind \in Kinds(o.req.op)
           /\ o.pc \in Nat /\ o.z \in Int /\ o.offset \in Int /\ o.contact \in Int /\ o.code \in Nat
           /\ o.st.x \in Int /\ o.st.z \in Int /\ SafeZ \in Int /\ Anchor \in Int
  BY OpsAssumption DEF Operations, Requests, Statuses

\* Elements of a written-out sequence.
LEMMA Tuple4 ==
    ASSUME NEW s, NEW a1, NEW a2, NEW a3, NEW a4,
           s = <<a1, a2, a3, a4>>
    PROVE  /\ Len(s) = 4 /\ DOMAIN s = 1..4
           /\ s[1] = a1 /\ s[2] = a2 /\ s[3] = a3 /\ s[4] = a4
  OBVIOUS

LEMMA Tuple5 ==
    ASSUME NEW s, NEW a1, NEW a2, NEW a3, NEW a4, NEW a5,
           s = <<a1, a2, a3, a4, a5>>
    PROVE  /\ Len(s) = 5 /\ DOMAIN s = 1..5
           /\ s[1] = a1 /\ s[2] = a2 /\ s[3] = a3 /\ s[4] = a4 /\ s[5] = a5
  OBVIOUS

LEMMA Tuple6 ==
    ASSUME NEW s, NEW a1, NEW a2, NEW a3, NEW a4, NEW a5, NEW a6,
           s = <<a1, a2, a3, a4, a5, a6>>
    PROVE  /\ Len(s) = 6 /\ DOMAIN s = 1..6
           /\ s[1] = a1 /\ s[2] = a2 /\ s[3] = a3 /\ s[4] = a4 /\ s[5] = a5 /\ s[6] = a6
  OBVIOUS

LEMMA Tuple9 ==
    ASSUME NEW s, NEW a1, NEW a2, NEW a3, NEW a4, NEW a5, NEW a6, NEW a7, NEW a8, NEW a9,
           s = <<a1, a2, a3, a4, a5, a6, a7, a8, a9>>
    PROVE  /\ Len(s) = 9 /\ DOMAIN s = 1..9
           /\ s[1] = a1 /\ s[2] = a2 /\ s[3] = a3 /\ s[4] = a4 /\ s[5] = a5 /\ s[6] = a6 /\ s[7] = a7 /\ s[8] = a8 /\ s[9] = a9
  OBVIOUS

LEMMA Tuple11 ==
    ASSUME NEW s, NEW a1, NEW a2, NEW a3, NEW a4, NEW a5, NEW a6, NEW a7, NEW a8, NEW a9, NEW a10, NEW a11,
           s = <<a1, a2, a3, a4, a5, a6, a7, a8, a9, a10, a11>>
    PROVE  /\ Len(s) = 11 /\ DOMAIN s = 1..11
           /\ s[1] = a1 /\ s[2] = a2 /\ s[3] = a3 /\ s[4] = a4 /\ s[5] = a5 /\ s[6] = a6 /\ s[7] = a7 /\ s[8] = a8 /\ s[9] = a9 /\ s[10] = a10 /\ s[11] = a11
  OBVIOUS

LEMMA Tuple12 ==
    ASSUME NEW s, NEW a1, NEW a2, NEW a3, NEW a4, NEW a5, NEW a6, NEW a7, NEW a8, NEW a9, NEW a10, NEW a11, NEW a12,
           s = <<a1, a2, a3, a4, a5, a6, a7, a8, a9, a10, a11, a12>>
    PROVE  /\ Len(s) = 12 /\ DOMAIN s = 1..12
           /\ s[1] = a1 /\ s[2] = a2 /\ s[3] = a3 /\ s[4] = a4 /\ s[5] = a5 /\ s[6] = a6 /\ s[7] = a7 /\ s[8] = a8 /\ s[9] = a9 /\ s[10] = a10 /\ s[11] = a11 /\ s[12] = a12
  OBVIOUS

LEMMA Tuple13 ==
    ASSUME NEW s, NEW a1, NEW a2, NEW a3, NEW a4, NEW a5, NEW a6, NEW a7, NEW a8, NEW a9, NEW a10, NEW a11, NEW a12, NEW a13,
           s = <<a1, a2, a3, a4, a5, a6, a7, a8, a9, a10, a11, a12, a13>>
    PROVE  /\ Len(s) = 13 /\ DOMAIN s = 1..13
           /\ s[1] = a1 /\ s[2] = a2 /\ s[3] = a3 /\ s[4] = a4 /\ s[5] = a5 /\ s[6] = a6 /\ s[7] = a7 /\ s[8] = a8 /\ s[9] = a9 /\ s[10] = a10 /\ s[11] = a11 /\ s[12] = a12 /\ s[13] = a13
  OBVIOUS

LEMMA Concatenated ==
    ASSUME NEW S, NEW s \in Seq(S), NEW t \in Seq(S), NEW u \in Seq(S), Len(u) = Len(s) + Len(t),
           \A i \in 1..Len(u) : u[i] = IF i <= Len(s) THEN s[i] ELSE t[i - Len(s)]
    PROVE  s \o t = u
<1>1. s \o t \in Seq(S) /\ Len(s \o t) = Len(u)
  BY ConcatProperties
<1>2. \A i \in 1..Len(u) : (s \o t)[i] = u[i]
  BY ConcatProperties
<1> QED BY <1>1, <1>2, SeqEqual

LEMMA Cat_1_4 ==
    ASSUME NEW a1, NEW b1, NEW b2, NEW b3, NEW b4
    PROVE  <<a1>> \o <<b1, b2, b3, b4>> = <<a1, b1, b2, b3, b4>>
<1> DEFINE S == {a1, b1, b2, b3, b4}
           s == <<a1>>
           t == <<b1, b2, b3, b4>>
           u == <<a1, b1, b2, b3, b4>>
<1>1. s \in Seq(S) /\ t \in Seq(S) /\ u \in Seq(S)
  OBVIOUS
<1>2. Len(s) = 1 /\ Len(t) = 4 /\ Len(u) = 5
  OBVIOUS
<1>3. \A i \in 1..5 : u[i] = IF i <= 1 THEN s[i] ELSE t[i - 1]
  OBVIOUS
<1> HIDE DEF S, s, t, u
<1>4. Len(u) = Len(s) + Len(t) /\ \A i \in 1..Len(u) : u[i] = IF i <= Len(s) THEN s[i] ELSE t[i - Len(s)]
  BY <1>2, <1>3
<1>5. s \o t = u
  BY <1>1, <1>4, Concatenated
<1> QED BY <1>5 DEF s, t, u

LEMMA Cat_2_3 ==
    ASSUME NEW a1, NEW a2, NEW b1, NEW b2, NEW b3
    PROVE  <<a1, a2>> \o <<b1, b2, b3>> = <<a1, a2, b1, b2, b3>>
<1> DEFINE S == {a1, a2, b1, b2, b3}
           s == <<a1, a2>>
           t == <<b1, b2, b3>>
           u == <<a1, a2, b1, b2, b3>>
<1>1. s \in Seq(S) /\ t \in Seq(S) /\ u \in Seq(S)
  OBVIOUS
<1>2. Len(s) = 2 /\ Len(t) = 3 /\ Len(u) = 5
  OBVIOUS
<1>3. \A i \in 1..5 : u[i] = IF i <= 2 THEN s[i] ELSE t[i - 2]
  OBVIOUS
<1> HIDE DEF S, s, t, u
<1>4. Len(u) = Len(s) + Len(t) /\ \A i \in 1..Len(u) : u[i] = IF i <= Len(s) THEN s[i] ELSE t[i - Len(s)]
  BY <1>2, <1>3
<1>5. s \o t = u
  BY <1>1, <1>4, Concatenated
<1> QED BY <1>5 DEF s, t, u

LEMMA Cat_2_4 ==
    ASSUME NEW a1, NEW a2, NEW b1, NEW b2, NEW b3, NEW b4
    PROVE  <<a1, a2>> \o <<b1, b2, b3, b4>> = <<a1, a2, b1, b2, b3, b4>>
<1> DEFINE S == {a1, a2, b1, b2, b3, b4}
           s == <<a1, a2>>
           t == <<b1, b2, b3, b4>>
           u == <<a1, a2, b1, b2, b3, b4>>
<1>1. s \in Seq(S) /\ t \in Seq(S) /\ u \in Seq(S)
  OBVIOUS
<1>2. Len(s) = 2 /\ Len(t) = 4 /\ Len(u) = 6
  OBVIOUS
<1>3. \A i \in 1..6 : u[i] = IF i <= 2 THEN s[i] ELSE t[i - 2]
  OBVIOUS
<1> HIDE DEF S, s, t, u
<1>4. Len(u) = Len(s) + Len(t) /\ \A i \in 1..Len(u) : u[i] = IF i <= Len(s) THEN s[i] ELSE t[i - Len(s)]
  BY <1>2, <1>3
<1>5. s \o t = u
  BY <1>1, <1>4, Concatenated
<1> QED BY <1>5 DEF s, t, u

LEMMA Cat_2_7 ==
    ASSUME NEW a1, NEW a2, NEW b1, NEW b2, NEW b3, NEW b4, NEW b5, NEW b6, NEW b7
    PROVE  <<a1, a2>> \o <<b1, b2, b3, b4, b5, b6, b7>> = <<a1, a2, b1, b2, b3, b4, b5, b6, b7>>
<1> DEFINE S == {a1, a2, b1, b2, b3, b4, b5, b6, b7}
           s == <<a1, a2>>
           t == <<b1, b2, b3, b4, b5, b6, b7>>
           u == <<a1, a2, b1, b2, b3, b4, b5, b6, b7>>
<1>1. s \in Seq(S) /\ t \in Seq(S) /\ u \in Seq(S)
  OBVIOUS
<1>2. Len(s) = 2 /\ Len(t) = 7 /\ Len(u) = 9
  OBVIOUS
<1>3. \A i \in 1..9 : u[i] = IF i <= 2 THEN s[i] ELSE t[i - 2]
  OBVIOUS
<1> HIDE DEF S, s, t, u
<1>4. Len(u) = Len(s) + Len(t) /\ \A i \in 1..Len(u) : u[i] = IF i <= Len(s) THEN s[i] ELSE t[i - Len(s)]
  BY <1>2, <1>3
<1>5. s \o t = u
  BY <1>1, <1>4, Concatenated
<1> QED BY <1>5 DEF s, t, u

LEMMA Cat_3_0 ==
    ASSUME NEW a1, NEW a2, NEW a3
    PROVE  <<a1, a2, a3>> \o <<>> = <<a1, a2, a3>>
<1> DEFINE S == {a1, a2, a3}
           s == <<a1, a2, a3>>
<1>1. s \in Seq(S)
  OBVIOUS
<1> HIDE DEF S, s
<1>2. s \o <<>> = s
  BY <1>1, ConcatEmptySeq
<1> QED BY <1>2 DEF s

LEMMA Cat_3_1 ==
    ASSUME NEW a1, NEW a2, NEW a3, NEW b1
    PROVE  <<a1, a2, a3>> \o <<b1>> = <<a1, a2, a3, b1>>
<1> DEFINE S == {a1, a2, a3, b1}
           s == <<a1, a2, a3>>
           t == <<b1>>
           u == <<a1, a2, a3, b1>>
<1>1. s \in Seq(S) /\ t \in Seq(S) /\ u \in Seq(S)
  OBVIOUS
<1>2. Len(s) = 3 /\ Len(t) = 1 /\ Len(u) = 4
  OBVIOUS
<1>3. \A i \in 1..4 : u[i] = IF i <= 3 THEN s[i] ELSE t[i - 3]
  OBVIOUS
<1> HIDE DEF S, s, t, u
<1>4. Len(u) = Len(s) + Len(t) /\ \A i \in 1..Len(u) : u[i] = IF i <= Len(s) THEN s[i] ELSE t[i - Len(s)]
  BY <1>2, <1>3
<1>5. s \o t = u
  BY <1>1, <1>4, Concatenated
<1> QED BY <1>5 DEF s, t, u

LEMMA Cat_4_1 ==
    ASSUME NEW a1, NEW a2, NEW a3, NEW a4, NEW b1
    PROVE  <<a1, a2, a3, a4>> \o <<b1>> = <<a1, a2, a3, a4, b1>>
<1> DEFINE S == {a1, a2, a3, a4, b1}
           s == <<a1, a2, a3, a4>>
           t == <<b1>>
           u == <<a1, a2, a3, a4, b1>>
<1>1. s \in Seq(S) /\ t \in Seq(S) /\ u \in Seq(S)
  OBVIOUS
<1>2. Len(s) = 4 /\ Len(t) = 1 /\ Len(u) = 5
  OBVIOUS
<1>3. \A i \in 1..5 : u[i] = IF i <= 4 THEN s[i] ELSE t[i - 4]
  OBVIOUS
<1> HIDE DEF S, s, t, u
<1>4. Len(u) = Len(s) + Len(t) /\ \A i \in 1..Len(u) : u[i] = IF i <= Len(s) THEN s[i] ELSE t[i - Len(s)]
  BY <1>2, <1>3
<1>5. s \o t = u
  BY <1>1, <1>4, Concatenated
<1> QED BY <1>5 DEF s, t, u

LEMMA Cat_9_0 ==
    ASSUME NEW a1, NEW a2, NEW a3, NEW a4, NEW a5, NEW a6, NEW a7, NEW a8, NEW a9
    PROVE  <<a1, a2, a3, a4, a5, a6, a7, a8, a9>> \o <<>> = <<a1, a2, a3, a4, a5, a6, a7, a8, a9>>
<1> DEFINE S == {a1, a2, a3, a4, a5, a6, a7, a8, a9}
           s == <<a1, a2, a3, a4, a5, a6, a7, a8, a9>>
<1>1. s \in Seq(S)
  OBVIOUS
<1> HIDE DEF S, s
<1>2. s \o <<>> = s
  BY <1>1, ConcatEmptySeq
<1> QED BY <1>2 DEF s

LEMMA Cat_9_2 ==
    ASSUME NEW a1, NEW a2, NEW a3, NEW a4, NEW a5, NEW a6, NEW a7, NEW a8, NEW a9, NEW b1, NEW b2
    PROVE  <<a1, a2, a3, a4, a5, a6, a7, a8, a9>> \o <<b1, b2>> = <<a1, a2, a3, a4, a5, a6, a7, a8, a9, b1, b2>>
<1> DEFINE S == {a1, a2, a3, a4, a5, a6, a7, a8, a9, b1, b2}
           s == <<a1, a2, a3, a4, a5, a6, a7, a8, a9>>
           t == <<b1, b2>>
           u == <<a1, a2, a3, a4, a5, a6, a7, a8, a9, b1, b2>>
<1>1. s \in Seq(S) /\ t \in Seq(S) /\ u \in Seq(S)
  OBVIOUS
<1>2. Len(s) = 9 /\ Len(t) = 2 /\ Len(u) = 11
  OBVIOUS
<1>3. \A i \in 1..11 : u[i] = IF i <= 9 THEN s[i] ELSE t[i - 9]
  OBVIOUS
<1> HIDE DEF S, s, t, u
<1>4. Len(u) = Len(s) + Len(t) /\ \A i \in 1..Len(u) : u[i] = IF i <= Len(s) THEN s[i] ELSE t[i - Len(s)]
  BY <1>2, <1>3
<1>5. s \o t = u
  BY <1>1, <1>4, Concatenated
<1> QED BY <1>5 DEF s, t, u

LEMMA Cat_11_2 ==
    ASSUME NEW a1, NEW a2, NEW a3, NEW a4, NEW a5, NEW a6, NEW a7, NEW a8, NEW a9, NEW a10, NEW a11, NEW b1, NEW b2
    PROVE  <<a1, a2, a3, a4, a5, a6, a7, a8, a9, a10, a11>> \o <<b1, b2>> = <<a1, a2, a3, a4, a5, a6, a7, a8, a9, a10, a11, b1, b2>>
<1> DEFINE S == {a1, a2, a3, a4, a5, a6, a7, a8, a9, a10, a11, b1, b2}
           s == <<a1, a2, a3, a4, a5, a6, a7, a8, a9, a10, a11>>
           t == <<b1, b2>>
           u == <<a1, a2, a3, a4, a5, a6, a7, a8, a9, a10, a11, b1, b2>>
<1>1. s \in Seq(S) /\ t \in Seq(S) /\ u \in Seq(S)
  OBVIOUS
<1>2. Len(s) = 11 /\ Len(t) = 2 /\ Len(u) = 13
  OBVIOUS
<1>3. \A i \in 1..13 : u[i] = IF i <= 11 THEN s[i] ELSE t[i - 11]
  OBVIOUS
<1> HIDE DEF S, s, t, u
<1>4. Len(u) = Len(s) + Len(t) /\ \A i \in 1..Len(u) : u[i] = IF i <= Len(s) THEN s[i] ELSE t[i - Len(s)]
  BY <1>2, <1>3
<1>5. s \o t = u
  BY <1>1, <1>4, Concatenated
<1> QED BY <1>5 DEF s, t, u

\* The operations that leave an alarm by unlocking.
ByUnlock(o) == o.req.kind = "unlock" \/ (o.req.kind = "recover" /\ Recovery(o.code) = "unlock")

LEMMA PauseScript ==
    ASSUME NEW o \in Operations, o.req.op = "pause"
    PROVE  /\ Len(Script(o)) = 5 /\ DOMAIN Script(o) = 1..5
           /\ o.pc \in 1..5 => Shape(o)
<1> DEFINE s == Script(o)
<1>1. s = <<Lock(FALSE), Query(In({"Run"})), Send(Line("suspend", 0)),
            Poll(In({"Pause"}), "error"), Unlock>>
  BY DEF Script, PauseJob
<1> HIDE DEF s
<1>2. Len(s) = 5 /\ DOMAIN s = 1..5
  BY <1>1, Tuple5
<1>3. /\ s[1] = Lock(FALSE) /\ s[2] = Query(In({"Run"})) /\ s[3] = Send(Line("suspend", 0))
      /\ s[4] = Poll(In({"Pause"}), "error") /\ s[5] = Unlock
  BY <1>1, Tuple5
<1>5. Line("suspend", 0) \in Lines
  BY LineTyped, OperationTyped
<1>6. /\ s[1].i = "lock" /\ s[2].i = "query" /\ s[3].i = "send" /\ s[4].i = "await"
      /\ s[5].i = "unlock" /\ s[3].line \in Lines
  BY <1>3, <1>5 DEF Lock, Poll, Query, Send, Unlock
<1>7. \A pc \in Nat : InsideAt(o.req.op, pc) <=> pc > 1
  BY DEF Entry, InsideAt
<1>8. ASSUME o.pc \in 1..5 PROVE Shape(o)
  <2>1. o.pc = 1 \/ o.pc = 2 \/ o.pc = 3 \/ o.pc = 4 \/ o.pc = 5
    BY <1>8
  <2> QED BY <2>1, <1>2, <1>6, <1>7 DEF Shape, Talks, Yielding, Inside, s
<1> QED BY <1>2, <1>8 DEF s

LEMMA ResumeScript ==
    ASSUME NEW o \in Operations, o.req.op = "resume"
    PROVE  /\ Len(Script(o)) = 5 /\ DOMAIN Script(o) = 1..5
           /\ o.pc \in 1..5 => Shape(o)
<1> DEFINE s == Script(o)
<1>1. s = <<Lock(FALSE), Query(In({"Pause"})), Send(Line("resume", 0)),
            Poll(In({"Run"}), "error"), Unlock>>
  BY DEF Script, ResumeJob
<1> HIDE DEF s
<1>2. Len(s) = 5 /\ DOMAIN s = 1..5
  BY <1>1, Tuple5
<1>3. /\ s[1] = Lock(FALSE) /\ s[2] = Query(In({"Pause"})) /\ s[3] = Send(Line("resume", 0))
      /\ s[4] = Poll(In({"Run"}), "error") /\ s[5] = Unlock
  BY <1>1, Tuple5
<1>5. Line("resume", 0) \in Lines
  BY LineTyped, OperationTyped
<1>6. /\ s[1].i = "lock" /\ s[2].i = "query" /\ s[3].i = "send" /\ s[4].i = "await"
      /\ s[5].i = "unlock" /\ s[3].line \in Lines
  BY <1>3, <1>5 DEF Lock, Poll, Query, Send, Unlock
<1>7. \A pc \in Nat : InsideAt(o.req.op, pc) <=> pc > 1
  BY DEF Entry, InsideAt
<1>8. ASSUME o.pc \in 1..5 PROVE Shape(o)
  <2>1. o.pc = 1 \/ o.pc = 2 \/ o.pc = 3 \/ o.pc = 4 \/ o.pc = 5
    BY <1>8
  <2> QED BY <2>1, <1>2, <1>6, <1>7 DEF Shape, Talks, Yielding, Inside, s
<1> QED BY <1>2, <1>8 DEF s

LEMMA PausedScript ==
    ASSUME NEW o \in Operations, o.req.op = "paused"
    PROVE  /\ Len(Script(o)) = 6 /\ DOMAIN Script(o) = 1..6
           /\ o.pc \in 1..6 => Shape(o)
<1> DEFINE s == Script(o)
<1> DEFINE way == CASE o.req.kind = "stop_spindle" ->
                        [ok |-> TRUE, line |-> Line("M5", 0), want |-> [state |-> {"Pause"}, rpm |-> {0}]]
                 [] o.req.kind = "start_spindle" ->
                        [ok |-> o.req.v > 0, line |-> Line("M3", o.req.v),
                         want |-> [state |-> {"Pause"}, rpm |-> {o.req.v}]]
                 [] o.req.kind = "raise_z" ->
                        [ok |-> RaiseTarget(o) > o.st.z, line |-> Line("G53Z", RaiseTarget(o)),
                         want |-> [state |-> {"Pause"}, z |-> {RaiseTarget(o)}]]
           ok == way.ok
           line == way.line
           want == way.want
<1>1. s = <<Lock(FALSE), Query(In({"Pause"})), Check(ok), Send(line), Poll(want, "error"),
            Unlock>>
  BY DEF Script, RunPausedJobCommand
<1>10. line \in Lines
  <2>1. RaiseTarget(o) \in Int /\ o.req.v \in Int
    BY OperationTyped DEF RaiseTarget, Smaller
  <2>2. o.req.kind \in {"stop_spindle", "start_spindle", "raise_z"}
    BY OperationTyped DEF Kinds
  <2>3. Line("M5", 0) \in Lines /\ Line("M3", o.req.v) \in Lines /\ Line("G53Z", RaiseTarget(o)) \in Lines
    BY <2>1, LineTyped
  <2> QED BY <2>2, <2>3
<1> HIDE DEF s, ok, line, want
<1>2. Len(s) = 6 /\ DOMAIN s = 1..6
  BY <1>1, Tuple6
<1>3. /\ s[1] = Lock(FALSE) /\ s[2] = Query(In({"Pause"})) /\ s[3] = Check(ok)
      /\ s[4] = Send(line) /\ s[5] = Poll(want, "error") /\ s[6] = Unlock
  BY <1>1, Tuple6
<1>5. line \in Lines
  BY <1>10
<1>6. /\ s[1].i = "lock" /\ s[2].i = "query" /\ s[3].i = "check" /\ s[4].i = "send"
      /\ s[5].i = "await" /\ s[6].i = "unlock" /\ s[4].line \in Lines
  BY <1>3, <1>5 DEF Check, Lock, Poll, Query, Send, Unlock
<1>7. \A pc \in Nat : InsideAt(o.req.op, pc) <=> pc > 1
  BY DEF Entry, InsideAt
<1>8. ASSUME o.pc \in 1..6 PROVE Shape(o)
  <2>1. o.pc = 1 \/ o.pc = 2 \/ o.pc = 3 \/ o.pc = 4 \/ o.pc = 5 \/ o.pc = 6
    BY <1>8
  <2> QED BY <2>1, <1>2, <1>6, <1>7 DEF Shape, Talks, Yielding, Inside, s
<1> QED BY <1>2, <1>8 DEF s

LEMMA GcodeScript ==
    ASSUME NEW o \in Operations, o.req.op = "gcode",
           o.req.kind # "G38"
    PROVE  /\ Len(Script(o)) = 4 /\ DOMAIN Script(o) = 1..4
           /\ o.pc \in 1..4 => Shape(o)
<1> DEFINE s == Script(o)
<1> DEFINE line == Line(o.req.kind, o.req.v)
           states == IF CanRunWhilePaused(line) THEN {"Idle", "Pause"} ELSE {"Idle"}
           want == In(IF ClassifyGcode(line).idle THEN states ELSE States)
           tail == IF ClassifyGcode(line).reply /\ line.c = "G38" THEN <<Contact>> ELSE <<>>
<1>1. s = <<Lock(FALSE), Gate(want), Send(line), Unlock>>
  <2>1. s = SendGcode(o)
    BY DEF Script
  <2>2. tail = <<>>
    BY DEF ClassifyGcode, Line
  <2>3. SendGcode(o) = <<Lock(FALSE), Gate(want), Send(line)>> \o tail \o <<Unlock>>
    BY DEF SendGcode
  <2> HIDE DEF want, tail, line, s
  <2>4. <<Lock(FALSE), Gate(want), Send(line)>> \o tail = <<Lock(FALSE), Gate(want), Send(line)>>
    BY <2>2, Cat_3_0, Zenon
  <2>5. <<Lock(FALSE), Gate(want), Send(line)>> \o <<Unlock>> = <<Lock(FALSE), Gate(want), Send(line), Unlock>>
    BY Cat_3_1, Zenon
  <2> QED BY <2>1, <2>3, <2>4, <2>5, Zenon
<1>10. line \in Lines
  BY OperationTyped DEF Line, Lines, Kinds
<1> HIDE DEF s, line, want
<1>2. Len(s) = 4 /\ DOMAIN s = 1..4
  BY <1>1, Tuple4
<1>3. /\ s[1] = Lock(FALSE) /\ s[2] = Gate(want) /\ s[3] = Send(line) /\ s[4] = Unlock
  BY <1>1, Tuple4
<1>5. line \in Lines
  BY <1>10
<1>6. /\ s[1].i = "lock" /\ s[2].i = "gate" /\ s[3].i = "send" /\ s[4].i = "unlock"
      /\ s[3].line \in Lines
  BY <1>3, <1>5 DEF Gate, Lock, Send, Unlock
<1>7. \A pc \in Nat : InsideAt(o.req.op, pc) <=> pc > 1
  BY DEF Entry, InsideAt
<1>8. ASSUME o.pc \in 1..4 PROVE Shape(o)
  <2>1. o.pc = 1 \/ o.pc = 2 \/ o.pc = 3 \/ o.pc = 4
    BY <1>8
  <2> QED BY <2>1, <1>2, <1>6, <1>7 DEF Shape, Talks, Yielding, Inside, s
<1> QED BY <1>2, <1>8 DEF s

LEMMA ProbeLineScript ==
    ASSUME NEW o \in Operations, o.req.op = "gcode",
           o.req.kind = "G38"
    PROVE  /\ Len(Script(o)) = 5 /\ DOMAIN Script(o) = 1..5
           /\ o.pc \in 1..5 => Shape(o)
<1> DEFINE s == Script(o)
<1> DEFINE line == Line(o.req.kind, o.req.v)
           states == IF CanRunWhilePaused(line) THEN {"Idle", "Pause"} ELSE {"Idle"}
           want == In(IF ClassifyGcode(line).idle THEN states ELSE States)
           tail == IF ClassifyGcode(line).reply /\ line.c = "G38" THEN <<Contact>> ELSE <<>>
<1>1. s = <<Lock(FALSE), Gate(want), Send(line), Contact, Unlock>>
  <2>1. s = SendGcode(o)
    BY DEF Script
  <2>2. tail = <<Contact>>
    BY DEF ClassifyGcode, Line
  <2>3. SendGcode(o) = <<Lock(FALSE), Gate(want), Send(line)>> \o tail \o <<Unlock>>
    BY DEF SendGcode
  <2> HIDE DEF want, tail, line, s
  <2>4. <<Lock(FALSE), Gate(want), Send(line)>> \o tail = <<Lock(FALSE), Gate(want), Send(line), Contact>>
    BY <2>2, Cat_3_1, Zenon
  <2>5. <<Lock(FALSE), Gate(want), Send(line), Contact>> \o <<Unlock>> = <<Lock(FALSE), Gate(want), Send(line), Contact, Unlock>>
    BY Cat_4_1, Zenon
  <2> QED BY <2>1, <2>3, <2>4, <2>5, Zenon
<1>10. line \in Lines
  BY OperationTyped DEF Line, Lines, Kinds
<1> HIDE DEF s, line, want
<1>2. Len(s) = 5 /\ DOMAIN s = 1..5
  BY <1>1, Tuple5
<1>3. /\ s[1] = Lock(FALSE) /\ s[2] = Gate(want) /\ s[3] = Send(line) /\ s[4] = Contact
      /\ s[5] = Unlock
  BY <1>1, Tuple5
<1>5. line \in Lines
  BY <1>10
<1>6. /\ s[1].i = "lock" /\ s[2].i = "gate" /\ s[3].i = "send" /\ s[4].i = "contact"
      /\ s[5].i = "unlock" /\ s[3].line \in Lines
  BY <1>3, <1>5 DEF Contact, Gate, Lock, Send, Unlock
<1>7. \A pc \in Nat : InsideAt(o.req.op, pc) <=> pc > 1
  BY DEF Entry, InsideAt
<1>8. ASSUME o.pc \in 1..5 PROVE Shape(o)
  <2>1. o.pc = 1 \/ o.pc = 2 \/ o.pc = 3 \/ o.pc = 4 \/ o.pc = 5
    BY <1>8
  <2> QED BY <2>1, <1>2, <1>6, <1>7 DEF Shape, Talks, Yielding, Inside, s
<1> QED BY <1>2, <1>8 DEF s

LEMMA FeedScript ==
    ASSUME NEW o \in Operations, o.req.op = "feed"
    PROVE  /\ Len(Script(o)) = 5 /\ DOMAIN Script(o) = 1..5
           /\ o.pc \in 1..5 => Shape(o)
<1> DEFINE s == Script(o)
<1>1. s = <<Check(o.req.v \in 50..200), Lock(FALSE), Send(Line("M220", o.req.v)),
            Query([override |-> {o.req.v}]), Unlock>>
  BY DEF Script, SetFeedOverride
<1> HIDE DEF s
<1>2. Len(s) = 5 /\ DOMAIN s = 1..5
  BY <1>1, Tuple5
<1>3. /\ s[1] = Check(o.req.v \in 50..200) /\ s[2] = Lock(FALSE)
      /\ s[3] = Send(Line("M220", o.req.v)) /\ s[4] = Query([override |-> {o.req.v}])
      /\ s[5] = Unlock
  BY <1>1, Tuple5
<1>5. Line("M220", o.req.v) \in Lines
  BY LineTyped, OperationTyped
<1>6. /\ s[1].i = "check" /\ s[2].i = "lock" /\ s[3].i = "send" /\ s[4].i = "query"
      /\ s[5].i = "unlock" /\ s[3].line \in Lines
  BY <1>3, <1>5 DEF Check, Lock, Query, Send, Unlock
<1>7. \A pc \in Nat : InsideAt(o.req.op, pc) <=> pc > 2
  BY DEF Entry, InsideAt
<1>8. ASSUME o.pc \in 1..5 PROVE Shape(o)
  <2>1. o.pc = 1 \/ o.pc = 2 \/ o.pc = 3 \/ o.pc = 4 \/ o.pc = 5
    BY <1>8
  <2> QED BY <2>1, <1>2, <1>6, <1>7 DEF Shape, Talks, Yielding, Inside, s
<1> QED BY <1>2, <1>8 DEF s

LEMMA VacuumScript ==
    ASSUME NEW o \in Operations, o.req.op = "vacuum"
    PROVE  /\ Len(Script(o)) = 4 /\ DOMAIN Script(o) = 1..4
           /\ o.pc \in 1..4 => Shape(o)
<1> DEFINE s == Script(o)
<1>1. s = <<Lock(FALSE), Send(Line("M331", o.req.v)), Poll([vacuum |-> {o.req.v}], "ok"), Unlock>>
  BY DEF Script, SetAutoVacuum
<1> HIDE DEF s
<1>2. Len(s) = 4 /\ DOMAIN s = 1..4
  BY <1>1, Tuple4
<1>3. /\ s[1] = Lock(FALSE) /\ s[2] = Send(Line("M331", o.req.v))
      /\ s[3] = Poll([vacuum |-> {o.req.v}], "ok") /\ s[4] = Unlock
  BY <1>1, Tuple4
<1>5. Line("M331", o.req.v) \in Lines
  BY LineTyped, OperationTyped
<1>6. /\ s[1].i = "lock" /\ s[2].i = "send" /\ s[3].i = "await" /\ s[4].i = "unlock"
      /\ s[2].line \in Lines
  BY <1>3, <1>5 DEF Lock, Poll, Send, Unlock
<1>7. \A pc \in Nat : InsideAt(o.req.op, pc) <=> pc > 1
  BY DEF Entry, InsideAt
<1>8. ASSUME o.pc \in 1..4 PROVE Shape(o)
  <2>1. o.pc = 1 \/ o.pc = 2 \/ o.pc = 3 \/ o.pc = 4
    BY <1>8
  <2> QED BY <2>1, <1>2, <1>6, <1>7 DEF Shape, Talks, Yielding, Inside, s
<1> QED BY <1>2, <1>8 DEF s

LEMMA OriginScript ==
    ASSUME NEW o \in Operations, o.req.op = "origin"
    PROVE  /\ Len(Script(o)) = 4 /\ DOMAIN Script(o) = 1..4
           /\ o.pc \in 1..4 => Shape(o)
<1> DEFINE s == Script(o)
<1>1. s = <<Check(ResolveMachineOrigin(o).ok), Lock(TRUE),
            Send(Line("G10L2X", ResolveMachineOrigin(o).x)), Unlock>>
  BY DEF Script, SetMachineOrigin
<1> HIDE DEF s
<1>2. Len(s) = 4 /\ DOMAIN s = 1..4
  BY <1>1, Tuple4
<1>3. /\ s[1] = Check(ResolveMachineOrigin(o).ok) /\ s[2] = Lock(TRUE)
      /\ s[3] = Send(Line("G10L2X", ResolveMachineOrigin(o).x)) /\ s[4] = Unlock
  BY <1>1, Tuple4
<1>5. Line("G10L2X", ResolveMachineOrigin(o).x) \in Lines
  BY OperationTyped, LineTyped DEF ResolveMachineOrigin
<1>6. /\ s[1].i = "check" /\ s[2].i = "lock" /\ s[3].i = "send" /\ s[4].i = "unlock"
      /\ s[3].line \in Lines
  BY <1>3, <1>5 DEF Check, Lock, Send, Unlock
<1>7. \A pc \in Nat : InsideAt(o.req.op, pc) <=> pc > 2
  BY DEF Entry, InsideAt
<1>8. ASSUME o.pc \in 1..4 PROVE Shape(o)
  <2>1. o.pc = 1 \/ o.pc = 2 \/ o.pc = 3 \/ o.pc = 4
    BY <1>8
  <2> QED BY <2>1, <1>2, <1>6, <1>7 DEF Shape, Talks, Yielding, Inside, s
<1> QED BY <1>2, <1>8 DEF s

LEMMA ProbeScript ==
    ASSUME NEW o \in Operations, o.req.op = "probe"
    PROVE  /\ Len(Script(o)) = 12 /\ DOMAIN Script(o) = 1..12
           /\ o.pc \in 1..12 => Shape(o)
           /\ Script(o)[1].i = "lock" /\ Script(o)[2].i = "unlock" /\ Script(o)[3].i = "track" /\ Script(o)[4].i = "lock"
           /\ Script(o)[5].i = "send" /\ Script(o)[6].i = "send" /\ Script(o)[7].i = "send" /\ Script(o)[8].i = "contact"
           /\ Script(o)[9].i = "check" /\ Script(o)[10].i = "send" /\ Script(o)[11].i = "await"
           /\ Script(o)[12].i = "unlock" /\ Script(o)[5].line = Line("G53Z", SafeZ)
           /\ Script(o)[6].line = Line("G53X", o.req.v) /\ Script(o)[7].line = Line("G38", 4)
           /\ (Script(o)[9].ok <=> o.contact = Surface) /\ Script(o)[10].line = Line("G53Z", ProbeRetract(o))
           /\ Script(o)[11].want = In({"Idle"}) /\ Script(o)[11].strict /\ Script(o)[11].late = "error"
<1> DEFINE s == Script(o)
<1>1. s = <<Lock(TRUE), Unlock, Track([tool |-> {Probe}]), Lock(TRUE),
            Send(Line("G53Z", SafeZ)), Send(Line("G53X", o.req.v)), Send(Line("G38", 4)),
            Contact, Check(o.contact = Surface), Send(Line("G53Z", ProbeRetract(o))),
            Await(In({"Idle"}), States), Unlock>>
  BY DEF Script, ProbeZ
<1> HIDE DEF s
<1>2. Len(s) = 12 /\ DOMAIN s = 1..12
  BY <1>1, Tuple12
<1>3. /\ s[1] = Lock(TRUE) /\ s[2] = Unlock /\ s[3] = Track([tool |-> {Probe}])
      /\ s[4] = Lock(TRUE) /\ s[5] = Send(Line("G53Z", SafeZ))
      /\ s[6] = Send(Line("G53X", o.req.v)) /\ s[7] = Send(Line("G38", 4)) /\ s[8] = Contact
      /\ s[9] = Check(o.contact = Surface) /\ s[10] = Send(Line("G53Z", ProbeRetract(o)))
      /\ s[11] = Await(In({"Idle"}), States) /\ s[12] = Unlock
  BY <1>1, Tuple12
<1>5. Line("G53Z", SafeZ) \in Lines /\ Line("G53X", o.req.v) \in Lines /\ Line("G38", 4) \in Lines /\ Line("G53Z", ProbeRetract(o)) \in Lines
  BY OperationTyped, LineTyped DEF ProbeRetract, Smaller
<1>6. /\ s[1].i = "lock" /\ s[2].i = "unlock" /\ s[3].i = "track" /\ s[4].i = "lock"
      /\ s[5].i = "send" /\ s[6].i = "send" /\ s[7].i = "send" /\ s[8].i = "contact"
      /\ s[9].i = "check" /\ s[10].i = "send" /\ s[11].i = "await" /\ s[12].i = "unlock"
      /\ s[5].line \in Lines /\ s[6].line \in Lines /\ s[7].line \in Lines
      /\ s[10].line \in Lines /\ s[11].strict
  BY <1>3, <1>5 DEF Await, Check, Contact, Lock, Send, Track, Unlock
<1>7. \A pc \in Nat : InsideAt(o.req.op, pc) <=> pc = 2 \/ pc > 4
  BY DEF Entry, InsideAt
<1>8. ASSUME o.pc \in 1..12 PROVE Shape(o)
  <2>1. o.pc = 1 \/ o.pc = 2 \/ o.pc = 3 \/ o.pc = 4 \/ o.pc = 5 \/ o.pc = 6 \/ o.pc = 7 \/ o.pc = 8 \/
        o.pc = 9 \/ o.pc = 10 \/ o.pc = 11 \/ o.pc = 12
    BY <1>8
  <2> QED BY <2>1, <1>2, <1>6, <1>7 DEF Shape, Talks, Yielding, Inside, s
<1>9. /\ s[5].line = Line("G53Z", SafeZ) /\ s[6].line = Line("G53X", o.req.v)
      /\ s[7].line = Line("G38", 4) /\ s[10].line = Line("G53Z", ProbeRetract(o))
      /\ s[11].want = In({"Idle"}) /\ s[11].strict /\ s[11].late = "error"
  BY <1>3 DEF Await, Send
<1>10. s[9].ok <=> o.contact = Surface
  <2> DEFINE b == o.contact = Surface
  <2>1. s[9] = Check(b)
    BY <1>3
  <2> HIDE DEF b
  <2>2. s[9].ok = b
    BY <2>1 DEF Check
  <2> QED BY <2>2, Zenon DEF b
<1> QED BY <1>2, <1>6, <1>9, <1>10, <1>8 DEF s

LEMMA TraceScript ==
    ASSUME NEW o \in Operations, o.req.op = "trace"
    PROVE  /\ Len(Script(o)) = 11 /\ DOMAIN Script(o) = 1..11
           /\ o.pc \in 1..11 => Shape(o)
           /\ Script(o)[1].i = "lock" /\ Script(o)[2].i = "track" /\ Script(o)[3].i = "query" /\ Script(o)[4].i = "send"
           /\ Script(o)[5].i = "send" /\ Script(o)[6].i = "await" /\ Script(o)[7].i = "send" /\ Script(o)[8].i = "await"
           /\ Script(o)[9].i = "send" /\ Script(o)[10].i = "await" /\ Script(o)[11].i = "unlock"
           /\ Script(o)[3].want = In({"Idle"}) /\ Script(o)[4].line = Line("M494", 0)
           /\ Script(o)[5].line = Line("G53Z", SafeZ)
           /\ Script(o)[6].want = Lifts /\ Script(o)[6].strict /\ Script(o)[6].late = "error"
           /\ Script(o)[7].line = Line("G90X", 1 - o.offset)
           /\ Script(o)[8].want = Reaches(1) /\ Script(o)[8].strict /\ Script(o)[8].late = "error"
           /\ Script(o)[9].line = Line("G90X", o.req.v - o.offset)
           /\ Script(o)[10].want = Reaches(o.req.v) /\ Script(o)[10].strict /\ Script(o)[10].late = "error"
<1> DEFINE s == Script(o)
<1>1. s = <<Lock(TRUE), Track([tool |-> {Probe}]), Query(In({"Idle"})), Send(Line("M494", 0)),
            Send(Line("G53Z", SafeZ)), Await([state |-> {"Idle"}, z |-> {SafeZ}], IdleOrRun),
            Send(Line("G90X", 1 - o.offset)),
            Await([state |-> {"Idle"}, x |-> {1}], IdleOrRun),
            Send(Line("G90X", o.req.v - o.offset)),
            Await([state |-> {"Idle"}, x |-> {o.req.v}], IdleOrRun), Unlock>>
  BY DEF Script, TraceOutline, TracePoint, waitTraceMotion
<1> HIDE DEF s
<1>2. Len(s) = 11 /\ DOMAIN s = 1..11
  BY <1>1, Tuple11
<1>3. /\ s[1] = Lock(TRUE) /\ s[2] = Track([tool |-> {Probe}]) /\ s[3] = Query(In({"Idle"}))
      /\ s[4] = Send(Line("M494", 0)) /\ s[5] = Send(Line("G53Z", SafeZ))
      /\ s[6] = Await([state |-> {"Idle"}, z |-> {SafeZ}], IdleOrRun)
      /\ s[7] = Send(Line("G90X", 1 - o.offset))
      /\ s[8] = Await([state |-> {"Idle"}, x |-> {1}], IdleOrRun)
      /\ s[9] = Send(Line("G90X", o.req.v - o.offset))
      /\ s[10] = Await([state |-> {"Idle"}, x |-> {o.req.v}], IdleOrRun) /\ s[11] = Unlock
  BY <1>1, Tuple11
<1>5. Line("M494", 0) \in Lines /\ Line("G53Z", SafeZ) \in Lines /\ Line("G90X", 1 - o.offset) \in Lines /\ Line("G90X", o.req.v - o.offset) \in Lines
  BY OperationTyped, LineTyped
<1>6. /\ s[1].i = "lock" /\ s[2].i = "track" /\ s[3].i = "query" /\ s[4].i = "send"
      /\ s[5].i = "send" /\ s[6].i = "await" /\ s[7].i = "send" /\ s[8].i = "await"
      /\ s[9].i = "send" /\ s[10].i = "await" /\ s[11].i = "unlock" /\ s[4].line \in Lines
      /\ s[5].line \in Lines /\ s[6].strict /\ s[7].line \in Lines /\ s[8].strict
      /\ s[9].line \in Lines /\ s[10].strict
  BY <1>3, <1>5 DEF Await, Lock, Query, Send, Track, Unlock
<1>7. \A pc \in Nat : InsideAt(o.req.op, pc) <=> pc > 1
  BY DEF Entry, InsideAt
<1>8. ASSUME o.pc \in 1..11 PROVE Shape(o)
  <2>1. o.pc = 1 \/ o.pc = 2 \/ o.pc = 3 \/ o.pc = 4 \/ o.pc = 5 \/ o.pc = 6 \/ o.pc = 7 \/ o.pc = 8 \/
        o.pc = 9 \/ o.pc = 10 \/ o.pc = 11
    BY <1>8
  <2> QED BY <2>1, <1>2, <1>6, <1>7 DEF Shape, Talks, Yielding, Inside, s
<1>9. /\ s[3].want = In({"Idle"}) /\ s[4].line = Line("M494", 0)
      /\ s[5].line = Line("G53Z", SafeZ)
      /\ s[6].want = Lifts /\ s[6].strict /\ s[6].late = "error"
      /\ s[7].line = Line("G90X", 1 - o.offset)
      /\ s[8].want = Reaches(1) /\ s[8].strict /\ s[8].late = "error"
      /\ s[9].line = Line("G90X", o.req.v - o.offset)
      /\ s[10].want = Reaches(o.req.v) /\ s[10].strict /\ s[10].late = "error"
  BY <1>3 DEF Await, Query, Send, Lifts, Reaches
<1> QED BY <1>2, <1>6, <1>9, <1>8 DEF s

LEMMA AutoScript ==
    ASSUME NEW o \in Operations, o.req.op = "zero",
           o.req.kind # "floor"
    PROVE  /\ Len(Script(o)) = 11 /\ DOMAIN Script(o) = 1..11
           /\ o.pc \in 1..11 => Shape(o)
           /\ Script(o)[1].i = "lock" /\ Script(o)[2].i = "query" /\ Script(o)[3].i = "send" /\ Script(o)[4].i = "send"
           /\ Script(o)[5].i = "contact" /\ Script(o)[6].i = "check" /\ Script(o)[7].i = "send" /\ Script(o)[8].i = "query"
           /\ Script(o)[9].i = "send" /\ Script(o)[10].i = "refresh" /\ Script(o)[11].i = "unlock"
           /\ Script(o)[2].want = In({"Idle"}) /\ Script(o)[3].line = Line("G53Z", o.z)
           /\ Script(o)[4].line = Line("G38", 4) /\ (Script(o)[6].ok <=> o.contact = Surface)
           /\ Script(o)[7].line = Line("G10L20Z", 0) /\ Script(o)[8].want = [wz |-> {0}]
           /\ Script(o)[9].line = Line("G53Z", Retract(o))
<1> DEFINE s == Script(o)
           i1 == Lock(TRUE)
           i2 == Query(In({"Idle"}))
           i3 == Send(Line("G53Z", o.z))
           i4 == Send(Line("G38", 4))
           i5 == Contact
           i6 == Check(o.contact = Surface)
           i7 == Send(Line("G10L20Z", 0))
           i8 == Query([wz |-> {0}])
           i9 == Send(Line("G53Z", Retract(o)))
           i10 == Refresh
           i11 == Unlock
<1>1. s = <<i1, i2, i3, i4, i5, i6, i7, i8, i9, i10, i11>>
  <2> DEFINE end == IF o.req.kind = "floor"
                    THEN <<Await(In({"Idle"}), States), Check(o.st.z = Retract(o))>> ELSE <<>>
  <2>1. s = zProbeSetWorkZero(o)
    BY DEF Script
  <2>2. end = <<>>
    OBVIOUS
  <2>3. zProbeSetWorkZero(o) = <<i1, i2, i3, i4, i5, i6, i7, i8, i9>> \o end \o <<i10, i11>>
    BY DEF zProbeSetWorkZero
  <2> HIDE DEF s, end, i1, i2, i3, i4, i5, i6, i7, i8, i9, i10, i11
  <2>4. <<i1, i2, i3, i4, i5, i6, i7, i8, i9>> \o <<>> = <<i1, i2, i3, i4, i5, i6, i7, i8, i9>>
    BY Cat_9_0
  <2>5. <<i1, i2, i3, i4, i5, i6, i7, i8, i9>> \o <<i10, i11>> = <<i1, i2, i3, i4, i5, i6, i7, i8, i9, i10, i11>>
    BY Cat_9_2
  <2> QED BY <2>1, <2>2, <2>3, <2>4, <2>5, Zenon
<1> HIDE DEF s, i1, i2, i3, i4, i5, i6, i7, i8, i9, i10, i11
<1>2. Len(s) = 11 /\ DOMAIN s = 1..11
  BY <1>1, Tuple11
<1>3. /\ s[1] = Lock(TRUE) /\ s[2] = Query(In({"Idle"})) /\ s[3] = Send(Line("G53Z", o.z))
      /\ s[4] = Send(Line("G38", 4)) /\ s[5] = Contact /\ s[6] = Check(o.contact = Surface)
      /\ s[7] = Send(Line("G10L20Z", 0)) /\ s[8] = Query([wz |-> {0}])
      /\ s[9] = Send(Line("G53Z", Retract(o))) /\ s[10] = Refresh /\ s[11] = Unlock
  BY <1>1, Tuple11 DEF i1, i2, i3, i4, i5, i6, i7, i8, i9, i10, i11
<1>5. Line("G53Z", o.z) \in Lines /\ Line("G38", 4) \in Lines /\ Line("G10L20Z", 0) \in Lines /\ Line("G53Z", Retract(o)) \in Lines
  BY OperationTyped, LineTyped DEF Retract, Larger
<1>6. /\ s[1].i = "lock" /\ s[2].i = "query" /\ s[3].i = "send" /\ s[4].i = "send"
      /\ s[5].i = "contact" /\ s[6].i = "check" /\ s[7].i = "send" /\ s[8].i = "query"
      /\ s[9].i = "send" /\ s[10].i = "refresh" /\ s[11].i = "unlock"
      /\ s[3].line \in Lines /\ s[4].line \in Lines /\ s[7].line \in Lines
      /\ s[9].line \in Lines
  BY <1>3, <1>5 DEF Check, Contact, Lock, Query, Refresh, Send, Unlock
<1>7. \A pc \in Nat : InsideAt(o.req.op, pc) <=> pc > 1
  BY DEF Entry, InsideAt
<1>8. ASSUME o.pc \in 1..11 PROVE Shape(o)
  <2>1. o.pc = 1 \/ o.pc = 2 \/ o.pc = 3 \/ o.pc = 4 \/ o.pc = 5 \/ o.pc = 6 \/ o.pc = 7 \/ o.pc = 8 \/
        o.pc = 9 \/ o.pc = 10 \/ o.pc = 11
    BY <1>8
  <2> QED BY <2>1, <1>2, <1>6, <1>7 DEF Shape, Talks, Yielding, Inside, s
<1>9. /\ s[2].want = In({"Idle"}) /\ s[3].line = Line("G53Z", o.z)
      /\ s[4].line = Line("G38", 4) /\ s[7].line = Line("G10L20Z", 0)
      /\ s[8].want = [wz |-> {0}] /\ s[9].line = Line("G53Z", Retract(o))
  BY <1>3 DEF Query, Send
<1>10. s[6].ok <=> o.contact = Surface
  <2> DEFINE b == o.contact = Surface
  <2>1. s[6] = Check(b)
    BY <1>3
  <2> HIDE DEF b
  <2>2. s[6].ok = b
    BY <2>1 DEF Check
  <2> QED BY <2>2, Zenon DEF b
<1> QED BY <1>2, <1>6, <1>9, <1>10, <1>8 DEF s

LEMMA FloorScript ==
    ASSUME NEW o \in Operations, o.req.op = "zero",
           o.req.kind = "floor"
    PROVE  /\ Len(Script(o)) = 13 /\ DOMAIN Script(o) = 1..13
           /\ o.pc \in 1..13 => Shape(o)
           /\ Script(o)[1].i = "lock" /\ Script(o)[2].i = "query" /\ Script(o)[3].i = "send" /\ Script(o)[4].i = "send"
           /\ Script(o)[5].i = "contact" /\ Script(o)[6].i = "check" /\ Script(o)[7].i = "send" /\ Script(o)[8].i = "query"
           /\ Script(o)[9].i = "send" /\ Script(o)[10].i = "await" /\ Script(o)[11].i = "check"
           /\ Script(o)[12].i = "refresh" /\ Script(o)[13].i = "unlock" /\ Script(o)[2].want = In({"Idle"})
           /\ Script(o)[3].line = Line("G53Z", o.z) /\ Script(o)[4].line = Line("G38", 4)
           /\ (Script(o)[6].ok <=> o.contact = Surface) /\ Script(o)[7].line = Line("G10L20Z", 0)
           /\ Script(o)[8].want = [wz |-> {0}] /\ Script(o)[9].line = Line("G53Z", Retract(o))
           /\ Script(o)[10].want = In({"Idle"}) /\ Script(o)[10].strict /\ Script(o)[10].late = "error"
           /\ (Script(o)[11].ok <=> o.st.z = Retract(o))
<1> DEFINE s == Script(o)
           i1 == Lock(TRUE)
           i2 == Query(In({"Idle"}))
           i3 == Send(Line("G53Z", o.z))
           i4 == Send(Line("G38", 4))
           i5 == Contact
           i6 == Check(o.contact = Surface)
           i7 == Send(Line("G10L20Z", 0))
           i8 == Query([wz |-> {0}])
           i9 == Send(Line("G53Z", Retract(o)))
           i10 == Await(In({"Idle"}), States)
           i11 == Check(o.st.z = Retract(o))
           i12 == Refresh
           i13 == Unlock
<1>1. s = <<i1, i2, i3, i4, i5, i6, i7, i8, i9, i10, i11, i12, i13>>
  <2> DEFINE end == IF o.req.kind = "floor"
                    THEN <<Await(In({"Idle"}), States), Check(o.st.z = Retract(o))>> ELSE <<>>
  <2>1. s = zProbeSetWorkZero(o)
    BY DEF Script
  <2>2. end = <<i10, i11>>
    OBVIOUS
  <2>3. zProbeSetWorkZero(o) = <<i1, i2, i3, i4, i5, i6, i7, i8, i9>> \o end \o <<i12, i13>>
    BY DEF zProbeSetWorkZero
  <2> HIDE DEF s, end, i1, i2, i3, i4, i5, i6, i7, i8, i9, i10, i11, i12, i13
  <2>4. <<i1, i2, i3, i4, i5, i6, i7, i8, i9>> \o <<i10, i11>> = <<i1, i2, i3, i4, i5, i6, i7, i8, i9, i10, i11>>
    BY Cat_9_2
  <2>5. <<i1, i2, i3, i4, i5, i6, i7, i8, i9, i10, i11>> \o <<i12, i13>> = <<i1, i2, i3, i4, i5, i6, i7, i8, i9, i10, i11, i12, i13>>
    BY Cat_11_2
  <2> QED BY <2>1, <2>2, <2>3, <2>4, <2>5, Zenon
<1> HIDE DEF s, i1, i2, i3, i4, i5, i6, i7, i8, i9, i10, i11, i12, i13
<1>2. Len(s) = 13 /\ DOMAIN s = 1..13
  BY <1>1, Tuple13
<1>3. /\ s[1] = Lock(TRUE) /\ s[2] = Query(In({"Idle"})) /\ s[3] = Send(Line("G53Z", o.z))
      /\ s[4] = Send(Line("G38", 4)) /\ s[5] = Contact /\ s[6] = Check(o.contact = Surface)
      /\ s[7] = Send(Line("G10L20Z", 0)) /\ s[8] = Query([wz |-> {0}])
      /\ s[9] = Send(Line("G53Z", Retract(o))) /\ s[10] = Await(In({"Idle"}), States)
      /\ s[11] = Check(o.st.z = Retract(o)) /\ s[12] = Refresh /\ s[13] = Unlock
  BY <1>1, Tuple13 DEF i1, i2, i3, i4, i5, i6, i7, i8, i9, i10, i11, i12, i13
<1>5. Line("G53Z", o.z) \in Lines /\ Line("G38", 4) \in Lines /\ Line("G10L20Z", 0) \in Lines /\ Line("G53Z", Retract(o)) \in Lines
  BY OperationTyped, LineTyped DEF Retract, Larger
<1>6. /\ s[1].i = "lock" /\ s[2].i = "query" /\ s[3].i = "send" /\ s[4].i = "send"
      /\ s[5].i = "contact" /\ s[6].i = "check" /\ s[7].i = "send" /\ s[8].i = "query"
      /\ s[9].i = "send" /\ s[10].i = "await" /\ s[11].i = "check" /\ s[12].i = "refresh"
      /\ s[13].i = "unlock" /\ s[3].line \in Lines /\ s[4].line \in Lines
      /\ s[7].line \in Lines /\ s[9].line \in Lines /\ s[10].strict
  BY <1>3, <1>5 DEF Await, Check, Contact, Lock, Query, Refresh, Send, Unlock
<1>7. \A pc \in Nat : InsideAt(o.req.op, pc) <=> pc > 1
  BY DEF Entry, InsideAt
<1>8. ASSUME o.pc \in 1..13 PROVE Shape(o)
  <2>1. o.pc = 1 \/ o.pc = 2 \/ o.pc = 3 \/ o.pc = 4 \/ o.pc = 5 \/ o.pc = 6 \/ o.pc = 7 \/ o.pc = 8 \/
        o.pc = 9 \/ o.pc = 10 \/ o.pc = 11 \/ o.pc = 12 \/ o.pc = 13
    BY <1>8
  <2> QED BY <2>1, <1>2, <1>6, <1>7 DEF Shape, Talks, Yielding, Inside, s
<1>9. /\ s[2].want = In({"Idle"}) /\ s[3].line = Line("G53Z", o.z)
      /\ s[4].line = Line("G38", 4) /\ s[7].line = Line("G10L20Z", 0)
      /\ s[8].want = [wz |-> {0}] /\ s[9].line = Line("G53Z", Retract(o))
      /\ s[10].want = In({"Idle"}) /\ s[10].strict /\ s[10].late = "error"
  BY <1>3 DEF Await, Query, Send
<1>10. s[6].ok <=> o.contact = Surface
  <2> DEFINE b == o.contact = Surface
  <2>1. s[6] = Check(b)
    BY <1>3
  <2> HIDE DEF b
  <2>2. s[6].ok = b
    BY <2>1 DEF Check
  <2> QED BY <2>2, Zenon DEF b
<1>11. s[11].ok <=> o.st.z = Retract(o)
  <2> DEFINE b == o.st.z = Retract(o)
  <2>1. s[11] = Check(b)
    BY <1>3
  <2> HIDE DEF b
  <2>2. s[11].ok = b
    BY <2>1 DEF Check
  <2> QED BY <2>2, Zenon DEF b
<1> QED BY <1>2, <1>6, <1>9, <1>10, <1>11, <1>8 DEF s

LEMMA Probe3DScript ==
    ASSUME NEW o \in Operations, o.req.op = "probe3d"
    PROVE  /\ Len(Script(o)) = 6 /\ DOMAIN Script(o) = 1..6
           /\ o.pc \in 1..6 => Shape(o)
           /\ Script(o)[1].i = "lock" /\ Script(o)[2].i = "query" /\ Script(o)[3].i = "check" /\ Script(o)[4].i = "send"
           /\ Script(o)[5].i = "refresh" /\ Script(o)[6].i = "unlock"
           /\ Script(o)[2].want = [state |-> {"Idle"}, tool |-> {Probe3DTool}]
           /\ (Script(o)[3].ok <=> probe3DInitialPosition(o) \in Limits)
           /\ Script(o)[4].line = Line("M480", probe3DInitialPosition(o))
<1> DEFINE s == Script(o)
<1>1. s = <<Lock(TRUE), Query([state |-> {"Idle"}, tool |-> {Probe3DTool}]),
            Check(probe3DInitialPosition(o) \in Limits),
            Send(Line("M480", probe3DInitialPosition(o))), Refresh, Unlock>>
  BY DEF Script, Probe3D
<1> HIDE DEF s
<1>2. Len(s) = 6 /\ DOMAIN s = 1..6
  BY <1>1, Tuple6
<1>3. /\ s[1] = Lock(TRUE) /\ s[2] = Query([state |-> {"Idle"}, tool |-> {Probe3DTool}])
      /\ s[3] = Check(probe3DInitialPosition(o) \in Limits)
      /\ s[4] = Send(Line("M480", probe3DInitialPosition(o))) /\ s[5] = Refresh
      /\ s[6] = Unlock
  BY <1>1, Tuple6
<1>5. Line("M480", probe3DInitialPosition(o)) \in Lines
  BY OperationTyped, LineTyped DEF probe3DInitialPosition
<1>6. /\ s[1].i = "lock" /\ s[2].i = "query" /\ s[3].i = "check" /\ s[4].i = "send"
      /\ s[5].i = "refresh" /\ s[6].i = "unlock" /\ s[4].line \in Lines
  BY <1>3, <1>5 DEF Check, Lock, Query, Refresh, Send, Unlock
<1>7. \A pc \in Nat : InsideAt(o.req.op, pc) <=> pc > 1
  BY DEF Entry, InsideAt
<1>8. ASSUME o.pc \in 1..6 PROVE Shape(o)
  <2>1. o.pc = 1 \/ o.pc = 2 \/ o.pc = 3 \/ o.pc = 4 \/ o.pc = 5 \/ o.pc = 6
    BY <1>8
  <2> QED BY <2>1, <1>2, <1>6, <1>7 DEF Shape, Talks, Yielding, Inside, s
<1>9. /\ s[2].want = [state |-> {"Idle"}, tool |-> {Probe3DTool}]
      /\ s[4].line = Line("M480", probe3DInitialPosition(o))
  BY <1>3 DEF Query, Send
<1>10. s[3].ok <=> probe3DInitialPosition(o) \in Limits
  <2> DEFINE b == probe3DInitialPosition(o) \in Limits
  <2>1. s[3] = Check(b)
    BY <1>3
  <2> HIDE DEF b
  <2>2. s[3].ok = b
    BY <2>1 DEF Check
  <2> QED BY <2>2, Zenon DEF b
<1> QED BY <1>2, <1>6, <1>9, <1>10, <1>8 DEF s

LEMMA SetToolScript ==
    ASSUME NEW o \in Operations, o.req.op = "set_tool"
    PROVE  /\ Len(Script(o)) = 5 /\ DOMAIN Script(o) = 1..5
           /\ o.pc \in 1..5 => Shape(o)
<1> DEFINE s == Script(o)
<1>1. s = <<Check(validCurrentToolID(o.req.v)), Lock(TRUE), Send(Line("M493", o.req.v)),
            Refresh, Unlock>>
  BY Cat_1_4 DEF Script, SetCurrentToolID, sendToolMachineAction
<1> HIDE DEF s
<1>2. Len(s) = 5 /\ DOMAIN s = 1..5
  BY <1>1, Tuple5
<1>3. /\ s[1] = Check(validCurrentToolID(o.req.v)) /\ s[2] = Lock(TRUE)
      /\ s[3] = Send(Line("M493", o.req.v)) /\ s[4] = Refresh /\ s[5] = Unlock
  BY <1>1, Tuple5
<1>5. Line("M493", o.req.v) \in Lines
  BY LineTyped, OperationTyped
<1>6. /\ s[1].i = "check" /\ s[2].i = "lock" /\ s[3].i = "send" /\ s[4].i = "refresh"
      /\ s[5].i = "unlock" /\ s[3].line \in Lines
  BY <1>3, <1>5 DEF Check, Lock, Refresh, Send, Unlock
<1>7. \A pc \in Nat : InsideAt(o.req.op, pc) <=> pc > 2
  BY DEF Entry, InsideAt
<1>8. ASSUME o.pc \in 1..5 PROVE Shape(o)
  <2>1. o.pc = 1 \/ o.pc = 2 \/ o.pc = 3 \/ o.pc = 4 \/ o.pc = 5
    BY <1>8
  <2> QED BY <2>1, <1>2, <1>6, <1>7 DEF Shape, Talks, Yielding, Inside, s
<1> QED BY <1>2, <1>8 DEF s

LEMMA ChangeToolScript ==
    ASSUME NEW o \in Operations, o.req.op = "change_tool"
    PROVE  /\ Len(Script(o)) = 5 /\ DOMAIN Script(o) = 1..5
           /\ o.pc \in 1..5 => Shape(o)
<1> DEFINE s == Script(o)
<1>1. s = <<Check(validChangeToolID(o.req.v)), Lock(TRUE), Send(Line("M6", o.req.v)), Refresh,
            Unlock>>
  BY Cat_1_4 DEF Script, ChangeTool, sendToolMachineAction
<1> HIDE DEF s
<1>2. Len(s) = 5 /\ DOMAIN s = 1..5
  BY <1>1, Tuple5
<1>3. /\ s[1] = Check(validChangeToolID(o.req.v)) /\ s[2] = Lock(TRUE)
      /\ s[3] = Send(Line("M6", o.req.v)) /\ s[4] = Refresh /\ s[5] = Unlock
  BY <1>1, Tuple5
<1>5. Line("M6", o.req.v) \in Lines
  BY LineTyped, OperationTyped
<1>6. /\ s[1].i = "check" /\ s[2].i = "lock" /\ s[3].i = "send" /\ s[4].i = "refresh"
      /\ s[5].i = "unlock" /\ s[3].line \in Lines
  BY <1>3, <1>5 DEF Check, Lock, Refresh, Send, Unlock
<1>7. \A pc \in Nat : InsideAt(o.req.op, pc) <=> pc > 2
  BY DEF Entry, InsideAt
<1>8. ASSUME o.pc \in 1..5 PROVE Shape(o)
  <2>1. o.pc = 1 \/ o.pc = 2 \/ o.pc = 3 \/ o.pc = 4 \/ o.pc = 5
    BY <1>8
  <2> QED BY <2>1, <1>2, <1>6, <1>7 DEF Shape, Talks, Yielding, Inside, s
<1> QED BY <1>2, <1>8 DEF s

LEMMA DropToolScript ==
    ASSUME NEW o \in Operations, o.req.op = "drop_tool"
    PROVE  /\ Len(Script(o)) = 4 /\ DOMAIN Script(o) = 1..4
           /\ o.pc \in 1..4 => Shape(o)
<1> DEFINE s == Script(o)
<1>1. s = <<Lock(TRUE), Send(Line("M6", NoTool)), Refresh, Unlock>>
  BY DEF Script, DropCurrentTool, sendToolMachineAction
<1> HIDE DEF s
<1>2. Len(s) = 4 /\ DOMAIN s = 1..4
  BY <1>1, Tuple4
<1>3. /\ s[1] = Lock(TRUE) /\ s[2] = Send(Line("M6", NoTool)) /\ s[3] = Refresh
      /\ s[4] = Unlock
  BY <1>1, Tuple4
<1>5. Line("M6", NoTool) \in Lines
  BY LineTyped, FirmwareAssumption
<1>6. /\ s[1].i = "lock" /\ s[2].i = "send" /\ s[3].i = "refresh" /\ s[4].i = "unlock"
      /\ s[2].line \in Lines
  BY <1>3, <1>5 DEF Lock, Refresh, Send, Unlock
<1>7. \A pc \in Nat : InsideAt(o.req.op, pc) <=> pc > 1
  BY DEF Entry, InsideAt
<1>8. ASSUME o.pc \in 1..4 PROVE Shape(o)
  <2>1. o.pc = 1 \/ o.pc = 2 \/ o.pc = 3 \/ o.pc = 4
    BY <1>8
  <2> QED BY <2>1, <1>2, <1>6, <1>7 DEF Shape, Talks, Yielding, Inside, s
<1> QED BY <1>2, <1>8 DEF s

LEMMA CalibrateScript ==
    ASSUME NEW o \in Operations, o.req.op = "calibrate_tool"
    PROVE  /\ Len(Script(o)) = 4 /\ DOMAIN Script(o) = 1..4
           /\ o.pc \in 1..4 => Shape(o)
<1> DEFINE s == Script(o)
<1>1. s = <<Lock(TRUE), Send(Line("M491", 0)), Refresh, Unlock>>
  BY DEF Script, CalibrateCurrentTool, sendToolMachineAction
<1> HIDE DEF s
<1>2. Len(s) = 4 /\ DOMAIN s = 1..4
  BY <1>1, Tuple4
<1>3. /\ s[1] = Lock(TRUE) /\ s[2] = Send(Line("M491", 0)) /\ s[3] = Refresh /\ s[4] = Unlock
  BY <1>1, Tuple4
<1>5. Line("M491", 0) \in Lines
  BY LineTyped, FirmwareAssumption
<1>6. /\ s[1].i = "lock" /\ s[2].i = "send" /\ s[3].i = "refresh" /\ s[4].i = "unlock"
      /\ s[2].line \in Lines
  BY <1>3, <1>5 DEF Lock, Refresh, Send, Unlock
<1>7. \A pc \in Nat : InsideAt(o.req.op, pc) <=> pc > 1
  BY DEF Entry, InsideAt
<1>8. ASSUME o.pc \in 1..4 PROVE Shape(o)
  <2>1. o.pc = 1 \/ o.pc = 2 \/ o.pc = 3 \/ o.pc = 4
    BY <1>8
  <2> QED BY <2>1, <1>2, <1>6, <1>7 DEF Shape, Talks, Yielding, Inside, s
<1> QED BY <1>2, <1>8 DEF s

LEMMA ContinueScript ==
    ASSUME NEW o \in Operations, o.req.op = "continue"
    PROVE  /\ Len(Script(o)) = 5 /\ DOMAIN Script(o) = 1..5
           /\ o.pc \in 1..5 => Shape(o)
<1> DEFINE s == Script(o)
<1>1. s = <<Lock(FALSE), Query(In({"Tool"})), Send(Line("M490", 0)), Refresh, Unlock>>
  BY DEF Script, ContinueToolChange, sendToolContinueAction
<1> HIDE DEF s
<1>2. Len(s) = 5 /\ DOMAIN s = 1..5
  BY <1>1, Tuple5
<1>3. /\ s[1] = Lock(FALSE) /\ s[2] = Query(In({"Tool"})) /\ s[3] = Send(Line("M490", 0))
      /\ s[4] = Refresh /\ s[5] = Unlock
  BY <1>1, Tuple5
<1>5. Line("M490", 0) \in Lines
  BY LineTyped, FirmwareAssumption
<1>6. /\ s[1].i = "lock" /\ s[2].i = "query" /\ s[3].i = "send" /\ s[4].i = "refresh"
      /\ s[5].i = "unlock" /\ s[3].line \in Lines
  BY <1>3, <1>5 DEF Lock, Query, Refresh, Send, Unlock
<1>7. \A pc \in Nat : InsideAt(o.req.op, pc) <=> pc > 1
  BY DEF Entry, InsideAt
<1>8. ASSUME o.pc \in 1..5 PROVE Shape(o)
  <2>1. o.pc = 1 \/ o.pc = 2 \/ o.pc = 3 \/ o.pc = 4 \/ o.pc = 5
    BY <1>8
  <2> QED BY <2>1, <1>2, <1>6, <1>7 DEF Shape, Talks, Yielding, Inside, s
<1> QED BY <1>2, <1>8 DEF s

LEMMA UnlockTwiceScript ==
    ASSUME NEW o \in Operations, o.req.op = "recover",
           ByUnlock(o), o.st.state = "Alarm" \/ o.pc > 6
    PROVE  /\ Len(Script(o)) = 9 /\ DOMAIN Script(o) = 1..9
           /\ o.pc \in 1..9 => Shape(o)
<1> DEFINE s == Script(o)
           i1 == Learn
           i2 == Check(RecoveryAllowed(o))
           i3 == Lock(FALSE)
           i4 == Send(Line("$X", 0))
           i5 == Query(Anything)
           i6 == Check(o.code = 10)
           i7 == Send(Line("M999", 0))
           i8 == Query(NotAlarm)
           i9 == Unlock
<1>1. s = <<i1, i2, i3, i4, i5, i6, i7, i8, i9>>
  <2>1. s = RecoverAlarm(o)
    BY DEF Script
  <2>2. RecoverAlarm(o) = <<i1, i2>> \o recoverAlarmUnlock(o)
    BY OperationTyped DEF Kinds, RecoverAlarm, recoverAlarmGuided, ByUnlock
  <2>3. recoverAlarmUnlock(o) = <<i3, i4, i5, i6, i7, i8, i9>>
    BY DEF recoverAlarmUnlock, runRecoveryCommand
  <2> HIDE DEF s, i1, i2, i3, i4, i5, i6, i7, i8, i9
  <2>4. <<i1, i2>> \o <<i3, i4, i5, i6, i7, i8, i9>> = <<i1, i2, i3, i4, i5, i6, i7, i8, i9>>
    BY Cat_2_7
  <2> QED BY <2>1, <2>2, <2>3, <2>4, Zenon
<1> HIDE DEF s, i1, i2, i3, i4, i5, i6, i7, i8, i9
<1>2. Len(s) = 9 /\ DOMAIN s = 1..9
  BY <1>1, Tuple9
<1>3. /\ s[1] = Learn /\ s[2] = Check(RecoveryAllowed(o)) /\ s[3] = Lock(FALSE)
      /\ s[4] = Send(Line("$X", 0)) /\ s[5] = Query(Anything) /\ s[6] = Check(o.code = 10)
      /\ s[7] = Send(Line("M999", 0)) /\ s[8] = Query(NotAlarm) /\ s[9] = Unlock
  BY <1>1, Tuple9 DEF i1, i2, i3, i4, i5, i6, i7, i8, i9
<1>5. Line("$X", 0) \in Lines /\ Line("M999", 0) \in Lines
  BY LineTyped
<1>6. /\ s[1].i = "learn" /\ s[2].i = "check" /\ s[3].i = "lock" /\ s[4].i = "send"
      /\ s[5].i = "query" /\ s[6].i = "check" /\ s[7].i = "send" /\ s[8].i = "query"
      /\ s[9].i = "unlock" /\ s[4].line \in Lines /\ s[7].line \in Lines
  BY <1>3, <1>5 DEF Check, Learn, Lock, Query, Send, Unlock
<1>7. \A pc \in Nat : InsideAt(o.req.op, pc) <=> pc > 3
  BY DEF Entry, InsideAt
<1>8. ASSUME o.pc \in 1..9 PROVE Shape(o)
  <2>1. o.pc = 1 \/ o.pc = 2 \/ o.pc = 3 \/ o.pc = 4 \/ o.pc = 5 \/ o.pc = 6 \/ o.pc = 7 \/ o.pc = 8 \/ o.pc = 9
    BY <1>8
  <2> QED BY <2>1, <1>2, <1>6, <1>7 DEF Shape, Talks, Yielding, Inside, s
<1> QED BY <1>2, <1>8 DEF s

LEMMA UnlockOnceScript ==
    ASSUME NEW o \in Operations, o.req.op = "recover",
           ByUnlock(o), ~(o.st.state = "Alarm" \/ o.pc > 6)
    PROVE  /\ Len(Script(o)) = 6 /\ DOMAIN Script(o) = 1..6
           /\ o.pc \in 1..6 => Shape(o)
<1> DEFINE s == Script(o)
           i1 == Learn
           i2 == Check(RecoveryAllowed(o))
           i3 == Lock(FALSE)
           i4 == Send(Line("$X", 0))
           i5 == Query(Anything)
           i6 == Unlock
<1>1. s = <<i1, i2, i3, i4, i5, i6>>
  <2>1. s = RecoverAlarm(o)
    BY DEF Script
  <2>2. RecoverAlarm(o) = <<i1, i2>> \o recoverAlarmUnlock(o)
    BY OperationTyped DEF Kinds, RecoverAlarm, recoverAlarmGuided, ByUnlock
  <2>3. recoverAlarmUnlock(o) = <<i3, i4, i5, i6>>
    BY DEF recoverAlarmUnlock, runRecoveryCommand
  <2> HIDE DEF s, i1, i2, i3, i4, i5, i6
  <2>4. <<i1, i2>> \o <<i3, i4, i5, i6>> = <<i1, i2, i3, i4, i5, i6>>
    BY Cat_2_4
  <2> QED BY <2>1, <2>2, <2>3, <2>4, Zenon
<1> HIDE DEF s, i1, i2, i3, i4, i5, i6
<1>2. Len(s) = 6 /\ DOMAIN s = 1..6
  BY <1>1, Tuple6
<1>3. /\ s[1] = Learn /\ s[2] = Check(RecoveryAllowed(o)) /\ s[3] = Lock(FALSE)
      /\ s[4] = Send(Line("$X", 0)) /\ s[5] = Query(Anything) /\ s[6] = Unlock
  BY <1>1, Tuple6 DEF i1, i2, i3, i4, i5, i6
<1>5. Line("$X", 0) \in Lines
  BY LineTyped
<1>6. /\ s[1].i = "learn" /\ s[2].i = "check" /\ s[3].i = "lock" /\ s[4].i = "send"
      /\ s[5].i = "query" /\ s[6].i = "unlock" /\ s[4].line \in Lines
  BY <1>3, <1>5 DEF Check, Learn, Lock, Query, Send, Unlock
<1>7. \A pc \in Nat : InsideAt(o.req.op, pc) <=> pc > 3
  BY DEF Entry, InsideAt
<1>8. ASSUME o.pc \in 1..6 PROVE Shape(o)
  <2>1. o.pc = 1 \/ o.pc = 2 \/ o.pc = 3 \/ o.pc = 4 \/ o.pc = 5 \/ o.pc = 6
    BY <1>8
  <2> QED BY <2>1, <1>2, <1>6, <1>7 DEF Shape, Talks, Yielding, Inside, s
<1> QED BY <1>2, <1>8 DEF s

LEMMA HomeScript ==
    ASSUME NEW o \in Operations, o.req.op = "recover",
           o.req.kind = "home"
    PROVE  /\ Len(Script(o)) = 6 /\ DOMAIN Script(o) = 1..6
           /\ o.pc \in 1..6 => Shape(o)
<1> DEFINE s == Script(o)
           i1 == Learn
           i2 == Check(RecoveryAllowed(o))
           i3 == Lock(FALSE)
           i4 == Send(Line("$H", 0))
           i5 == Query(NotAlarm)
           i6 == Unlock
<1>1. s = <<i1, i2, i3, i4, i5, i6>>
  <2>1. s = RecoverAlarm(o)
    BY DEF Script
  <2>2. RecoverAlarm(o) = <<i1, i2>> \o recoverAlarmHome(o)
    BY OperationTyped DEF Kinds, RecoverAlarm, recoverAlarmGuided, ByUnlock
  <2>3. recoverAlarmHome(o) = <<i3, i4, i5, i6>>
    BY DEF recoverAlarmHome, runRecoveryCommand
  <2> HIDE DEF s, i1, i2, i3, i4, i5, i6
  <2>4. <<i1, i2>> \o <<i3, i4, i5, i6>> = <<i1, i2, i3, i4, i5, i6>>
    BY Cat_2_4
  <2> QED BY <2>1, <2>2, <2>3, <2>4, Zenon
<1> HIDE DEF s, i1, i2, i3, i4, i5, i6
<1>2. Len(s) = 6 /\ DOMAIN s = 1..6
  BY <1>1, Tuple6
<1>3. /\ s[1] = Learn /\ s[2] = Check(RecoveryAllowed(o)) /\ s[3] = Lock(FALSE)
      /\ s[4] = Send(Line("$H", 0)) /\ s[5] = Query(NotAlarm) /\ s[6] = Unlock
  BY <1>1, Tuple6 DEF i1, i2, i3, i4, i5, i6
<1>5. Line("$H", 0) \in Lines
  BY LineTyped
<1>6. /\ s[1].i = "learn" /\ s[2].i = "check" /\ s[3].i = "lock" /\ s[4].i = "send"
      /\ s[5].i = "query" /\ s[6].i = "unlock" /\ s[4].line \in Lines
  BY <1>3, <1>5 DEF Check, Learn, Lock, Query, Send, Unlock
<1>7. \A pc \in Nat : InsideAt(o.req.op, pc) <=> pc > 3
  BY DEF Entry, InsideAt
<1>8. ASSUME o.pc \in 1..6 PROVE Shape(o)
  <2>1. o.pc = 1 \/ o.pc = 2 \/ o.pc = 3 \/ o.pc = 4 \/ o.pc = 5 \/ o.pc = 6
    BY <1>8
  <2> QED BY <2>1, <1>2, <1>6, <1>7 DEF Shape, Talks, Yielding, Inside, s
<1> QED BY <1>2, <1>8 DEF s

LEMMA ResetScript ==
    ASSUME NEW o \in Operations, o.req.op = "recover",
           ~ByUnlock(o), o.req.kind # "home"
    PROVE  /\ Len(Script(o)) = 5 /\ DOMAIN Script(o) = 1..5
           /\ o.pc \in 1..5 => Shape(o)
<1> DEFINE s == Script(o)
           i1 == Learn
           i2 == Check(RecoveryAllowed(o))
           i3 == Lock(FALSE)
           i4 == Send(Line("reset", 0))
           i5 == Unlock
<1>1. s = <<i1, i2, i3, i4, i5>>
  <2>1. s = RecoverAlarm(o)
    BY DEF Script
  <2>2. RecoverAlarm(o) = <<i1, i2>> \o recoverAlarmReset(o)
    BY OperationTyped DEF Kinds, RecoverAlarm, recoverAlarmGuided, ByUnlock
  <2>3. recoverAlarmReset(o) = <<i3, i4, i5>>
    BY DEF recoverAlarmReset, runRecoveryCommand
  <2> HIDE DEF s, i1, i2, i3, i4, i5
  <2>4. <<i1, i2>> \o <<i3, i4, i5>> = <<i1, i2, i3, i4, i5>>
    BY Cat_2_3
  <2> QED BY <2>1, <2>2, <2>3, <2>4, Zenon
<1> HIDE DEF s, i1, i2, i3, i4, i5
<1>2. Len(s) = 5 /\ DOMAIN s = 1..5
  BY <1>1, Tuple5
<1>3. /\ s[1] = Learn /\ s[2] = Check(RecoveryAllowed(o)) /\ s[3] = Lock(FALSE)
      /\ s[4] = Send(Line("reset", 0)) /\ s[5] = Unlock
  BY <1>1, Tuple5 DEF i1, i2, i3, i4, i5
<1>5. Line("reset", 0) \in Lines
  BY LineTyped
<1>6. /\ s[1].i = "learn" /\ s[2].i = "check" /\ s[3].i = "lock" /\ s[4].i = "send"
      /\ s[5].i = "unlock" /\ s[4].line \in Lines
  BY <1>3, <1>5 DEF Check, Learn, Lock, Send, Unlock
<1>7. \A pc \in Nat : InsideAt(o.req.op, pc) <=> pc > 3
  BY DEF Entry, InsideAt
<1>8. ASSUME o.pc \in 1..5 PROVE Shape(o)
  <2>1. o.pc = 1 \/ o.pc = 2 \/ o.pc = 3 \/ o.pc = 4 \/ o.pc = 5
    BY <1>8
  <2> QED BY <2>1, <1>2, <1>6, <1>7 DEF Shape, Talks, Yielding, Inside, s
<1> QED BY <1>2, <1>8 DEF s

\* A script of its own for each method and kind of request.
LEMMA MethodOf ==
    ASSUME NEW o \in Operations
    PROVE  o.req.op \in {"pause", "resume", "feed", "vacuum", "probe", "trace", "probe3d", "set_tool",
            "change_tool", "drop_tool", "calibrate_tool", "continue", "paused", "gcode", "origin", "zero", "recover"}
<1>1. o.req.op \in AllMethods
  BY OperationTyped
<1> QED BY <1>1 DEF AllMethods, Methods

\* How long the script of an operation is.
Length(o) ==
    CASE o.req.op \in {"change_tool", "set_tool", "pause", "resume", "feed", "continue"} -> 5
      [] o.req.op \in {"drop_tool", "calibrate_tool", "vacuum", "origin"} -> 4
      [] o.req.op \in {"paused", "probe3d"} -> 6
      [] o.req.op = "gcode" -> IF o.req.kind = "G38" THEN 5 ELSE 4
      [] o.req.op = "probe" -> 12
      [] o.req.op = "trace" -> 11
      [] o.req.op = "zero" -> IF o.req.kind = "floor" THEN 13 ELSE 11
      [] OTHER -> 0

LEMMA ScriptFits ==
    ASSUME NEW o \in Operations
    PROVE  /\ DOMAIN Script(o) = 1..Len(Script(o)) /\ Len(Script(o)) \in Nat
           /\ o.pc \in DOMAIN Script(o) => Shape(o)
           /\ o.req.op # "recover" => Len(Script(o)) = Length(o)
           /\ o.req.op = "recover" => Len(Script(o)) >= 5
<1>1. CASE o.req.op = "pause"
  BY <1>1, PauseScript DEF Length
<1>2. CASE o.req.op = "resume"
  BY <1>2, ResumeScript DEF Length
<1>3. CASE o.req.op = "paused"
  BY <1>3, PausedScript DEF Length
<1>4. CASE o.req.op = "feed"
  BY <1>4, FeedScript DEF Length
<1>5. CASE o.req.op = "vacuum"
  BY <1>5, VacuumScript DEF Length
<1>6. CASE o.req.op = "origin"
  BY <1>6, OriginScript DEF Length
<1>7. CASE o.req.op = "probe"
  BY <1>7, ProbeScript DEF Length
<1>8. CASE o.req.op = "trace"
  BY <1>8, TraceScript DEF Length
<1>9. CASE o.req.op = "probe3d"
  BY <1>9, Probe3DScript DEF Length
<1>10. CASE o.req.op = "set_tool"
  BY <1>10, SetToolScript DEF Length
<1>11. CASE o.req.op = "change_tool"
  BY <1>11, ChangeToolScript DEF Length
<1>12. CASE o.req.op = "drop_tool"
  BY <1>12, DropToolScript DEF Length
<1>13. CASE o.req.op = "calibrate_tool"
  BY <1>13, CalibrateScript DEF Length
<1>14. CASE o.req.op = "continue"
  BY <1>14, ContinueScript DEF Length
<1>15. CASE o.req.op = "gcode" /\ o.req.kind = "G38"
  BY <1>15, ProbeLineScript DEF Length
<1>16. CASE o.req.op = "gcode" /\ o.req.kind # "G38"
  BY <1>16, GcodeScript DEF Length
<1>17. CASE o.req.op = "zero" /\ o.req.kind = "floor"
  BY <1>17, FloorScript DEF Length
<1>18. CASE o.req.op = "zero" /\ o.req.kind # "floor"
  BY <1>18, AutoScript DEF Length
<1>19. CASE o.req.op = "recover"
  <2>1. CASE ByUnlock(o) /\ (o.st.state = "Alarm" \/ o.pc > 6)
    BY <1>19, <2>1, UnlockTwiceScript
  <2>2. CASE ByUnlock(o) /\ ~(o.st.state = "Alarm" \/ o.pc > 6)
    BY <1>19, <2>2, UnlockOnceScript
  <2>3. CASE o.req.kind = "home"
    BY <1>19, <2>3, HomeScript
  <2>4. CASE ~ByUnlock(o) /\ o.req.kind # "home"
    <3>1. ~ByUnlock(o) /\ o.req.kind # "home"
      BY <2>4
    <3>2. Len(Script(o)) = 5 /\ DOMAIN Script(o) = 1..5 /\ (o.pc \in 1..5 => Shape(o))
      BY <1>19, <3>1, ResetScript DEF ByUnlock
    <3> QED BY <1>19, <3>2
  <2> QED BY <2>1, <2>2, <2>3, <2>4
<1> QED BY <1>1, <1>2, <1>3, <1>4, <1>5, <1>6, <1>7, <1>8, <1>9, <1>10, <1>11, <1>12, <1>13, <1>14, <1>15, <1>16, <1>17, <1>18, <1>19, MethodOf

\* The next instruction is there: what an operation learns meanwhile changes
\* its script only where a recovery has not come yet.
LEMMA ScriptGoes ==
    ASSUME NEW o \in Operations, NEW p \in Operations, o.pc \in DOMAIN Script(o),
           o.pc < Len(Script(o)), p.req = o.req, p.pc = o.pc + 1, p.code = o.code \/ o.pc = 1
    PROVE  /\ p.pc \in DOMAIN Script(p)
           /\ Yielding(Script(o)[o.pc]) => Script(p)[p.pc].i = "unlock"
<1>0. o.pc \in Nat /\ p.pc \in Nat
  BY OperationTyped
<1>1. Shape(o)
  BY ScriptFits
<1>2. CASE o.req.op # "recover"
  <2>1. Len(Script(p)) = Len(Script(o))
    BY <1>2, ScriptFits DEF Length
  <2>2. p.pc \in DOMAIN Script(p)
    BY <1>0, <2>1, ScriptFits
  <2>3. Shape(p)
    BY <2>2, ScriptFits
  <2>4. Yielding(Script(o)[o.pc]) => p.pc = Len(Script(p))
    BY <1>1, <2>1 DEF Shape
  <2>5. p.pc = Len(Script(p)) => Script(p)[p.pc].i = "unlock"
    BY <2>3 DEF Shape
  <2> QED BY <2>2, <2>4, <2>5
<1>3. CASE o.req.op = "recover"
  <2>1. ~Yielding(Script(o)[o.pc])
    BY <1>1, <1>3 DEF Shape
  <2>2. Len(Script(p)) >= 5 /\ DOMAIN Script(p) = 1..Len(Script(p))
    BY <1>3, ScriptFits
  <2>3. p.pc <= Len(Script(p))
    <3>1. CASE o.pc <= 4
      BY <1>0, <2>2, <3>1
    <3>2. CASE o.pc > 4 /\ o.req.kind = "home"
      BY <1>3, <3>2, HomeScript, <1>0
    <3>3. CASE o.pc > 4 /\ o.req.kind # "home" /\ ~ByUnlock(o)
      BY <1>3, <3>3, ResetScript, <1>0 DEF ByUnlock
    <3>4. CASE o.pc > 4 /\ ByUnlock(o)
      <4>1. ByUnlock(p)
        BY <1>0, <3>4 DEF ByUnlock
      <4>2. Len(Script(p)) = 9 \/ (Len(Script(p)) = 6 /\ p.pc <= 6)
        <5>1. CASE p.st.state = "Alarm" \/ p.pc > 6
          BY <1>3, <4>1, <5>1, UnlockTwiceScript
        <5>2. CASE ~(p.st.state = "Alarm" \/ p.pc > 6)
          BY <1>3, <4>1, <5>2, UnlockOnceScript
        <5> QED BY <5>1, <5>2
      <4>3. Len(Script(o)) = 9 \/ Len(Script(o)) = 6
        <5>1. CASE o.st.state = "Alarm" \/ o.pc > 6
          BY <1>3, <3>4, <5>1, UnlockTwiceScript
        <5>2. CASE ~(o.st.state = "Alarm" \/ o.pc > 6)
          BY <1>3, <3>4, <5>2, UnlockOnceScript
        <5> QED BY <5>1, <5>2
      <4>4. o.pc < 9 /\ p.pc = o.pc + 1
        <5> DEFINE n == Len(Script(o))
        <5>1. n \in Nat /\ o.pc < n /\ n <= 9
          <6> HIDE DEF n
          <6>1. n = 9 \/ n = 6
            BY <4>3 DEF n
          <6>2. o.pc < n
            BY DEF n
          <6> QED BY <6>1, <6>2
        <5> HIDE DEF n
        <5> QED BY <1>0, <5>1
      <4>5. p.pc <= 9
        BY <1>0, <4>4
      <4> QED BY <4>2, <4>5
    <3> QED BY <1>0, <3>1, <3>2, <3>3, <3>4
  <2> QED BY <1>0, <2>1, <2>2, <2>3
<1> QED BY <1>2, <1>3

-----------------------------------------------------------------------------
(* What a step does to the queue and to the alarm.                          *)

\* Position, origin and queue are left alone.
Still(f, g) == g.motion = f.motion /\ g.m = f.m /\ g.w = f.w
\* Hold, program, suspension and halt are left alone.
SameFlags(f, g) ==
    /\ g.held = f.held /\ g.resumeTo = f.resumeTo /\ g.program = f.program
    /\ g.suspended = f.suspended /\ g.halt = f.halt

\* A machine in Alarm, or one that a resume takes back to it, stands still and
\* has a reason; where lines are not refused in Alarm, a held one may have moves.
SoundAlarm(f, locks) ==
    /\ f.state = "Alarm" =>
         f.halt # 0 /\ f.motion = <<>> /\ ~f.program /\ ~f.suspended /\ ~f.held
    /\ f.held /\ f.resumeTo = "Alarm" =>
         f.halt # 0 /\ ~f.program /\ ~f.suspended /\ (locks => f.motion = <<>>)

LEMMA EndIs ==
    ASSUME NEW f
    PROVE  /\ f.motion = <<>> => End(f).m = f.m /\ End(f).w = f.w
           /\ f.motion # <<>> => /\ End(f).m = f.motion[Len(f.motion)].m
                                 /\ End(f).w = f.motion[Len(f.motion)].w
  BY DEF End

\* What a machine with time to itself does.
LEMMA TimePasses ==
    ASSUME NEW bys, NEW f \in Machines(bys)
    PROVE  /\ Still(f, statusAt(f)) /\ SameFlags(f, statusAt(f))
           /\ statusAt(f).state = "Alarm" => f.state = "Alarm"
           /\ statusAt(f).state = "Idle" =>
                f.motion = <<>> /\ ~f.program /\ ~f.held /\ ~f.suspended /\ f.state = "Idle"
           /\ statusAt(f).state = "Run" => f.state # "Alarm" \/ f.program \/ f.motion # <<>>
           /\ Still(f, advanceMotion(f)) /\ SameFlags(f, advanceMotion(f))
           /\ advanceMotion(f).state = (IF f.motion # <<>> THEN "Run" ELSE f.state)
           /\ Still(f, advanceProgram(f)) /\ advanceProgram(f).held = f.held
           /\ advanceProgram(f).resumeTo = f.resumeTo /\ advanceProgram(f).suspended = f.suspended
           /\ advanceProgram(f).halt = f.halt /\ ~advanceProgram(f).program
           /\ advanceProgram(f).state \in {f.state, "Idle"}
<1>1. /\ Still(f, advanceMotion(f)) /\ SameFlags(f, advanceMotion(f))
      /\ advanceMotion(f).state = (IF f.motion # <<>> THEN "Run" ELSE f.state)
  BY DEF advanceMotion, Machines, Still, SameFlags
<1>2. /\ Still(f, statusAt(f)) /\ SameFlags(f, statusAt(f))
  BY <1>1 DEF statusAt, Machines, Still, SameFlags
<1>3. statusAt(f).state = (IF f.held THEN "Hold" ELSE IF f.suspended THEN "Pause"
                           ELSE IF f.program \/ f.motion # <<>> THEN "Run" ELSE f.state)
  BY <1>1 DEF statusAt, Machines
<1>4. /\ Still(f, advanceProgram(f)) /\ advanceProgram(f).held = f.held
      /\ advanceProgram(f).resumeTo = f.resumeTo /\ advanceProgram(f).suspended = f.suspended
      /\ advanceProgram(f).halt = f.halt /\ ~advanceProgram(f).program
      /\ advanceProgram(f).state \in {f.state, "Idle"}
  BY DEF advanceProgram, Machines, Still
<1> QED BY <1>1, <1>2, <1>3, <1>4

LEMMA MoveEndsIs ==
    ASSUME NEW bys, NEW f \in Machines(bys), f.motion # <<>>
    PROVE  /\ MoveEnds(f).motion = Tail(f.motion)
           /\ MoveEnds(f).m = f.motion[1].m /\ MoveEnds(f).w = f.motion[1].w
           /\ SameFlags(f, MoveEnds(f))
           /\ MoveEnds(f).state \in {f.state, "Run", "Idle"}
<1> DEFINE s == Head(f.motion)
           r == Tail(f.motion)
<1>1. s = f.motion[1]
  BY HeadTailProperties DEF Machines
<1> HIDE DEF s, r
<1>2. MoveEnds(f) =
        [f EXCEPT !.motion = r, !.m = s.m, !.w = s.w,
                  !.state = CASE r # <<>> -> "Run"
                              [] r = <<>> /\ f.state = "Run" /\ ~f.program -> "Idle"
                              [] OTHER -> f.state]
  BY DEF MoveEnds, s, r
<1>3. /\ MoveEnds(f).motion = r /\ MoveEnds(f).m = s.m /\ MoveEnds(f).w = s.w
      /\ SameFlags(f, MoveEnds(f)) /\ MoveEnds(f).state \in {f.state, "Run", "Idle"}
  BY <1>2 DEF Machines, SameFlags
<1> QED BY <1>1, <1>3 DEF s, r

LEMMA StoppedIs ==
    ASSUME NEW bys, NEW f \in Machines(bys)
    PROVE  /\ Stopped(f) \in Machines(bys)
           /\ Stopped(f).motion = <<>> /\ ~Stopped(f).program /\ ~Stopped(f).suspended
           /\ Stopped(f).m = f.m /\ Stopped(f).w = f.w /\ Stopped(f).held = f.held
           /\ Stopped(f).resumeTo = f.resumeTo /\ Stopped(f).halt = f.halt
<1>1. <<>> \in Seq(MovesBy(bys))
  OBVIOUS
<1> QED BY <1>1 DEF Stopped, Machines

LEMMA ControlIs ==
    ASSUME NEW bys, NEW f \in Machines(bys), NEW code \in Nat
    PROVE  /\ Still(f, FeedHold(f)) /\ Still(f, Resume(f))
           /\ FeedHold(f).program = f.program /\ Resume(f).program = f.program
           /\ Halt(f, code).motion = <<>> /\ Halt(f, code).m = f.m /\ Halt(f, code).w = f.w
           /\ Halt(f, code).state = "Alarm" /\ Halt(f, code).halt = code /\ ~Halt(f, code).held
           /\ ~Halt(f, code).program /\ ~Halt(f, code).suspended
           /\ clearAlarm(f).motion = <<>> /\ clearAlarm(f).state = "Idle" /\ ~clearAlarm(f).held
           /\ ~clearAlarm(f).program
           /\ home(f).motion = <<>> /\ home(f).state = "Idle" /\ home(f).held = f.held
           /\ home(f).resumeTo = f.resumeTo /\ home(f).halt = f.halt
           /\ ~home(f).program /\ ~home(f).suspended
<1>1. Still(f, FeedHold(f)) /\ Still(f, Resume(f))
  BY DEF FeedHold, Resume, Machines, Still
<1>2. FeedHold(f).program = f.program /\ Resume(f).program = f.program
  BY DEF FeedHold, Resume, Machines
<1>5. /\ Halt(f, code).motion = <<>> /\ Halt(f, code).m = f.m /\ Halt(f, code).w = f.w
      /\ Halt(f, code).state = "Alarm" /\ Halt(f, code).halt = code /\ ~Halt(f, code).held
      /\ ~Halt(f, code).program /\ ~Halt(f, code).suspended
  BY StoppedIs DEF Halt, Machines
<1>6. /\ clearAlarm(f).motion = <<>> /\ clearAlarm(f).state = "Idle" /\ ~clearAlarm(f).held
      /\ ~clearAlarm(f).program
  BY StoppedIs DEF clearAlarm, Machines
<1>7. /\ home(f).motion = <<>> /\ home(f).state = "Idle" /\ home(f).held = f.held
      /\ home(f).resumeTo = f.resumeTo /\ home(f).halt = f.halt
      /\ ~home(f).program /\ ~home(f).suspended
  BY StoppedIs DEF home, Machines
<1> QED BY <1>1, <1>2, <1>5, <1>6, <1>7

LEMMA ProgramIs ==
    ASSUME NEW bys, NEW f \in Machines(bys)
    PROVE  /\ startProgram(f).m = f.m /\ startProgram(f).w = f.w
           /\ startProgram(f).held = f.held /\ startProgram(f).resumeTo = f.resumeTo
           /\ startProgram(f).state = "Run"
           /\ DOMAIN startProgram(f).motion = DOMAIN Job
           /\ \A i \in DOMAIN Job : /\ startProgram(f).motion[i].m["z"] = f.m["z"]
                                    /\ startProgram(f).motion[i].w["z"] = f.w["z"]
                                    /\ startProgram(f).motion[i].by = ByProgram
<1> DEFINE moves == [i \in DOMAIN Job |->
                       [m |-> [f.m EXCEPT !["x"] = Job[i]], by |-> ByProgram, kind |-> "move",
                        w |-> [f.w EXCEPT !["x"] = Job[i] - f.m["x"] + f.w["x"]]]]
<1>1. f.m \in [Axes -> Int] /\ f.w \in [Axes -> Int]
  BY DEF Machines, Points
<1>2. \A i \in DOMAIN Job : /\ moves[i].m["z"] = f.m["z"] /\ moves[i].w["z"] = f.w["z"]
                            /\ moves[i].by = ByProgram
  <2> SUFFICES ASSUME NEW i \in DOMAIN Job
               PROVE  /\ moves[i].m["z"] = f.m["z"] /\ moves[i].w["z"] = f.w["z"]
                      /\ moves[i].by = ByProgram
    OBVIOUS
  <2>1. moves[i] = [m |-> [f.m EXCEPT !["x"] = Job[i]], by |-> ByProgram, kind |-> "move",
                        w |-> [f.w EXCEPT !["x"] = Job[i] - f.m["x"] + f.w["x"]]]
    OBVIOUS
  <2> HIDE DEF moves
  <2> QED BY <1>1, <2>1
<1>3. DOMAIN moves = DOMAIN Job
  OBVIOUS
<1> HIDE DEF moves
<1>6. startProgram(f) = [Stopped(f) EXCEPT !.program = TRUE, !.state = "Run", !.motion = moves]
  BY DEF startProgram, moves
<1>7. /\ startProgram(f).m = f.m /\ startProgram(f).w = f.w
      /\ startProgram(f).held = f.held /\ startProgram(f).resumeTo = f.resumeTo
      /\ startProgram(f).state = "Run" /\ startProgram(f).motion = moves
  BY <1>6, StoppedIs DEF Machines
<1> QED BY <1>2, <1>3, <1>7

\* From p the move seg leads along one axis.
Shifts(p, seg, axis, d) ==
    /\ seg.m[axis] = p.m[axis] + d /\ seg.w[axis] = p.w[axis] + d
    /\ \A a \in Axes \ {axis} : seg.m[a] = p.m[a] /\ seg.w[a] = p.w[a]
\* The move seg joins the queue.
Joins(f, g, seg) == g.m = f.m /\ g.w = f.w /\ g.motion = Append(f.motion, seg)
\* An alarm survives only where nothing joined the queue.
Quiet(f, g) == g.state = "Alarm" => f.state = "Alarm" /\ Still(f, g)

LEMMA AppendIs ==
    ASSUME NEW bys, NEW f \in Machines(bys), NEW by, NEW kind, NEW to
    PROVE  /\ IF to = End(f) /\ kind # "probe"
              THEN Still(f, appendMotion(f, to, by, kind))
              ELSE Joins(f, appendMotion(f, to, by, kind),
                         [m |-> to.m, w |-> to.w, by |-> by, kind |-> kind])
           /\ SameFlags(f, appendMotion(f, to, by, kind))
           /\ Quiet(f, appendMotion(f, to, by, kind))
<1> DEFINE g == advanceMotion(f)
           seg == [m |-> to.m, w |-> to.w, by |-> by, kind |-> kind]
           h == appendMotion(f, to, by, kind)
<1>1. Still(f, g) /\ SameFlags(f, g) /\ g \in Machines(bys)
  BY TimePasses, TimeTyped
<1>2. g.state = "Alarm" => f.state = "Alarm"
  BY TimePasses
<1>3. h = IF to = End(f) /\ kind # "probe" THEN g
          ELSE [g EXCEPT !.motion = Append(g.motion, seg), !.state = "Run"]
  BY DEF appendMotion
<1> HIDE DEF g, seg, h
<1>4. CASE to = End(f) /\ kind # "probe"
  BY <1>3, <1>4, <1>1, <1>2 DEF h, seg, Quiet
<1>5. CASE ~(to = End(f) /\ kind # "probe")
  <2>1. h = [g EXCEPT !.motion = Append(g.motion, seg), !.state = "Run"]
    BY <1>3, <1>5
  <2>2. h.motion = Append(f.motion, seg) /\ h.state = "Run" /\ h.m = f.m /\ h.w = f.w /\ SameFlags(f, h)
    BY <1>1, <2>1 DEF Machines, Still, SameFlags
  <2>3. Joins(f, h, seg) /\ SameFlags(f, h) /\ Quiet(f, h)
    BY <2>2 DEF Joins, Quiet
  <2> QED BY <1>5, <2>3 DEF h, seg
<1> QED BY <1>4, <1>5

LEMMA AbsoluteMoveIs ==
    ASSUME NEW bys, NEW f \in Machines(bys), NEW by \in bys, NEW axis \in Axes, NEW v \in Int,
           NEW mc \in BOOLEAN, NEW g, g = applyAbsoluteMove(f, axis, v, mc, by)
    PROVE  /\ SameFlags(f, g) /\ Quiet(f, g)
           /\ \E d \in Int, seg \in MovesBy({by}) :
                 /\ Shifts(End(f), seg, axis, d) /\ seg.kind = "move"
                 /\ mc => End(f).m[axis] + d = v
                 /\ (Still(f, g) /\ d = 0) \/ Joins(f, g, seg)
<1> DEFINE from == End(f)
<1>0. from.m \in [Axes -> Int] /\ from.w \in [Axes -> Int]
  BY EndTyped DEF Points
<1>10. from = [m |-> from.m, w |-> from.w]
  BY DEF End
<1> HIDE DEF from
<1> DEFINE d == v - (IF mc THEN from.m ELSE from.w)[axis]
           to == [m |-> [from.m EXCEPT ![axis] = @ + d], w |-> [from.w EXCEPT ![axis] = @ + d]]
           seg == [m |-> to.m, w |-> to.w, by |-> by, kind |-> "move"]
<1>1. d \in Int /\ (mc => from.m[axis] + d = v)
  BY <1>0
<1> HIDE DEF d
<1>2. /\ to.m \in [Axes -> Int] /\ to.w \in [Axes -> Int]
      /\ to.m[axis] = from.m[axis] + d /\ to.w[axis] = from.w[axis] + d
      /\ \A a \in Axes \ {axis} : to.m[a] = from.m[a] /\ to.w[a] = from.w[a]
  BY <1>0, <1>1
<1>3. to = from => d = 0
  BY <1>2, <1>0, <1>1
<1>4. g = appendMotion(f, to, by, "move")
  BY Zenon DEF applyAbsoluteMove, to, d, from
<1> HIDE DEF to
<1>5. seg \in MovesBy({by}) /\ seg.kind = "move"
  BY <1>2 DEF MovesBy, Points
<1>6. Shifts(from, seg, axis, d)
  BY <1>2 DEF Shifts
<1>7. /\ IF to = from THEN Still(f, g) ELSE Joins(f, g, seg)
      /\ SameFlags(f, g) /\ Quiet(f, g)
  <2> HIDE DEF seg
  <2>1. seg = [m |-> to.m, w |-> to.w, by |-> by, kind |-> "move"]
    BY DEF seg
  <2> QED BY <1>4, <2>1, AppendIs DEF from
<1>8. (Still(f, g) /\ d = 0) \/ Joins(f, g, seg)
  BY <1>3, <1>7
<1> HIDE DEF seg
<1> QED BY <1>1, <1>5, <1>6, <1>7, <1>8 DEF from

LEMMA ProbeMoveIs ==
    ASSUME NEW bys, NEW f \in Machines(bys), NEW by \in bys, NEW v \in Int,
           NEW g, g = applyProbeMove(f, v, by)
    PROVE  /\ SameFlags(f, g) /\ Quiet(f, g)
           /\ \E d \in Int, seg \in MovesBy({by}) :
                 Shifts(End(f), seg, "z", d) /\ seg.kind = "probe" /\ Joins(f, g, seg)
<1> DEFINE from == End(f)
<1>0. from.m \in [Axes -> Int] /\ from.w \in [Axes -> Int]
  BY EndTyped DEF Points
<1> DEFINE at == IF ProbeTarget(f, v) <= Surface /\ Surface <= from.m["z"] THEN Surface ELSE ProbeTarget(f, v)
           d == at - from.m["z"]
           to == [m |-> [from.m EXCEPT !["z"] = at], w |-> [from.w EXCEPT !["z"] = @ + d]]
           seg == [m |-> to.m, w |-> to.w, by |-> by, kind |-> "probe"]
<1>1. at \in Int
  BY <1>0, FirmwareAssumption DEF ProbeTarget, Axes
<1> HIDE DEF from, at
<1>2. d \in Int /\ from.m["z"] + d = at
  BY <1>0, <1>1 DEF Axes
<1> HIDE DEF d
<1>3. /\ to.m \in [Axes -> Int] /\ to.w \in [Axes -> Int]
      /\ to.m["z"] = from.m["z"] + d /\ to.w["z"] = from.w["z"] + d
      /\ \A a \in Axes \ {"z"} : to.m[a] = from.m[a] /\ to.w[a] = from.w[a]
  BY <1>0, <1>1, <1>2 DEF Axes
<1>4. g = appendMotion(f, to, by, "probe")
  BY Zenon DEF applyProbeMove, to, d, at, from
<1> HIDE DEF to
<1>5. seg \in MovesBy({by}) /\ seg.kind = "probe"
  BY <1>3 DEF MovesBy, Points
<1>6. Shifts(from, seg, "z", d)
  BY <1>3 DEF Shifts
<1>7. Joins(f, g, seg) /\ SameFlags(f, g) /\ Quiet(f, g)
  <2> HIDE DEF seg
  <2>1. seg = [m |-> to.m, w |-> to.w, by |-> by, kind |-> "probe"]
    BY DEF seg
  <2> QED BY <1>4, <2>1, AppendIs
<1> HIDE DEF seg
<1> QED BY <1>2, <1>5, <1>6, <1>7 DEF from

LEMMA ToolIs ==
    ASSUME NEW bys, NEW f \in Machines(bys), NEW line \in Lines, line.c \in ToolLines,
           NEW g, g = applyToolGcode(f, line)
    PROVE  SameFlags(f, g) /\ Still(f, g) /\ (g.state = "Alarm" => f.state = "Alarm")
<1>0. line.c \in {"M3", "M5", "M494", "M491", "M493", "M490", "M6"}
  BY DEF ToolLines
<1> DEFINE Fine(h) == SameFlags(f, h) /\ Still(f, h) /\ (h.state = "Alarm" => f.state = "Alarm")
<1>1. Fine(startSpindle(f, line.v)) /\ Fine(stopSpindle(f)) /\ Fine([f EXCEPT !.laser = TRUE])
  BY DEF startSpindle, stopSpindle, Machines, SameFlags, Still
<1>2. Fine(calibrateActiveTool(f)) /\ Fine(setActiveTool(f, line.v))
  BY DEF calibrateActiveTool, setActiveTool, Machines, SameFlags, Still
<1>3. Fine(beginToolChange(f, line.v))
  BY DEF beginToolChange, Machines, SameFlags, Still
<1>4. Fine(continueToolChange(f))
  <2>1. CASE f.target = NoTool
    BY <2>1 DEF continueToolChange, Machines, SameFlags, Still
  <2>2. CASE f.target # NoTool /\ f.target \in {Laser, Probe3DTool}
    BY <2>2 DEF continueToolChange, Machines, SameFlags, Still
  <2>3. CASE f.target # NoTool /\ f.target \notin {Laser, Probe3DTool}
    <3> DEFINE h == [f EXCEPT !.inserted = IF @ = NoTool THEN f.target ELSE @,
                                          !.tool = f.target, !.state = "Idle"]
    <3>1. /\ h.held = f.held /\ h.resumeTo = f.resumeTo /\ h.program = f.program
          /\ h.suspended = f.suspended /\ h.halt = f.halt /\ h.state = "Idle"
          /\ h.motion = f.motion /\ h.m = f.m /\ h.w = f.w
      BY DEF Machines
    <3>2. continueToolChange(f) = calibrateActiveTool(h)
      BY <2>3 DEF continueToolChange
    <3> HIDE DEF h
    <3>3. /\ calibrateActiveTool(h).held = h.held /\ calibrateActiveTool(h).resumeTo = h.resumeTo
          /\ calibrateActiveTool(h).program = h.program /\ calibrateActiveTool(h).suspended = h.suspended
          /\ calibrateActiveTool(h).halt = h.halt /\ calibrateActiveTool(h).state = h.state
          /\ calibrateActiveTool(h).motion = h.motion /\ calibrateActiveTool(h).m = h.m
          /\ calibrateActiveTool(h).w = h.w
      BY DEF calibrateActiveTool
    <3> QED BY <3>1, <3>2, <3>3 DEF SameFlags, Still
  <2> QED BY <2>1, <2>2, <2>3
<1> HIDE DEF Fine
<1>5. Fine(g)
  BY <1>0, <1>1, <1>2, <1>3, <1>4 DEF applyToolGcode
<1> QED BY <1>5 DEF Fine

LEMMA OffsetIs ==
    ASSUME NEW bys, NEW f \in Machines(bys), NEW v \in Int, NEW g, g = applyWorkOffset(f, v)
    PROVE  /\ SameFlags(f, g) /\ g.state = f.state /\ g.m = f.m /\ g.motion = f.motion
           /\ g.w["z"] = f.w["z"]
<1>1. f.w \in [Axes -> Int] /\ "x" \in Axes /\ "z" \in Axes
  BY DEF Machines, Points, Axes
<1> DEFINE p == [f.w EXCEPT !["x"] = f.m["x"] - v]
<1>2. p["z"] = f.w["z"]
  BY <1>1
<1>3. g = [f EXCEPT !.w = p]
  BY DEF applyWorkOffset
<1> HIDE DEF p
<1> QED BY <1>2, <1>3 DEF Machines, SameFlags

LEMMA PositionIs ==
    ASSUME NEW bys, NEW f \in Machines(bys), NEW g, g = applyWorkPosition(f)
    PROVE  /\ SameFlags(f, g) /\ g.state = f.state /\ g.m = f.m
           /\ f.motion = <<>> => g.motion = <<>> /\ g.w["z"] = 0
           /\ f.motion # <<>> => /\ g.w = f.w
                                 /\ g.motion = [f.motion EXCEPT ![Len(f.motion)].w["z"] = 0]
<1>0. f.w \in [Axes -> Int] /\ "z" \in Axes
  BY DEF Machines, Points, Axes
<1> DEFINE p == [f.w EXCEPT !["z"] = 0]
           q == [f.motion EXCEPT ![Len(f.motion)].w["z"] = 0]
<1>1. p["z"] = 0
  BY <1>0
<1>2. g = IF f.motion = <<>> THEN [f EXCEPT !.w = p] ELSE [f EXCEPT !.motion = q]
  BY DEF applyWorkPosition
<1> HIDE DEF p, q
<1>3. /\ SameFlags(f, g) /\ g.state = f.state /\ g.m = f.m
      /\ f.motion = <<>> => g.motion = <<>> /\ g.w["z"] = 0
      /\ f.motion # <<>> => g.w = f.w /\ g.motion = q
  BY <1>1, <1>2 DEF Machines, SameFlags
<1> QED BY <1>3 DEF q

\* A line that is taken.
LEMMA TakenIs ==
    ASSUME NEW bys, NEW f \in Machines(bys), NEW by \in bys, NEW line \in Lines,
           Here.alarmLock \in BOOLEAN, Here.unlockClears \in BOOLEAN, Here.vacuum \in BOOLEAN,
           NEW g, g = Taken(f, line, by), ~Rejected(f, line)
    PROVE  /\ line.c \in Console => g = applyConsole(f, line)
           /\ line.c \in ToolLines \cup {"M220", "M331"} =>
                SameFlags(f, g) /\ Still(f, g) /\ (g.state = "Alarm" => f.state = "Alarm")
           /\ line.c = "G38" => g = applyProbeMove(f, line.v, by)
           /\ line.c = "G10L20Z" => g = applyWorkPosition(f)
           /\ line.c = "G10L2X" => g = applyWorkOffset(f, line.v)
<1>0. line.v \in Int /\ line.c \in Console \cup ToolLines \cup MoveLines
  BY DEF Lines
<1>1. line.c \in Console => g = applyConsole(f, line)
  BY DEF Console, ToolLines, Taken
<1>2. ASSUME line.c \in ToolLines
      PROVE  SameFlags(f, g) /\ Still(f, g) /\ (g.state = "Alarm" => f.state = "Alarm")
  BY <1>2, ToolIs DEF Console, ToolLines, Taken
<1>3. line.c \in MoveLines => g = applySimulatedGcode(f, line, by)
  BY DEF Taken, Console, ToolLines, MoveLines
<1>4. /\ line.c = "G38" => g = applyProbeMove(f, line.v, by)
      /\ line.c = "G10L20Z" => g = applyWorkPosition(f)
      /\ line.c = "G10L2X" => g = applyWorkOffset(f, line.v)
      /\ line.c = "M220" => g = applyFeedOverride(f, line.v)
      /\ line.c = "M331" => g = applyAutoVacuum(f, line.v, Here.vacuum)
  BY <1>3 DEF applySimulatedGcode, MoveLines
<1>5. /\ SameFlags(f, applyFeedOverride(f, line.v)) /\ Still(f, applyFeedOverride(f, line.v))
      /\ applyFeedOverride(f, line.v).state = f.state
  BY DEF applyFeedOverride, Machines, SameFlags, Still
<1>6. /\ SameFlags(f, applyAutoVacuum(f, line.v, Here.vacuum)) /\ Still(f, applyAutoVacuum(f, line.v, Here.vacuum))
      /\ applyAutoVacuum(f, line.v, Here.vacuum).state = f.state
  BY DEF applyAutoVacuum, Machines, SameFlags, Still
<1> QED BY <1>1, <1>2, <1>4, <1>5, <1>6

\* A move that is taken, and that does not probe.
LEMMA MoveTaken ==
    ASSUME NEW bys, NEW f \in Machines(bys), NEW by \in bys, NEW line \in Lines,
           line.c \in {"G53Z", "G53X", "M480", "G90X"},
           NEW g, g = Taken(f, line, by), ~Rejected(f, line)
    PROVE  LET axis == IF line.c = "G53Z" THEN "z" ELSE "x"
           IN  /\ SameFlags(f, g) /\ Quiet(f, g)
               /\ \E d \in Int, seg \in MovesBy({by}) :
                     /\ Shifts(End(f), seg, axis, d) /\ seg.kind = "move"
                     /\ line.c # "G90X" => End(f).m[axis] + d = line.v
                     /\ (Still(f, g) /\ d = 0) \/ Joins(f, g, seg)
<1> DEFINE axis == IF line.c = "G53Z" THEN "z" ELSE "x"
           mc == line.c # "G90X"
<1>0. line.v \in Int /\ axis \in Axes /\ mc \in BOOLEAN
  BY DEF Lines, Axes
<1>1. g = applySimulatedGcode(f, line, by)
  BY DEF Taken, Console, ToolLines
<1>2. g = applyAbsoluteMove(f, axis, line.v, mc, by)
  <2>1. CASE line.c = "G53Z"
    <3>1. g = applyAbsoluteMove(f, "z", line.v, TRUE, by)
      BY <1>1, <2>1 DEF applySimulatedGcode
    <3>2. axis = "z" /\ mc
      BY <2>1
    <3> HIDE DEF axis, mc
    <3>3. mc = TRUE
      BY <1>0, <3>2
    <3> QED BY <3>1, <3>2, <3>3, Zenon
  <2>2. CASE line.c = "G53X"
    <3>1. g = applyAbsoluteMove(f, "x", line.v, TRUE, by)
      BY <1>1, <2>2 DEF applySimulatedGcode
    <3>2. axis = "x" /\ mc
      BY <2>2
    <3> HIDE DEF axis, mc
    <3>3. mc = TRUE
      BY <1>0, <3>2
    <3> QED BY <3>1, <3>2, <3>3, Zenon
  <2>3. CASE line.c = "M480"
    <3>1. g = applyAbsoluteMove(f, "x", line.v, TRUE, by)
      BY <1>1, <2>3 DEF applySimulatedGcode
    <3>2. axis = "x" /\ mc
      BY <2>3
    <3> HIDE DEF axis, mc
    <3>3. mc = TRUE
      BY <1>0, <3>2
    <3> QED BY <3>1, <3>2, <3>3, Zenon
  <2>4. CASE line.c = "G90X"
    <3>1. g = applyAbsoluteMove(f, "x", line.v, FALSE, by)
      BY <1>1, <2>4 DEF applySimulatedGcode
    <3>2. axis = "x" /\ ~mc
      BY <2>4
    <3> HIDE DEF axis, mc
    <3>3. mc = FALSE
      BY <1>0, <3>2
    <3> QED BY <3>1, <3>2, <3>3, Zenon
  <2> QED BY <2>1, <2>2, <2>3, <2>4
<1>3. mc <=> line.c # "G90X"
  OBVIOUS
<1> HIDE DEF mc, axis
<1>4. /\ SameFlags(f, g) /\ Quiet(f, g)
      /\ \E d \in Int, seg \in MovesBy({by}) :
                 /\ Shifts(End(f), seg, axis, d) /\ seg.kind = "move"
                 /\ mc => End(f).m[axis] + d = line.v
                 /\ (Still(f, g) /\ d = 0) \/ Joins(f, g, seg)
  BY <1>0, <1>2, AbsoluteMoveIs
<1> QED BY <1>3, <1>4 DEF axis

\* What a line leaves of the program and of an alarm.
LEMMA TakenSound ==
    ASSUME NEW bys, NEW f \in Machines(bys), NEW by \in bys, NEW line \in Lines,
           Here.alarmLock \in BOOLEAN, Here.unlockClears \in BOOLEAN, Here.vacuum \in BOOLEAN,
           SoundAlarm(f, Here.alarmLock), NEW g, g = Taken(f, line, by)
    PROVE  /\ g.program => f.program
           /\ SoundAlarm(g, Here.alarmLock)
           /\ Rejected(f, line) => g = f
<1>1. CASE Rejected(f, line)
  BY <1>1 DEF Taken
<1>2. CASE ~Rejected(f, line) /\ line.c \in Console
  <2>1. g = applyConsole(f, line)
    BY <1>2, TakenIs
  <2>2. CASE line.c = "suspend"
    <3>1. statusAt(f).state = "Run"
      BY <1>2, <2>2 DEF Rejected
    <3>2. /\ ~f.held /\ ~f.suspended /\ (f.program \/ f.motion # <<>> \/ f.state = "Run")
      BY <3>1, TimePasses DEF statusAt, Machines, advanceMotion
    <3>3. g = [f EXCEPT !.suspended = TRUE, !.state = "Pause"]
      BY <2>1, <2>2 DEF applyConsole
    <3> QED BY <1>2, <3>2, <3>3 DEF SoundAlarm, Machines
  <2>3. CASE line.c = "resume"
    BY <1>2, <2>3, <2>1 DEF Rejected, applyConsole, SoundAlarm, Machines
  <2>4. CASE line.c \in {"M999", "$X"}
    <3>1. g = clearAlarm(f) \/ g = f
      BY <2>1, <2>4 DEF applyConsole
    <3> QED BY <1>2, <3>1, ControlIs DEF SoundAlarm
  <2>5. CASE line.c = "$H"
    <3>1. g = home(f)
      BY <2>1, <2>5 DEF applyConsole
    <3> QED BY <1>2, <3>1, ControlIs DEF SoundAlarm
  <2>6. CASE line.c \in {"reset", "report"}
    BY <2>1, <2>6, <1>2 DEF applyConsole
  <2> QED BY <1>2, <2>2, <2>3, <2>4, <2>5, <2>6 DEF Console
<1>3. CASE ~Rejected(f, line) /\ line.c \notin Console
  <2>0. line.v \in Int /\ line.c \in ToolLines \cup MoveLines /\ "x" \in Axes /\ "z" \in Axes
    BY <1>3 DEF Lines, Axes
  <2>1. line.c \notin {"suspend", "resume"}
    BY <1>3 DEF Console
  <2>2. Here.alarmLock => ~InAlarm(f)
    BY <1>3, <2>1 DEF Rejected
  <2>3. /\ SameFlags(f, g)
        /\ g.state = "Alarm" => f.state = "Alarm" /\ (f.motion = <<>> => g.motion = <<>>)
    <3>1. CASE line.c \in ToolLines \cup {"M220", "M331"}
      BY <1>3, <3>1, TakenIs DEF Still
    <3>2. CASE line.c \in {"G53Z", "G53X", "M480", "G90X"}
      <4>1. SameFlags(f, g) /\ Quiet(f, g)
        BY <1>3, <3>2, MoveTaken
      <4> QED BY <4>1 DEF Quiet, Still
    <3>3. CASE line.c = "G38"
      <4>1. g = applyProbeMove(f, line.v, by)
        BY <1>3, <3>3, TakenIs
      <4>2. SameFlags(f, g) /\ Quiet(f, g)
        BY <2>0, <4>1, ProbeMoveIs
      <4> QED BY <4>2 DEF Quiet, Still
    <3>4. CASE line.c = "G10L20Z"
      <4>1. g = applyWorkPosition(f)
        BY <1>3, <3>4, TakenIs
      <4> QED BY <2>0, <4>1, PositionIs
    <3>5. CASE line.c = "G10L2X"
      BY <1>3, <3>5, TakenIs, <2>0, OffsetIs
    <3> QED BY <2>0, <3>1, <3>2, <3>3, <3>4, <3>5 DEF MoveLines
  <2> QED BY <1>3, <2>2, <2>3 DEF SoundAlarm, SameFlags, InAlarm
<1> QED BY <1>1, <1>2, <1>3

LEMMA EnvironmentSound ==
    ASSUME NEW bys, NEW f \in Machines(bys), NEW l \in BOOLEAN, SoundAlarm(f, l), NEW code \in Nat \ {0}
    PROVE  /\ SoundAlarm(statusAt(f), l)
           /\ f.motion # <<>> /\ ~f.held => SoundAlarm(MoveEnds(f), l)
           /\ SoundAlarm(advanceProgram(f), l)
           /\ SoundAlarm(FeedHold(f), l) /\ SoundAlarm(Resume(f), l) /\ SoundAlarm(Halt(f, code), l)
           /\ fileOpsIdle(f) => SoundAlarm(startProgram(f), l)
<1>1. SoundAlarm(statusAt(f), l)
  BY TimePasses DEF SoundAlarm, Still, SameFlags
<1>2. f.motion # <<>> /\ ~f.held => SoundAlarm(MoveEnds(f), l)
  BY MoveEndsIs DEF SoundAlarm, SameFlags
<1>3. SoundAlarm(advanceProgram(f), l)
  BY TimePasses DEF SoundAlarm, Still
<1>4. SoundAlarm(FeedHold(f), l)
  <2>1. CASE f.held
    BY <2>1 DEF FeedHold
  <2>2. CASE ~f.held
    <3> DEFINE r == IF f.program THEN "Run" ELSE advanceMotion(f).state
    <3>1. r = "Alarm" => f.state = "Alarm" /\ f.motion = <<>> /\ ~f.program
      BY TimePasses
    <3> HIDE DEF r
    <3>2. FeedHold(f) = [f EXCEPT !.held = TRUE, !.state = "Hold", !.resumeTo = r]
      BY <2>2 DEF FeedHold, r
    <3> QED BY <3>1, <3>2 DEF SoundAlarm, Machines
  <2> QED BY <2>1, <2>2
<1>5. SoundAlarm(Resume(f), l)
  BY DEF Resume, SoundAlarm, Machines
<1>6. SoundAlarm(Halt(f, code), l)
  BY ControlIs DEF SoundAlarm
<1>7. fileOpsIdle(f) => SoundAlarm(startProgram(f), l)
  BY TimePasses, ProgramIs DEF fileOpsIdle, SoundAlarm
<1> QED BY <1>1, <1>2, <1>3, <1>4, <1>5, <1>6, <1>7

-----------------------------------------------------------------------------
(* The invariant the others rest on.                                        *)

\* An operation is the one that was asked for.
Requested ==
    \A c \in Clients : ops[c] # None =>
        calls[c] \in 1..Len(Here.calls[c]) /\ ops[c].req = Here.calls[c][calls[c]]

\* Who holds the lock is inside WithMachine, and nobody else is.
LockInv == \A c \in Clients : (ops[c] # None /\ Inside(ops[c])) <=> lock = c

\* The machine's alarm is sound.
AlarmInv == SoundAlarm(fw, Here.alarmLock)
\* The four of them.
BaseInv == TypeOK /\ Requested /\ LockInv /\ AlarmInv

\* Who may have asked for a move.
Bys == {ByProgram} \cup (Clients \X Nat)

LEMMA SceneTyped ==
    ASSUME scene \in DOMAIN Scenes
    PROVE  /\ Here.machine \in Machines({ByProgram}) /\ Here.calls \in [Clients -> Seq(Requests)]
           /\ Here.alarmLock \in BOOLEAN /\ Here.unlockClears \in BOOLEAN /\ Here.vacuum \in BOOLEAN
           /\ Here.anchors \in BOOLEAN /\ Here.panel \in BOOLEAN /\ Here.observed \in BOOLEAN
           /\ Here.lose \in Nat /\ Here.control \in Nat /\ Here.play \in Nat
           /\ Here.codes \subseteq Nat \ {0}
<1> DEFINE S == [machine : Machines({ByProgram}), calls : [Clients -> Seq(Requests)],
                        alarmLock : BOOLEAN, unlockClears : BOOLEAN, vacuum : BOOLEAN,
                        anchors : BOOLEAN, panel : BOOLEAN, observed : BOOLEAN,
                        lose : Nat, control : Nat, play : Nat,
                        controls : SUBSET {"hold", "resume", "halt"},
                        codes : SUBSET (Nat \ {0})]
<1>1. Scenes \in Seq(S)
  BY ScenesAssumption
<1> HIDE DEF S
<1>2. Here \in S
  BY <1>1 DEF Here
<1> QED BY <1>2 DEF S

LEMMA ScriptKept ==
    ASSUME NEW o, scene' = scene
    PROVE  Script(o)' = Script(o)
  BY DEF Script, SetMachineOrigin, ResolveMachineOrigin, Here

LEMMA NoneIsNone ==
    /\ None \notin Clients
    /\ \A o \in Operations : o # None
    /\ \A r \in Results : r # None
  BY OpsAssumption

LEMMA InitBase == ASSUME Init PROVE BaseInv
<1>0. scene \in DOMAIN Scenes
  BY DEF Init
<1>1. Here.machine \in Machines(Bys)
  <2>1. Seq(MovesBy({ByProgram})) \subseteq Seq(MovesBy(Bys))
    <3>1. MovesBy({ByProgram}) \subseteq MovesBy(Bys)
      BY DEF MovesBy, Bys
    <3> HIDE DEF Bys
    <3> QED BY <3>1, SeqMonotonic
  <2> QED BY <1>0, <2>1, SceneTyped DEF Machines
<1>2. fw \in Machines(Bys)
  BY <1>1 DEF Init
<1>3. AlarmInv
  BY <1>0, ScenesAssumption DEF Here, Init, AlarmInv, SoundAlarm
<1>4. TypeOK
  <2>1. Status(fw) \in Statuses
    BY <1>2, StatusTyped
  <2>2. tracker \in [status : Statuses, fresh : BOOLEAN]
    BY <2>1 DEF Init
  <2>3. left \in [lose : Nat, control : Nat, play : Nat]
    BY <1>0, SceneTyped DEF Init
  <2>4. fw.state = "Alarm" => fw.halt # 0 /\ fw.motion = <<>> /\ ~fw.program
    BY <1>3 DEF AlarmInv, SoundAlarm
  <2> QED BY <1>0, <1>2, <2>2, <2>3, <2>4 DEF TypeOK, Init, Bys
<1>5. Requested /\ LockInv
  BY OpsAssumption DEF Init, Requested, LockInv
<1> QED BY <1>3, <1>4, <1>5 DEF BaseInv

\* The two halves of it: who does what, and the machine with what is known of it.
OpsInv ==
    /\ ops \in [Clients -> Operations \cup {None}] /\ calls \in [Clients -> Nat]
    /\ \A c \in Clients : ops[c] # None => ops[c].pc \in DOMAIN Script(ops[c])
    /\ lock \in Clients \cup {None} /\ (lock # None => ops[lock] # None)
    /\ Requested /\ LockInv
WorldInv ==
    /\ scene \in DOMAIN Scenes /\ fw \in Machines(Bys) /\ AlarmInv
    /\ tracker \in [status : Statuses, fresh : BOOLEAN] /\ diag \in BOOLEAN
    /\ left \in [lose : Nat, control : Nat, play : Nat]
\* What the clients have been told.
DoneTyped == done \in [Clients -> Results \cup {None}]

LEMMA BaseParts == BaseInv <=> OpsInv /\ WorldInv /\ DoneTyped
  BY DEF BaseInv, TypeOK, OpsInv, WorldInv, DoneTyped, AlarmInv, SoundAlarm, Bys

\* Operation p is o at its next instruction.
Advanced(o, p) ==
    p \in Operations /\ p.req = o.req /\ p.pc = o.pc + 1 /\ (p.code = o.code \/ o.pc = 1)

\* An operation that runs, at its instruction.
LEMMA AtIs ==
    ASSUME OpsInv, NEW c \in Clients, ops[c] # None
    PROVE  /\ ops[c] \in Operations /\ ops[c].pc \in DOMAIN Script(ops[c]) /\ Shape(ops[c])
           /\ At(c) = Script(ops[c])[ops[c].pc]
           /\ ops[c].pc \in 1..Len(Script(ops[c])) /\ Len(Script(ops[c])) \in Nat
           /\ At(c).i # "unlock" => ops[c].pc < Len(Script(ops[c]))
           /\ At(c).i \in Talks => lock = c
           /\ At(c).i = "lock" => lock # c
<1>1. ops[c] \in Operations /\ ops[c].pc \in DOMAIN Script(ops[c])
  BY DEF OpsInv
<1>2. Shape(ops[c]) /\ DOMAIN Script(ops[c]) = 1..Len(Script(ops[c])) /\ Len(Script(ops[c])) \in Nat
  BY <1>1, ScriptFits
<1>3. At(c) = Script(ops[c])[ops[c].pc]
  BY DEF At
<1>4. Inside(ops[c]) <=> lock = c
  BY DEF OpsInv, LockInv
<1>5. At(c).i # "unlock" => ops[c].pc # Len(Script(ops[c]))
  BY <1>2, <1>3 DEF Shape
<1>6. At(c).i \in Talks => Inside(ops[c])
  BY <1>2, <1>3 DEF Shape
<1>7. At(c).i = "lock" => ~Inside(ops[c])
  BY <1>2, <1>3 DEF Shape
<1> HIDE DEF Talks
<1> QED BY <1>1, <1>2, <1>3, <1>4, <1>5, <1>6, <1>7

LEMMA GoesOn ==
    ASSUME OpsInv, NEW c \in Clients, ops[c] # None, NEW p, Advanced(ops[c], p),
           ops[c].pc < Len(Script(ops[c])), scene' = scene, calls' = calls,
           ops' = [ops EXCEPT ![c] = p],
           \/ At(c).i = "lock" /\ lock = None /\ lock' = c
           \/ At(c).i = "unlock" /\ lock' = None
           \/ At(c).i \notin {"lock", "unlock"} /\ lock' = lock
    PROVE  OpsInv'
<1> DEFINE o == ops[c]
<1>1. o \in Operations /\ o.pc \in DOMAIN Script(o) /\ Shape(o) /\ At(c) = Script(o)[o.pc]
  BY AtIs
<1>2. p \in Operations /\ p # None /\ p.pc \in DOMAIN Script(p) /\ p.req = o.req /\ p.pc = o.pc + 1
  BY <1>1, ScriptGoes, NoneIsNone DEF Advanced
<1>3. ops'[c] = p /\ \A d \in Clients \ {c} : ops'[d] = ops[d]
  BY DEF OpsInv
<1>4. ops' \in [Clients -> Operations \cup {None}]
  BY <1>2 DEF OpsInv
<1>5. \A d \in Clients : ops'[d] # None => ops'[d].pc \in DOMAIN Script(ops'[d])
  BY <1>2, <1>3 DEF OpsInv
<1>6. \A q : Script(q)' = Script(q)
  BY ScriptKept
<1>7. (\A d \in Clients : ops[d] # None => ops[d].pc \in DOMAIN Script(ops[d]))'
  BY <1>5, <1>6
<1>8. None \notin Clients
  BY NoneIsNone
<1>9. lock' \in Clients \cup {None} /\ (lock' # None => ops'[lock'] # None)
  BY <1>2, <1>3 DEF OpsInv
<1>10. Requested'
  <2>1. Here' = Here
    BY DEF Here
  <2>2. p.req = ops[c].req
    BY <1>2
  <2> HIDE DEF o
  <2> QED BY <1>3, <2>1, <2>2 DEF OpsInv, Requested
<1>11. LockInv'
  <2>1. Inside(p) <=> InsideAt(o.req.op, o.pc + 1)
    BY <1>2 DEF Inside
  <2>2. Inside(o) <=> lock = c
    BY DEF OpsInv, LockInv
  <2>3. Inside(p) <=> lock' = c
    <3>1. CASE At(c).i = "lock" /\ lock = None /\ lock' = c
      BY <1>1, <3>1, <2>1 DEF Shape
    <3>2. CASE At(c).i = "unlock" /\ lock' = None
      BY <1>1, <3>2, <1>8, <2>1 DEF Shape
    <3>3. CASE At(c).i \notin {"lock", "unlock"} /\ lock' = lock
      BY <1>1, <3>3, <2>1, <2>2 DEF Shape
    <3> QED BY <3>1, <3>2, <3>3
  <2>4. ASSUME NEW d \in Clients, d # c
        PROVE  (ops[d] # None /\ Inside(ops[d])) <=> lock' = d
    BY AtIs, <1>8, <2>4 DEF OpsInv, LockInv, Talks
  <2>5. \A d \in Clients : (ops'[d] # None /\ Inside(ops'[d])) <=> lock' = d
    <3> HIDE DEF o
    <3> QED BY <1>2, <1>3, <2>3, <2>4
  <2> QED BY <2>5 DEF LockInv
<1> HIDE DEF o
<1> QED BY <1>4, <1>7, <1>9, <1>10, <1>11 DEF OpsInv

LEMMA Stops ==
    ASSUME OpsInv, NEW c \in Clients, ops[c] # None, scene' = scene, calls' = calls,
           ops' = [ops EXCEPT ![c] = None], lock' = Free(c)
    PROVE  OpsInv'
<1>3. ops'[c] = None /\ \A d \in Clients \ {c} : ops'[d] = ops[d]
  BY DEF OpsInv
<1>4. ops' \in [Clients -> Operations \cup {None}]
  BY DEF OpsInv
<1>5. \A d \in Clients : ops'[d] # None => ops'[d].pc \in DOMAIN Script(ops'[d])
  BY <1>3 DEF OpsInv
<1>6. \A q : Script(q)' = Script(q)
  BY ScriptKept
<1>7. (\A d \in Clients : ops[d] # None => ops[d].pc \in DOMAIN Script(ops[d]))'
  BY <1>5, <1>6
<1>8. None \notin Clients
  BY NoneIsNone
<1>9. lock' \in Clients \cup {None} /\ (lock' # None => ops'[lock'] # None) /\ lock' # c
  BY <1>3, <1>8 DEF OpsInv, Free
<1>10. Requested'
  BY <1>3 DEF Here, OpsInv, Requested
<1>11. \A d \in Clients : (ops'[d] # None /\ Inside(ops'[d])) <=> lock' = d
  BY <1>3, <1>8, <1>9 DEF OpsInv, LockInv, Free
<1>12. LockInv'
  BY <1>11 DEF LockInv
<1> QED BY <1>4, <1>7, <1>9, <1>10, <1>12 DEF OpsInv

\* Nothing the invariant of the operations is about changes.
LEMMA OpsRest ==
    ASSUME OpsInv, scene' = scene, calls' = calls, lock' = lock,
           ops' \in [Clients -> Operations \cup {None}],
           \A c \in Clients : /\ ops'[c] = None <=> ops[c] = None
                              /\ ops[c] # None => Script(ops'[c]) = Script(ops[c])
                              /\ ops[c] # None => ops'[c].pc = ops[c].pc /\ ops'[c].req = ops[c].req
    PROVE  OpsInv'
<1>5. \A d \in Clients : ops'[d] # None => ops'[d].pc \in DOMAIN Script(ops'[d])
  BY DEF OpsInv
<1>6. \A q : Script(q)' = Script(q)
  BY ScriptKept
<1>7. (\A d \in Clients : ops[d] # None => ops[d].pc \in DOMAIN Script(ops[d]))'
  BY <1>5, <1>6
<1>10. Requested'
  BY DEF Here, OpsInv, Requested
<1>11. \A d \in Clients : (ops'[d] # None /\ Inside(ops'[d])) <=> lock' = d
  BY DEF OpsInv, LockInv, Inside
<1>12. LockInv'
  BY <1>11 DEF LockInv
<1> QED BY <1>7, <1>10, <1>12 DEF OpsInv

LEMMA Going ==
    ASSUME OpsInv, DoneTyped, NEW c \in Clients, ops[c] # None, NEW x \in Operations, x.req = ops[c].req,
           x.pc = ops[c].pc, x.code = ops[c].code \/ x.pc = 1, Go(c, x),
           ops[c].pc < Len(Script(ops[c])), scene' = scene, calls' = calls,
           \/ At(c).i = "lock" /\ lock = None /\ lock' = c
           \/ At(c).i = "unlock" /\ lock' = None
           \/ At(c).i \notin {"lock", "unlock"} /\ lock' = lock
    PROVE  OpsInv' /\ DoneTyped'
<1> DEFINE p == [x EXCEPT !.pc = x.pc + 1]
<1>1. p \in Operations /\ p.req = x.req /\ p.pc = x.pc + 1 /\ p.code = x.code
  BY DEF Operations
<1>2. ops' = [ops EXCEPT ![c] = p] /\ done' = done
  BY DEF Go
<1> HIDE DEF p
<1>3. Advanced(ops[c], p)
  BY <1>1 DEF Advanced
<1>4. OpsInv'
  BY <1>2, <1>3, GoesOn
<1> QED BY <1>2, <1>4 DEF DoneTyped

LEMMA Failing ==
    ASSUME OpsInv, DoneTyped, NEW c \in Clients, ops[c] # None, Fail(c), scene' = scene, calls' = calls
    PROVE  OpsInv' /\ DoneTyped'
<1>1. ops' = [ops EXCEPT ![c] = None] /\ lock' = Free(c)
  BY DEF Fail
<1>2. OpsInv'
  BY <1>1, Stops
<1>3. [req |-> ops[c].req, ok |-> FALSE, contact |-> 0] \in Results
  BY DEF OpsInv, Operations, Results
<1>4. DoneTyped'
  BY <1>3 DEF Fail, DoneTyped
<1> QED BY <1>2, <1>4

\* A query leaves the machine and what is known of it sound.
LEMMA FeedKeeps ==
    ASSUME WorldInv, Feed, scene' = scene, diag' \in BOOLEAN, left' \in [lose : Nat, control : Nat, play : Nat]
    PROVE  WorldInv'
<1>1. Here.alarmLock \in BOOLEAN /\ Here' = Here
  BY SceneTyped DEF WorldInv, Here
<1>2. Reported \in Statuses /\ statusAt(fw) \in Machines(Bys)
  BY StatusTyped, TimeTyped DEF WorldInv, Reported
<1>3. SoundAlarm(statusAt(fw), Here.alarmLock)
  BY <1>1, EnvironmentSound DEF WorldInv, AlarmInv
<1>4. AlarmInv'
  BY <1>1, <1>3 DEF AlarmInv, Feed
<1>5. tracker' \in [status : Statuses, fresh : BOOLEAN]
  BY <1>2 DEF Feed
<1>6. fw' \in Machines(Bys)
  BY <1>2 DEF Feed
<1>7. Machines(Bys)' = Machines(Bys)
  BY DEF Bys, Machines, MovesBy
<1> QED BY <1>4, <1>5, <1>6 DEF WorldInv, Bys

LEMMA QueryKeeps ==
    ASSUME WorldInv, scene' = scene, QueryFails \/ QueryLost \/ QueryAnswered
    PROVE  WorldInv'
<1>1. CASE QueryFails
  BY <1>1 DEF WorldInv, QueryFails, AlarmInv, Here, Bys
<1>2. CASE QueryLost
  BY <1>2 DEF WorldInv, QueryLost, AlarmInv, Here, Bys
<1>3. CASE QueryAnswered
  BY <1>3, FeedKeeps DEF WorldInv, QueryAnswered
<1> QED BY <1>1, <1>2, <1>3

\* Only the ghosts and the operations change.
LEMMA WorldRest ==
    ASSUME WorldInv, scene' = scene, fw' = fw, tracker' = tracker, diag' \in BOOLEAN, left' = left
    PROVE  WorldInv'
  BY DEF WorldInv, AlarmInv, Here, Bys

\* What an operation learns leaves it one.
LEMMA LearnedTyped ==
    ASSUME WorldInv, NEW o \in Operations
    PROVE  /\ Learned(o) \in Operations /\ Learned(o).req = o.req /\ Learned(o).pc = o.pc
           /\ Learned(o).code = o.code
           /\ Preflight(o) \in Operations /\ Preflight(o).req = o.req /\ Preflight(o).pc = o.pc
           /\ Preflight(o).code = o.code
           /\ Reported \in Statuses
<1>1. Reported \in Statuses
  BY StatusTyped DEF WorldInv, Reported
<1> DEFINE l == [o EXCEPT !.st = Reported]
<1>2. /\ l \in Operations /\ l.req = o.req /\ l.pc = o.pc /\ l.code = o.code
  BY <1>1 DEF Operations
<1>3. Learned(o) = l
  BY DEF Learned
<1> HIDE DEF l
<1> DEFINE z == IF o.pc = 2 THEN Reported.z ELSE l.z
           d == Reported.x - Reported.wx
<1>4. z \in Int /\ d \in Int
  BY <1>1, <1>2 DEF Statuses, Operations
<1>5. Preflight(o) = [l EXCEPT !.z = z, !.offset = d]
  BY <1>2, <1>3 DEF Preflight
<1> HIDE DEF z, d
<1>6. /\ [l EXCEPT !.z = z, !.offset = d] \in Operations
      /\ [l EXCEPT !.z = z, !.offset = d].req = l.req
      /\ [l EXCEPT !.z = z, !.offset = d].pc = l.pc
      /\ [l EXCEPT !.z = z, !.offset = d].code = l.code
  BY <1>2, <1>4 DEF Operations
<1> QED BY <1>1, <1>2, <1>3, <1>5, <1>6

LEMMA BaseWhole == OpsInv' /\ WorldInv' /\ DoneTyped' => BaseInv'
  BY BaseParts, PTL

-----------------------------------------------------------------------------
(* One lemma for each step of an operation.                                 *)

LEMMA BeginKeepsBase ==
    ASSUME BaseInv, NEW c \in Clients, Begin(c) PROVE BaseInv'
<1> DEFINE n == calls[c] + 1
           p == [req |-> Here.calls[c][n], pc |-> 1, st |-> tracker.status, z |-> 0,
                 offset |-> 0, contact |-> 0, code |-> 0, halted |-> FALSE, after |-> 0]
<1>1. OpsInv /\ WorldInv /\ DoneTyped
  BY BaseParts
<1>2. Here.calls[c] \in Seq(Requests) /\ n \in 1..Len(Here.calls[c]) /\ n \in Nat
  BY <1>1, SceneTyped DEF WorldInv, OpsInv, Begin
<1>3. Here.calls[c][n] \in Requests /\ tracker.status \in Statuses
  BY <1>1, <1>2, ElementOfSeq DEF WorldInv
<1>4. p \in Operations /\ p.req = Here.calls[c][n] /\ p.pc = 1 /\ p # None
  <2>1. p \in Operations
    BY <1>3 DEF Operations
  <2> QED BY <2>1, NoneIsNone
<1>5. ops' = [ops EXCEPT ![c] = p] /\ calls' = [calls EXCEPT ![c] = n] /\ ops[c] = None
      /\ scene' = scene /\ lock' = lock
  BY DEF Begin
<1> HIDE DEF p, n
<1>6. 1 \in DOMAIN Script(p)
  BY <1>4, ScriptFits, MethodOf DEF Length
<1>7. ~Inside(p)
  BY <1>4, MethodOf DEF Inside, InsideAt, Entry
<1>8. ops'[c] = p /\ calls'[c] = n /\ \A d \in Clients \ {c} : ops'[d] = ops[d] /\ calls'[d] = calls[d]
  BY <1>1, <1>5 DEF OpsInv
<1>9. ops' \in [Clients -> Operations \cup {None}] /\ calls' \in [Clients -> Nat]
  BY <1>1, <1>2, <1>4, <1>5 DEF OpsInv
<1>10. \A q : Script(q)' = Script(q)
  BY <1>5, ScriptKept
<1>11. \A d \in Clients : ops'[d] # None => ops'[d].pc \in DOMAIN Script(ops'[d])
  BY <1>1, <1>4, <1>6, <1>8 DEF OpsInv
<1>12. (\A d \in Clients : ops[d] # None => ops[d].pc \in DOMAIN Script(ops[d]))'
  BY <1>10, <1>11
<1>13. Requested'
  BY <1>5, <1>1, <1>2, <1>4, <1>8 DEF Here, OpsInv, Requested
<1>14. \A d \in Clients : (ops'[d] # None /\ Inside(ops'[d])) <=> lock' = d
  BY <1>1, <1>5, <1>7, <1>8 DEF OpsInv, LockInv
<1>15. LockInv'
  BY <1>14 DEF LockInv
<1>16. lock' \in Clients \cup {None} /\ (lock' # None => ops'[lock'] # None)
  BY <1>1, <1>4, <1>5, <1>8 DEF OpsInv
<1>17. OpsInv'
  BY <1>9, <1>12, <1>13, <1>15, <1>16 DEF OpsInv
<1>18. WorldInv'
  BY <1>1, WorldRest DEF Begin, WorldInv
<1>19. DoneTyped'
  BY <1>1 DEF Begin, DoneTyped
<1> QED BY <1>17, <1>18, <1>19, BaseWhole

LEMMA AcquireKeepsBase ==
    ASSUME BaseInv, NEW c \in Clients, ops[c] # None, Acquire(c, At(c)) PROVE BaseInv'
<1>1. OpsInv /\ WorldInv /\ DoneTyped
  BY BaseParts
<1>2. scene' = scene /\ calls' = calls /\ At(c).i = "lock" /\ lock = None
  BY DEF Acquire
<1>3. ops[c] \in Operations /\ ops[c].pc < Len(Script(ops[c]))
  BY <1>1, <1>2, AtIs
<1>4. (Go(c, ops[c]) /\ lock' = c) \/ Fail(c)
  BY DEF Acquire
<1>5. OpsInv' /\ DoneTyped'
  <2>1. CASE Go(c, ops[c]) /\ lock' = c
    BY <1>1, <1>2, <1>3, <2>1, Going
  <2>2. CASE Fail(c)
    BY <1>1, <1>2, <2>2, Failing
  <2> QED BY <1>4, <2>1, <2>2
<1>6. WorldInv'
  <2>1. CASE UNCHANGED <<tracker, fw, diag, left>>
    BY <1>1, <1>2, <2>1, WorldRest DEF WorldInv
  <2>2. CASE QueryFails \/ QueryLost \/ QueryAnswered
    BY <1>1, <1>2, <2>2, QueryKeeps
  <2> QED BY <2>1, <2>2 DEF Acquire
<1> QED BY <1>5, <1>6, BaseWhole

LEMMA ReleaseKeepsBase ==
    ASSUME BaseInv, NEW c \in Clients, ops[c] # None, Release(c, At(c)) PROVE BaseInv'
<1>1. OpsInv /\ WorldInv /\ DoneTyped
  BY BaseParts
<1>2. scene' = scene /\ calls' = calls /\ At(c).i = "unlock" /\ lock' = None
      /\ UNCHANGED <<fw, tracker, diag, left>>
  BY DEF Release
<1>3. ops[c] \in Operations /\ lock = c
  BY <1>1, <1>2, AtIs DEF Talks
<1>4. OpsInv' /\ DoneTyped'
  <2>1. CASE ops[c].pc < Len(Script(ops[c]))
    <3> DEFINE x == [ops[c] EXCEPT !.halted = FALSE]
    <3>1. x \in Operations /\ x.req = ops[c].req /\ x.pc = ops[c].pc /\ x.code = ops[c].code
      BY <1>3 DEF Operations
    <3>2. Go(c, x)
      BY <2>1 DEF Release
    <3> HIDE DEF x
    <3> QED BY <1>1, <1>2, <2>1, <3>1, <3>2, Going
  <2>2. CASE ~(ops[c].pc < Len(Script(ops[c])))
    <3>1. ops' = [ops EXCEPT ![c] = None] /\ lock' = Free(c)
      BY <1>2, <1>3, <2>2 DEF Release, Free
    <3>2. OpsInv'
      BY <1>1, <1>2, <3>1, Stops
    <3>3. [req |-> ops[c].req, ok |-> TRUE, contact |-> ops[c].contact] \in Results
      BY <1>3 DEF Operations, Results
    <3>4. DoneTyped'
      BY <1>1, <2>2, <3>3 DEF Release, DoneTyped
    <3> QED BY <3>2, <3>4
  <2> QED BY <2>1, <2>2
<1>5. WorldInv'
  BY <1>1, <1>2, WorldRest DEF WorldInv
<1> QED BY <1>4, <1>5, BaseWhole

\* What a step decides about the operation that takes it.
LEMMA Deciding ==
    ASSUME OpsInv, DoneTyped, NEW c \in Clients, ops[c] # None, NEW ok, NEW x \in Operations,
           x.req = ops[c].req, x.pc = ops[c].pc, x.code = ops[c].code, GoOrFail(c, ok, x),
           At(c).i \notin {"lock", "unlock"}, scene' = scene, calls' = calls
    PROVE  OpsInv' /\ DoneTyped'
<1>1. ops[c].pc < Len(Script(ops[c]))
  BY AtIs
<1>2. CASE Go(c, x) /\ lock' = lock
  BY <1>1, <1>2, Going
<1>3. CASE Fail(c)
  BY <1>3, Failing
<1> QED BY <1>2, <1>3 DEF GoOrFail

LEMMA DecideKeepsBase ==
    ASSUME BaseInv, NEW c \in Clients, ops[c] # None, Decide(c, At(c)) PROVE BaseInv'
<1>1. OpsInv /\ WorldInv /\ DoneTyped /\ ops[c] \in Operations
  BY BaseParts, AtIs
<1>2. /\ scene' = scene /\ calls' = calls /\ At(c).i \notin {"lock", "unlock"}
      /\ UNCHANGED <<fw, tracker, diag, left>> /\ \E ok : GoOrFail(c, ok, ops[c])
  BY DEF Decide
<1>3. OpsInv' /\ DoneTyped'
  BY <1>1, <1>2, Deciding
<1>4. WorldInv'
  BY <1>1, <1>2, WorldRest DEF WorldInv
<1> QED BY <1>3, <1>4, BaseWhole

LEMMA AskKeepsBase ==
    ASSUME BaseInv, NEW c \in Clients, ops[c] # None, Ask(c, At(c)) PROVE BaseInv'
<1>1. OpsInv /\ WorldInv /\ DoneTyped /\ ops[c] \in Operations
  BY BaseParts, AtIs
<1>2. /\ scene' = scene /\ calls' = calls /\ At(c).i \notin {"lock", "unlock"}
      /\ QueryFails \/ QueryLost \/ QueryAnswered
      /\ Fail(c) \/ \E ok : GoOrFail(c, ok, Preflight(ops[c]))
  BY DEF Ask
<1>3. OpsInv' /\ DoneTyped'
  <2>1. CASE Fail(c)
    BY <1>1, <1>2, <2>1, Failing
  <2>2. CASE \E ok : GoOrFail(c, ok, Preflight(ops[c]))
    BY <1>1, <1>2, <2>2, LearnedTyped, Deciding
  <2> QED BY <1>2, <2>1, <2>2
<1>4. WorldInv'
  BY <1>1, <1>2, QueryKeeps
<1> QED BY <1>3, <1>4, BaseWhole

LEMMA BestEffortKeepsBase ==
    ASSUME BaseInv, NEW c \in Clients, ops[c] # None, BestEffort(c, At(c)) PROVE BaseInv'
<1>1. OpsInv /\ WorldInv /\ DoneTyped /\ ops[c] \in Operations
  BY BaseParts, AtIs
<1>2. /\ scene' = scene /\ calls' = calls /\ lock' = lock /\ At(c).i \notin {"lock", "unlock"}
      /\ QueryFails \/ QueryLost \/ QueryAnswered
      /\ Go(c, ops[c])
  BY DEF BestEffort
<1>3. OpsInv' /\ DoneTyped'
  BY <1>1, <1>2, Going, AtIs
<1>4. WorldInv'
  BY <1>1, <1>2, QueryKeeps
<1> QED BY <1>3, <1>4, BaseWhole

LEMMA LearnReasonKeepsBase ==
    ASSUME BaseInv, NEW c \in Clients, ops[c] # None, LearnReason(c, At(c)) PROVE BaseInv'
<1>1. OpsInv /\ WorldInv /\ DoneTyped /\ ops[c] \in Operations
  BY BaseParts, AtIs
<1>2. scene' = scene /\ calls' = calls /\ At(c).i = "learn" /\ ops[c].pc < Len(Script(ops[c]))
  BY <1>1, AtIs DEF LearnReason
<1>3. ops[c].pc = 1
  BY <1>1, <1>2, AtIs DEF Shape
<1>4. ASSUME NEW st \in Statuses, Go(c, [ops[c] EXCEPT !.st = st, !.code = st.halt]), lock' = lock
      PROVE  OpsInv' /\ DoneTyped'
  <2> DEFINE x == [ops[c] EXCEPT !.st = st, !.code = st.halt]
  <2>1. x \in Operations /\ x.req = ops[c].req /\ x.pc = ops[c].pc
    BY <1>1 DEF Operations, Statuses
  <2>2. Go(c, x)
    BY <1>4
  <2> HIDE DEF x
  <2> QED BY <1>1, <1>2, <1>3, <1>4, <2>1, <2>2, Going
<1>5. CASE /\ Go(c, [ops[c] EXCEPT !.st = tracker.status, !.code = tracker.status.halt])
           /\ UNCHANGED <<tracker, fw, diag, left, lock>>
  <2>1. tracker.status \in Statuses
    BY <1>1 DEF WorldInv
  <2>2. OpsInv' /\ DoneTyped'
    BY <1>4, <1>5, <2>1
  <2>3. WorldInv'
    BY <1>1, <1>2, <1>5, WorldRest DEF WorldInv
  <2> QED BY <2>2, <2>3, BaseWhole
<1>6. CASE (QueryFails \/ QueryLost) /\ Fail(c)
  BY <1>1, <1>2, <1>6, Failing, QueryKeeps, BaseWhole
<1>7. CASE /\ QueryAnswered /\ UNCHANGED lock
           /\ Go(c, [ops[c] EXCEPT !.st = Reported, !.code = Reported.halt])
  <2>1. Reported \in Statuses
    BY <1>1, LearnedTyped
  <2>2. OpsInv' /\ DoneTyped'
    BY <1>4, <1>7, <2>1
  <2>3. WorldInv'
    BY <1>1, <1>2, <1>7, QueryKeeps
  <2> QED BY <2>2, <2>3, BaseWhole
<1> QED BY <1>5, <1>6, <1>7 DEF LearnReason

LEMMA ExchangeKeepsBase ==
    ASSUME BaseInv, NEW c \in Clients, ops[c] # None, Exchange(c, At(c)) PROVE BaseInv'
<1> DEFINE a == IF ops[c].after < 2 /\ ops[c].halted THEN ops[c].after + 1 ELSE ops[c].after
           x == [ops[c] EXCEPT !.after = a]
<1>1. OpsInv /\ WorldInv /\ DoneTyped /\ ops[c] \in Operations /\ Shape(ops[c])
      /\ At(c) = Script(ops[c])[ops[c].pc]
  BY BaseParts, AtIs
<1>2. /\ scene' = scene /\ calls' = calls /\ At(c).i = "send" /\ tracker' = tracker /\ left' = left
      /\ diag' = FALSE /\ fw' = Taken(fw, At(c).line, <<c, calls[c]>>)
  BY DEF Exchange
<1>3. OpsInv' /\ DoneTyped'
  <2>0. a \in Nat
    BY <1>1 DEF Operations
  <2>1. GoOrFail(c, ~Refused(fw, At(c).line), x)
    BY <1>1 DEF Exchange, Operations
  <2>2. x \in Operations /\ x.req = ops[c].req /\ x.pc = ops[c].pc /\ x.code = ops[c].code
    <3> HIDE DEF a
    <3> QED BY <1>1, <2>0 DEF Operations
  <2> HIDE DEF x
  <2> QED BY <1>1, <1>2, <2>1, <2>2, Deciding
<1>4. WorldInv'
  <2>1. At(c).line \in Lines
    BY <1>1, <1>2 DEF Shape
  <2>2. <<c, calls[c]>> \in Bys
    BY <1>1 DEF Bys, OpsInv
  <2>3. fw \in Machines(Bys) /\ SoundAlarm(fw, Here.alarmLock) /\ Here.alarmLock \in BOOLEAN
        /\ Here.unlockClears \in BOOLEAN /\ Here.vacuum \in BOOLEAN
    BY <1>1, SceneTyped DEF WorldInv, AlarmInv
  <2>4. fw' \in Machines(Bys) /\ SoundAlarm(fw', Here.alarmLock)
    BY <1>2, <2>1, <2>2, <2>3, TakenTyped, TakenSound
  <2>5. Here' = Here
    BY <1>2 DEF Here
  <2> QED BY <1>1, <1>2, <2>4, <2>5 DEF WorldInv, AlarmInv, Bys
<1> QED BY <1>3, <1>4, BaseWhole

LEMMA TakeContactKeepsBase ==
    ASSUME BaseInv, NEW c \in Clients, ops[c] # None, TakeContact(c, At(c)) PROVE BaseInv'
<1>1. OpsInv /\ WorldInv /\ DoneTyped /\ ops[c] \in Operations
  BY BaseParts, AtIs
<1>2. /\ scene' = scene /\ calls' = calls /\ At(c).i = "contact" /\ tracker' = tracker /\ left' = left
      /\ fw' = fw /\ diag' \in BOOLEAN
  BY <1>1 DEF TakeContact, WorldInv
<1>3. OpsInv' /\ DoneTyped'
  <2>1. CASE Fail(c)
    BY <1>1, <1>2, <2>1, Failing
  <2>2. CASE Go(c, [ops[c] EXCEPT !.contact = fw.m["z"]]) /\ lock' = lock
    <3> DEFINE x == [ops[c] EXCEPT !.contact = fw.m["z"]]
    <3>1. fw.m["z"] \in Int
      BY <1>1 DEF WorldInv, Machines, Points, Axes
    <3>2. x \in Operations /\ x.req = ops[c].req /\ x.pc = ops[c].pc /\ x.code = ops[c].code
      BY <1>1, <3>1 DEF Operations
    <3> HIDE DEF x
    <3> QED BY <1>1, <1>2, <2>2, <3>2, Going, AtIs DEF x
  <2> QED BY <2>1, <2>2 DEF TakeContact
<1>4. WorldInv'
  BY <1>1, <1>2, WorldRest
<1> QED BY <1>3, <1>4, BaseWhole

LEMMA WaitEndsKeepsBase ==
    ASSUME BaseInv, NEW c \in Clients, ops[c] # None, WaitEnds(c, At(c)) PROVE BaseInv'
<1>1. OpsInv /\ WorldInv /\ DoneTyped /\ ops[c] \in Operations
  BY BaseParts, AtIs
<1>2. /\ scene' = scene /\ calls' = calls /\ At(c).i \notin {"lock", "unlock"}
      /\ UNCHANGED <<fw, tracker, diag, left>> /\ \E ok : GoOrFail(c, ok, ops[c])
  BY DEF WaitEnds
<1>3. OpsInv' /\ DoneTyped'
  BY <1>1, <1>2, Deciding
<1>4. WorldInv'
  BY <1>1, <1>2, WorldRest DEF WorldInv
<1> QED BY <1>3, <1>4, BaseWhole

LEMMA OpsSame ==
    ASSUME OpsInv, scene' = scene, calls' = calls, lock' = lock, ops' = ops
    PROVE  OpsInv'
  BY OpsRest DEF OpsInv

LEMMA WaitKeepsBase ==
    ASSUME BaseInv, NEW c \in Clients, Wait(c) PROVE BaseInv'
<1>0. ops[c] # None
  BY DEF Wait
<1>1. OpsInv /\ WorldInv /\ DoneTyped /\ ops[c] \in Operations
  BY <1>0, BaseParts, AtIs
<1>2. /\ scene' = scene /\ calls' = calls /\ At(c).i \notin {"lock", "unlock"}
      /\ QueryFails \/ QueryLost \/ QueryAnswered
      /\ \/ Fail(c)
         \/ UNCHANGED <<ops, done, lock>>
         \/ Go(c, Learned(ops[c])) /\ UNCHANGED lock
  BY DEF Wait
<1>3. OpsInv' /\ DoneTyped'
  <2>1. CASE Fail(c)
    BY <1>0, <1>1, <1>2, <2>1, Failing
  <2>2. CASE UNCHANGED <<ops, done, lock>>
    BY <1>1, <1>2, <2>2, OpsSame DEF DoneTyped
  <2>3. CASE Go(c, Learned(ops[c])) /\ UNCHANGED lock
    BY <1>0, <1>1, <1>2, <2>3, LearnedTyped, Going, AtIs
  <2> QED BY <1>2, <2>1, <2>2, <2>3
<1>4. WorldInv'
  BY <1>1, <1>2, QueryKeeps
<1> QED BY <1>3, <1>4, BaseWhole

\* What a script is made from.
LEMMA ScriptFrom ==
    ASSUME NEW o, NEW p, p.req = o.req, p.pc = o.pc, p.st = o.st, p.z = o.z, p.offset = o.offset,
           p.contact = o.contact, p.code = o.code
    PROVE  Script(p) = Script(o)
<1>1. /\ PauseJob(p) = PauseJob(o) /\ ResumeJob(p) = ResumeJob(o)
      /\ RunPausedJobCommand(p) = RunPausedJobCommand(o)
  BY Zenon DEF PauseJob, ResumeJob, RunPausedJobCommand, RaiseTarget
<1>2. SetFeedOverride(p) = SetFeedOverride(o) /\ SetAutoVacuum(p) = SetAutoVacuum(o)
  BY Zenon DEF SetFeedOverride, SetAutoVacuum
<1>9. SendGcode(p) = SendGcode(o)
  BY Zenon DEF SendGcode
<1>3. SetMachineOrigin(p) = SetMachineOrigin(o) /\ ProbeZ(p) = ProbeZ(o) 
  BY Zenon DEF SetMachineOrigin, ResolveMachineOrigin, ProbeZ, ProbeRetract
<1>4. TraceOutline(p) = TraceOutline(o)
  BY Zenon DEF TraceOutline, TracePoint
<1>5. zProbeSetWorkZero(p) = zProbeSetWorkZero(o)
  BY Zenon DEF zProbeSetWorkZero, Retract
<1>6. Probe3D(p) = Probe3D(o)
  BY Zenon DEF Probe3D, probe3DInitialPosition
<1>7. /\ SetCurrentToolID(p) = SetCurrentToolID(o) /\ ChangeTool(p) = ChangeTool(o)
      /\ DropCurrentTool(p) = DropCurrentTool(o) /\ CalibrateCurrentTool(p) = CalibrateCurrentTool(o)
      /\ ContinueToolChange(p) = ContinueToolChange(o)
  BY Zenon DEF SetCurrentToolID, ChangeTool, DropCurrentTool, CalibrateCurrentTool, ContinueToolChange
<1>8. RecoverAlarm(p) = RecoverAlarm(o)
  <2>1. RecoveryAllowed(p) = RecoveryAllowed(o)
    BY Zenon DEF RecoveryAllowed
  <2>2. recoverAlarmUnlock(p) = recoverAlarmUnlock(o)
    BY Zenon DEF recoverAlarmUnlock
  <2>3. recoverAlarmReset(p) = recoverAlarmReset(o) /\ recoverAlarmHome(p) = recoverAlarmHome(o)
    BY Zenon DEF recoverAlarmReset, recoverAlarmHome
  <2>4. recoverAlarmGuided(p) = recoverAlarmGuided(o)
    BY Zenon, <2>2, <2>3 DEF recoverAlarmGuided
  <2> QED BY Zenon, <2>1, <2>2, <2>3, <2>4 DEF RecoverAlarm
<1> QED BY Zenon, <1>1, <1>2, <1>3, <1>4, <1>5, <1>6, <1>7, <1>8, <1>9 DEF Script

-----------------------------------------------------------------------------
(* The steps of everything else.                                            *)

\* The machine alone changes.
LEMMA MachineChanges ==
    ASSUME BaseInv, scene' = scene, calls' = calls, lock' = lock, tracker' = tracker, done' = done,
           diag' \in BOOLEAN, left' \in [lose : Nat, control : Nat, play : Nat],
           fw' \in Machines(Bys), SoundAlarm(fw', Here.alarmLock), OpsInv'
    PROVE  BaseInv'
<1>1. WorldInv /\ DoneTyped
  BY BaseParts
<1>2. Here' = Here
  BY DEF Here
<1>3. WorldInv'
  BY <1>1, <1>2 DEF WorldInv, AlarmInv, Bys
<1>4. DoneTyped'
  BY <1>1 DEF DoneTyped
<1> QED BY <1>3, <1>4, BaseWhole

LEMMA ObserveKeepsBase ==
    ASSUME BaseInv, Observe \/ Ages \/ UNCHANGED vars PROVE BaseInv'
<1>1. OpsInv /\ WorldInv /\ DoneTyped
  BY BaseParts
<1>2. scene' = scene /\ calls' = calls /\ lock' = lock /\ done' = done /\ ops' = ops /\ left' = left
  BY DEF Observe, Ages, vars
<1>3. OpsInv' /\ DoneTyped'
  BY <1>1, <1>2, OpsSame DEF DoneTyped
<1>4. CASE Observe
  BY <1>1, <1>2, <1>4, <1>3, FeedKeeps, BaseWhole DEF Observe, WorldInv
<1>5. CASE Ages
  <2>1. tracker' \in [status : Statuses, fresh : BOOLEAN]
    BY <1>1, <1>5 DEF Ages, WorldInv
  <2>2. fw' = fw /\ diag' = diag /\ Here' = Here
    BY <1>2, <1>5 DEF Ages, Here
  <2>3. WorldInv'
    BY <1>1, <1>2, <2>1, <2>2 DEF WorldInv, AlarmInv, Bys
  <2> QED BY <1>3, <2>3, BaseWhole
<1>6. CASE UNCHANGED vars
  BY <1>1, <1>2, <1>6, WorldRest, <1>3, BaseWhole DEF WorldInv, vars
<1> QED BY <1>4, <1>5, <1>6

\* A realtime control marks the operation it meets; its script is the same.
LEMMA HaltedOps ==
    ASSUME BaseInv, NEW ctl, SendControl(ctl)
    PROVE  /\ ops' \in [Clients -> Operations \cup {None}]
           /\ \A c \in Clients :
                 /\ ops'[c] = None <=> ops[c] = None
                 /\ ops[c] # None =>
                      /\ Script(ops'[c]) = Script(ops[c]) /\ ops'[c].pc = ops[c].pc
                      /\ ops'[c].req = ops[c].req /\ ops'[c].contact = ops[c].contact
                      /\ ops'[c].after = ops[c].after /\ ops'[c].st = ops[c].st
                      /\ ops'[c].z = ops[c].z
                      /\ ops'[c].halted => ops[c].halted \/ (ctl = "halt" /\ lock = c)
<1>1. OpsInv
  BY BaseParts
<1>2. ASSUME NEW c \in Clients, ops[c] # None, ctl = "halt" /\ lock = c
      PROVE  /\ ops'[c] \in Operations /\ ops'[c] # None
             /\ Script(ops'[c]) = Script(ops[c]) /\ ops'[c].pc = ops[c].pc /\ ops'[c].req = ops[c].req
             /\ ops'[c].contact = ops[c].contact /\ ops'[c].after = ops[c].after
             /\ ops'[c].st = ops[c].st /\ ops'[c].z = ops[c].z
  <2> DEFINE p == [ops[c] EXCEPT !.halted = TRUE]
  <2>1. ops'[c] = p
    BY <1>2 DEF SendControl
  <2>2. ops[c] \in Operations
    BY <1>1, <1>2 DEF OpsInv
  <2>3. /\ p \in Operations
        /\ p.req = ops[c].req /\ p.pc = ops[c].pc /\ p.st = ops[c].st /\ p.z = ops[c].z
        /\ p.offset = ops[c].offset /\ p.contact = ops[c].contact /\ p.code = ops[c].code
        /\ p.after = ops[c].after
    BY <2>2 DEF Operations
  <2> HIDE DEF p
  <2>4. Script(p) = Script(ops[c])
    BY <2>3, ScriptFrom
  <2> QED BY <2>1, <2>3, <2>4, NoneIsNone
<1>3. \A c \in Clients : ~(ctl = "halt" /\ lock = c) => ops'[c] = ops[c]
  BY DEF SendControl
<1>4. \A c \in Clients : lock = c => ops[c] # None
  BY <1>1, NoneIsNone DEF OpsInv
<1>5. \A c \in Clients : /\ ops'[c] \in Operations \cup {None}
                         /\ ops'[c] = None <=> ops[c] = None
  BY <1>1, <1>2, <1>3, <1>4 DEF OpsInv
<1>6. ops' \in [Clients -> Operations \cup {None}]
  <2>1. ops' = [c \in Clients |-> ops'[c]]
    BY DEF SendControl
  <2> HIDE DEF SendControl
  <2> QED BY <1>5, <2>1
<1>7. \A c \in Clients : ops[c] # None => 
                      /\ Script(ops'[c]) = Script(ops[c]) /\ ops'[c].pc = ops[c].pc
                      /\ ops'[c].req = ops[c].req /\ ops'[c].contact = ops[c].contact
                      /\ ops'[c].after = ops[c].after /\ ops'[c].st = ops[c].st
                      /\ ops'[c].z = ops[c].z
                      /\ ops'[c].halted => ops[c].halted \/ (ctl = "halt" /\ lock = c)
  BY <1>2, <1>3
<1> QED BY <1>5, <1>6, <1>7

LEMMA SendControlKeepsBase ==
    ASSUME BaseInv, NEW ctl \in {"hold", "resume", "halt"}, SendControl(ctl) PROVE BaseInv'
<1>1. OpsInv /\ WorldInv /\ DoneTyped
  BY BaseParts
<1>2. scene' = scene /\ calls' = calls /\ lock' = lock /\ tracker' = tracker /\ done' = done
  BY DEF SendControl
<1>3. OpsInv'
  BY <1>1, <1>2, HaltedOps, OpsRest
<1>4. diag' \in BOOLEAN /\ left' \in [lose : Nat, control : Nat, play : Nat]
  BY <1>1 DEF SendControl, WorldInv
<1>5. fw \in Machines(Bys) /\ SoundAlarm(fw, Here.alarmLock) /\ Here.alarmLock \in BOOLEAN
  BY <1>1, SceneTyped DEF WorldInv, AlarmInv
<1>6. 1 \in Nat \ {0}
  OBVIOUS
<1>7. fw' \in {FeedHold(fw), Resume(fw), Halt(fw, 1)}
  BY DEF SendControl
<1>8. fw' \in Machines(Bys)
  BY <1>5, <1>6, <1>7, ControlTyped
<1>9. SoundAlarm(fw', Here.alarmLock)
  BY <1>5, <1>6, <1>7, EnvironmentSound
<1> QED BY <1>2, <1>3, <1>4, <1>8, <1>9, MachineChanges

LEMMA WorldMovesKeepsBase ==
    ASSUME BaseInv, Plays \/ Moves \/ ProgramEnds \/ \E code \in Here.codes : Fault(code) PROVE BaseInv'
<1>1. OpsInv /\ WorldInv /\ DoneTyped
  BY BaseParts
<1>2. scene' = scene /\ calls' = calls /\ lock' = lock /\ tracker' = tracker /\ done' = done
      /\ ops' = ops /\ diag' = diag
  BY DEF Plays, Moves, ProgramEnds, Fault
<1>3. OpsInv'
  BY <1>1, <1>2, OpsSame
<1>4. diag' \in BOOLEAN /\ left' \in [lose : Nat, control : Nat, play : Nat]
  BY <1>1, <1>2 DEF Plays, Moves, ProgramEnds, Fault, WorldInv
<1>5. fw \in Machines(Bys) /\ SoundAlarm(fw, Here.alarmLock) /\ Here.alarmLock \in BOOLEAN
      /\ Here.codes \subseteq Nat \ {0} /\ ByProgram \in Bys
  BY <1>1, SceneTyped DEF WorldInv, AlarmInv, Bys
<1>6. 1 \in Nat \ {0}
  OBVIOUS
<1>7. fw' \in Machines(Bys) /\ SoundAlarm(fw', Here.alarmLock)
  <2>1. CASE Plays
    BY <2>1, <1>5, <1>6, ProgramTyped, EnvironmentSound DEF Plays
  <2>2. CASE Moves
    BY <2>2, <1>5, <1>6, TimeTyped, EnvironmentSound DEF Moves
  <2>3. CASE ProgramEnds
    BY <2>3, <1>5, <1>6, TimeTyped, EnvironmentSound DEF ProgramEnds
  <2>4. CASE \E code \in Here.codes : Fault(code)
    <3>1. PICK code \in Nat \ {0} : fw' = Halt(fw, code)
      BY <1>5, <2>4 DEF Fault
    <3> QED BY <1>5, <3>1, ControlTyped, EnvironmentSound
  <2> QED BY <2>1, <2>2, <2>3, <2>4
<1> QED BY <1>2, <1>3, <1>4, <1>7, MachineChanges

LEMMA StepKeepsBase ==
    ASSUME BaseInv, NEW c \in Clients, Step(c) PROVE BaseInv'
<1>1. ops[c] # None
  BY DEF Step
<1> QED BY <1>1, AcquireKeepsBase, ReleaseKeepsBase, DecideKeepsBase, AskKeepsBase,
           BestEffortKeepsBase, LearnReasonKeepsBase, ExchangeKeepsBase, TakeContactKeepsBase,
           WaitEndsKeepsBase DEF Step

LEMMA NextKeepsBase == ASSUME BaseInv, [Next]_vars PROVE BaseInv'
  BY BeginKeepsBase, StepKeepsBase, WaitKeepsBase, ObserveKeepsBase, SendControlKeepsBase,
     WorldMovesKeepsBase DEF Next

\* The state of the operations is well formed: the machine and what the tracker
\* holds of it, the operations with their instructions and who has the lock.
THEOREM MachineOpsTypeCorrect == Spec => []TypeOK
<1>1. Init => BaseInv
  BY InitBase
<1>2. BaseInv /\ [Next]_vars => BaseInv'
  BY NextKeepsBase
<1>3. BaseInv => TypeOK
  BY DEF BaseInv
<1> QED BY <1>1, <1>2, <1>3, PTL DEF Spec

-----------------------------------------------------------------------------
(* Who changes what.                                                        *)

\* The steps of a client, and all others.
Acts(c) == Begin(c) \/ Step(c) \/ Wait(c)
World ==
    \/ Observe \/ Ages \/ Plays \/ Moves \/ ProgramEnds
    \/ \E ctl \in {"hold", "resume", "halt"} : SendControl(ctl)
    \/ \E code \in Here.codes : Fault(code)

LEMMA NextSplit == ASSUME [Next]_vars PROVE (\E c \in Clients : Acts(c)) \/ World \/ UNCHANGED vars
  BY DEF Next, Acts, World

\* What a client's step does to its own operation.
Ends(c) == ops' = [ops EXCEPT ![c] = None]
LEMMA ActsIs ==
    ASSUME BaseInv, NEW d \in Clients, Acts(d)
    PROVE  /\ scene' = scene
           /\ \E p : ops' = [ops EXCEPT ![d] = p]
           /\ \E r : done' = [done EXCEPT ![d] = r]
           /\ calls' = calls \/ (ops[d] = None /\ \E n : calls' = [calls EXCEPT ![d] = n])
<1>1. ops = [ops EXCEPT ![d] = ops[d]] /\ done = [done EXCEPT ![d] = done[d]]
  BY DEF BaseInv, TypeOK
<1>2. CASE Begin(d)
  BY <1>1, <1>2 DEF Begin
<1>3. CASE Step(d)
  BY <1>1, <1>3 DEF Step, Acquire, Release, Decide, Ask, BestEffort, LearnReason, Exchange, TakeContact,
         WaitEnds, GoOrFail, Go, Fail
<1>4. CASE Wait(d)
  BY <1>1, <1>4 DEF Wait, Go, Fail
<1> QED BY <1>2, <1>3, <1>4 DEF Acts

LEMMA OthersKept ==
    ASSUME BaseInv, NEW c \in Clients, NEW d \in Clients, d # c, Acts(d)
    PROVE  ops'[c] = ops[c] /\ calls'[c] = calls[c] /\ done'[c] = done[c] /\ scene' = scene
<1>1. ops \in [Clients -> Operations \cup {None}] /\ calls \in [Clients -> Nat]
      /\ done \in [Clients -> Results \cup {None}]
  BY DEF BaseInv, TypeOK
<1>2. PICK p : ops' = [ops EXCEPT ![d] = p]
  BY ActsIs
<1>3. PICK r : done' = [done EXCEPT ![d] = r]
  BY ActsIs
<1>4. calls' = calls \/ \E n : calls' = [calls EXCEPT ![d] = n]
  BY ActsIs
<1>5. scene' = scene
  BY ActsIs
<1> QED BY <1>1, <1>2, <1>3, <1>4, <1>5

LEMMA OthersQuiet ==
    ASSUME BaseInv, NEW c \in Clients, NEW d \in Clients, d # c, lock = c, Acts(d)
    PROVE  fw' = fw /\ diag' = diag /\ lock' = lock /\ tracker' = tracker
<1>1. OpsInv /\ c # None
  BY BaseParts, NoneIsNone
<1>2. CASE Begin(d)
  BY <1>2 DEF Begin
<1>3. CASE ops[d] # None /\ Step(d)
  <2>1. At(d).i \notin Talks
    BY <1>1, <1>3, AtIs
  <2>2. At(d).i \notin {"send", "query", "gate", "contact", "refresh", "await", "unlock"}
    BY <2>1 DEF Talks
  <2>3. CASE Decide(d, At(d))
    BY <2>3, <1>1 DEF Decide, GoOrFail, Go, Fail, Free
  <2>4. CASE LearnReason(d, At(d))
    BY <2>4, <1>1 DEF LearnReason
  <2>5. Decide(d, At(d)) \/ LearnReason(d, At(d))
    BY <1>1, <1>3, <2>2 DEF Step, Acquire, Release, Ask, BestEffort, Exchange, TakeContact, WaitEnds
  <2> QED BY <2>3, <2>4, <2>5
<1>4. CASE ops[d] # None /\ Wait(d)
  BY <1>1, <1>4, AtIs DEF Wait, Talks
<1> QED BY <1>2, <1>3, <1>4 DEF Acts, Step, Wait

\* A step of an operation that goes on: to the next instruction, by the one it
\* is at.
Kept(o, p) == p.contact = o.contact /\ p.halted = o.halted /\ p.after = o.after
\* The machine is left alone, or asked for its status.
Seen(f, g) == g = f \/ g = statusAt(f)
Advances(c, ins, o, p) ==
    \/ ins.i = "lock" /\ Kept(o, p) /\ Seen(fw, fw')
    \/ ins.i = "unlock" /\ p.contact = o.contact /\ ~p.halted /\ p.after = o.after /\ fw' = fw
    \/ /\ ins.i \in {"check", "track", "gate"} /\ Kept(o, p) /\ fw' = fw /\ diag' = diag
       /\ ins.i = "check" => ins.ok
    \/ /\ ins.i \in {"gate", "query"} /\ Kept(o, p) /\ ~diag
       /\ fw' = statusAt(fw) /\ Matches(Reported, ins.want)
    \/ ins.i \in {"refresh", "learn"} /\ Kept(o, p) /\ Seen(fw, fw')
    \/ /\ ins.i = "send" /\ p.contact = o.contact /\ p.halted = o.halted
       /\ ~o.halted => p.after = o.after
       /\ ~Refused(fw, ins.line) /\ fw' = Taken(fw, ins.line, <<c, calls[c]>>)
    \/ /\ ins.i = "contact" /\ p.halted = o.halted /\ p.after = o.after
       /\ ~diag /\ ~Probing(c) /\ fw' = fw /\ p.contact = fw.m["z"]
    \/ /\ ins.i = "await" /\ Kept(o, p)
       /\ \/ ins.late = "ok" /\ fw' = fw /\ diag' = diag
          \/ ~diag /\ fw' = statusAt(fw) /\ Matches(Reported, ins.want)
\* It goes on.
Goes(c) ==
    /\ ops'[c] \in Operations /\ ops'[c].req = ops[c].req /\ ops'[c].pc = ops[c].pc + 1
    /\ ops'[c].code = ops[c].code \/ ops[c].pc = 1
    /\ Advances(c, At(c), ops[c], ops'[c])
    /\ ops[c].pc < Len(Script(ops[c]))
    /\ calls' = calls /\ done' = done /\ scene' = scene
\* It asks again.
Stays(c) ==
    /\ ops'[c] = ops[c] /\ calls' = calls /\ done' = done /\ scene' = scene /\ lock' = lock
    /\ At(c).i = "await" /\ Seen(fw, fw')
    /\ ~At(c).strict \/ ~diag
\* It ends.
Over(c) ==
    /\ ops'[c] = None /\ calls' = calls /\ scene' = scene
    /\ done'[c].req = ops[c].req
    /\ \/ /\ done'[c].ok /\ At(c).i = "unlock" /\ ops[c].pc = Len(Script(ops[c])) /\ fw' = fw
          /\ done'[c].contact = ops[c].contact
       \/ /\ ~done'[c].ok
          /\ \/ Seen(fw, fw')
             \/ At(c).i = "send" /\ fw' = Taken(fw, At(c).line, <<c, calls[c]>>)

\* How an operation fails, and how it goes on.
LEMMA FailIs ==
    ASSUME BaseInv, NEW c \in Clients, ops[c] # None, Fail(c), calls' = calls, scene' = scene,
           Seen(fw, fw') \/ (At(c).i = "send" /\ fw' = Taken(fw, At(c).line, <<c, calls[c]>>))
    PROVE  Over(c)
<1>1. ops'[c] = None /\ done'[c] = [req |-> ops[c].req, ok |-> FALSE, contact |-> 0]
  BY DEF BaseInv, TypeOK, Fail
<1> QED BY <1>1 DEF Over

LEMMA GoIs ==
    ASSUME BaseInv, NEW c \in Clients, ops[c] # None, NEW x \in Operations, Go(c, x),
           x.req = ops[c].req, x.pc = ops[c].pc, x.code = ops[c].code \/ x.pc = 1,
           At(c).i # "unlock" \/ ops[c].pc < Len(Script(ops[c])), calls' = calls, scene' = scene,
           NEW ins, ins = At(c),
           \A p : p.contact = x.contact /\ p.halted = x.halted /\ p.after = x.after =>
                     Advances(c, ins, ops[c], p)
    PROVE  Goes(c)
<1> DEFINE p == [x EXCEPT !.pc = x.pc + 1]
<1>1. /\ p \in Operations /\ p.req = x.req /\ p.pc = x.pc + 1 /\ p.code = x.code
      /\ p.contact = x.contact /\ p.halted = x.halted /\ p.after = x.after
  BY DEF Operations
<1>2. ops'[c] = p /\ done' = done
  BY DEF Go, BaseInv, TypeOK
<1>3. ops[c].pc < Len(Script(ops[c]))
  BY BaseParts, AtIs
<1> HIDE DEF p
<1>4. Advances(c, At(c), ops[c], p)
  BY <1>1
<1> QED BY <1>1, <1>2, <1>3, <1>4 DEF Goes

LEMMA Outcome ==
    ASSUME BaseInv, NEW c \in Clients, ops[c] # None, Acts(c)
    PROVE  Goes(c) \/ Stays(c) \/ Over(c)
<1> DEFINE o == ops[c]
           ins == At(c)
<1>1. WorldInv /\ o \in Operations /\ OpsInv
  BY BaseParts, AtIs
<1>2. QueryFails \/ QueryLost => fw' = fw
  BY DEF QueryFails, QueryLost
<1>3. QueryAnswered => ~diag /\ fw' = statusAt(fw)
  BY DEF QueryAnswered, Feed
<1>4. CASE Acquire(c, ins)
  <2>1. ins.i = "lock" /\ calls' = calls /\ scene' = scene /\ Seen(fw, fw')
    BY <1>2, <1>3, <1>4 DEF Acquire, Seen
  <2>2. CASE Go(c, o)
    <3>1. \A p : p.contact = o.contact /\ p.halted = o.halted /\ p.after = o.after => Advances(c, ins, o, p)
      BY <2>1 DEF Advances, Kept
    <3> HIDE DEF o, ins
    <3> QED BY <1>1, <2>1, <2>2, <3>1, GoIs DEF o, ins
  <2>3. CASE Fail(c)
    BY <2>1, <2>3, FailIs
  <2> QED BY <1>4, <2>2, <2>3 DEF Acquire
<1>5. CASE Release(c, ins)
  <2>1. ins.i = "unlock" /\ fw' = fw /\ scene' = scene /\ calls' = calls
    BY <1>5 DEF Release
  <2>2. CASE o.pc < Len(Script(o))
    <3> DEFINE x == [o EXCEPT !.halted = FALSE]
    <3>1. /\ x \in Operations /\ x.req = o.req /\ x.pc = o.pc /\ x.code = o.code
          /\ x.contact = o.contact /\ x.after = o.after /\ ~x.halted
      BY <1>1 DEF Operations
    <3>2. Go(c, x)
      BY <1>5, <2>2 DEF Release
    <3> HIDE DEF x
    <3>3. \A p : p.contact = x.contact /\ p.halted = x.halted /\ p.after = x.after => Advances(c, ins, o, p)
      BY <2>1, <3>1 DEF Advances
    <3> HIDE DEF o, ins
    <3> QED BY <1>1, <2>1, <2>2, <3>1, <3>2, <3>3, GoIs DEF o, ins
  <2>3. CASE ~(o.pc < Len(Script(o)))
    <3>1. /\ ops' = [ops EXCEPT ![c] = None]
          /\ done' = [done EXCEPT ![c] = [req |-> ops[c].req, ok |-> TRUE, contact |-> ops[c].contact]]
      BY <1>5, <2>3 DEF Release
    <3>2. ops[c].pc = Len(Script(ops[c]))
      BY <1>1, <2>3, AtIs
    <3>3. ops'[c] = None
      BY <1>1, <3>1 DEF OpsInv
    <3>4. done'[c].req = ops[c].req /\ done'[c].ok /\ done'[c].contact = ops[c].contact
      BY <3>1 DEF BaseInv, TypeOK
    <3> HIDE DEF o
    <3> QED BY <2>1, <3>2, <3>3, <3>4 DEF Over
  <2> QED BY <2>2, <2>3
<1>6. CASE Decide(c, ins)
  <2>1. fw' = fw /\ diag' = diag /\ scene' = scene /\ calls' = calls /\ Seen(fw, fw')
    BY <1>6 DEF Decide, Seen
  <2>2. CASE Fail(c)
    BY <2>1, <2>2, FailIs
  <2>3. CASE /\ Go(c, o) /\ ins.i \in {"check", "track", "gate"} /\ (ins.i = "check" => ins.ok)
    <3>1. \A p : p.contact = o.contact /\ p.halted = o.halted /\ p.after = o.after => Advances(c, ins, o, p)
      BY <2>1, <2>3 DEF Advances, Kept
    <3>2. ins.i # "unlock"
      BY <2>3
    <3> HIDE DEF o, ins
    <3> QED BY <1>1, <2>1, <2>3, <3>1, <3>2, GoIs DEF o, ins
  <2> QED BY <1>6, <2>2, <2>3 DEF Decide, GoOrFail
<1>7. CASE Ask(c, ins)
  <2>1. scene' = scene /\ calls' = calls /\ Seen(fw, fw') /\ ins.i \in {"query", "gate"}
    BY <1>2, <1>3, <1>7 DEF Ask, Seen
  <2>2. CASE Fail(c)
    BY <2>1, <2>2, FailIs
  <2>3. CASE QueryAnswered /\ Matches(Reported, ins.want) /\ Go(c, Preflight(o))
    <3> DEFINE x == Preflight(o)
    <3>1. x \in Operations /\ x.req = o.req /\ x.pc = o.pc /\ x.code = o.code
      BY <1>1, LearnedTyped
    <3>2. x.contact = o.contact /\ x.halted = o.halted /\ x.after = o.after
      BY <1>1 DEF Preflight, Learned, Operations
    <3> HIDE DEF x
    <3>3. \A p : p.contact = x.contact /\ p.halted = x.halted /\ p.after = x.after => Advances(c, ins, o, p)
      BY <1>3, <2>1, <2>3, <3>2 DEF Advances, Kept
    <3>4. Go(c, x)
      BY <2>3 DEF x
    <3>5. ins.i # "unlock"
      BY <2>1
    <3> HIDE DEF o, ins
    <3> QED BY <1>1, <2>1, <3>1, <3>3, <3>4, <3>5, GoIs DEF o, ins
  <2> QED BY <1>7, <2>2, <2>3 DEF Ask, GoOrFail
<1>8. CASE BestEffort(c, ins)
  <2>1. scene' = scene /\ calls' = calls /\ Seen(fw, fw') /\ ins.i = "refresh" /\ Go(c, o)
    BY <1>2, <1>3, <1>8 DEF BestEffort, Seen
  <2>2. \A p : p.contact = o.contact /\ p.halted = o.halted /\ p.after = o.after => Advances(c, ins, o, p)
    BY <2>1 DEF Advances, Kept
  <2> HIDE DEF o, ins
  <2> QED BY <1>1, <2>1, <2>2, GoIs DEF o, ins
<1>9. CASE LearnReason(c, ins)
  <2>1. scene' = scene /\ calls' = calls /\ Seen(fw, fw') /\ ins.i = "learn"
    BY <1>2, <1>3, <1>9 DEF LearnReason, Seen
  <2>2. o.pc = 1
    BY <1>1, <2>1, AtIs DEF Shape
  <2>3. CASE Fail(c)
    BY <2>1, <2>3, FailIs
  <2>4. ASSUME NEW st \in Statuses, Go(c, [o EXCEPT !.st = st, !.code = st.halt]) PROVE Goes(c)
    <3> DEFINE x == [o EXCEPT !.st = st, !.code = st.halt]
    <3>1. /\ x \in Operations /\ x.req = o.req /\ x.pc = o.pc
          /\ x.contact = o.contact /\ x.halted = o.halted /\ x.after = o.after
      BY <1>1 DEF Operations, Statuses
    <3>2. Go(c, x)
      BY <2>4
    <3> HIDE DEF x
    <3>3. \A p : p.contact = x.contact /\ p.halted = x.halted /\ p.after = x.after => Advances(c, ins, o, p)
      BY <2>1, <3>1 DEF Advances, Kept
    <3> HIDE DEF o, ins
    <3> QED BY <1>1, <2>1, <2>2, <3>1, <3>2, <3>3, GoIs DEF o, ins
  <2>5. tracker.status \in Statuses /\ Reported \in Statuses
    BY <1>1, LearnedTyped DEF WorldInv
  <2> QED BY <1>9, <2>3, <2>4, <2>5 DEF LearnReason
<1>10. CASE Exchange(c, ins)
  <2>1. /\ scene' = scene /\ calls' = calls /\ ins.i = "send"
        /\ fw' = Taken(fw, ins.line, <<c, calls[c]>>)
    BY <1>10 DEF Exchange
  <2>2. CASE Fail(c)
    BY <2>1, <2>2, FailIs
  <2> DEFINE a == IF o.after < 2 /\ o.halted THEN o.after + 1 ELSE o.after
             x == [o EXCEPT !.after = a]
  <2>3. CASE ~Refused(fw, ins.line) /\ Go(c, x)
    <3>0. a \in Nat
      BY <1>1 DEF Operations
    <3>1. /\ x \in Operations /\ x.req = o.req /\ x.pc = o.pc /\ x.code = o.code
          /\ x.contact = o.contact /\ x.halted = o.halted
          /\ ~o.halted => x.after = o.after
      <4>1. ~o.halted => a = o.after
        OBVIOUS
      <4> HIDE DEF a
      <4> QED BY <1>1, <3>0, <4>1 DEF Operations
    <3> HIDE DEF x
    <3>2. \A p : p.contact = x.contact /\ p.halted = x.halted /\ p.after = x.after => Advances(c, ins, o, p)
      BY <2>1, <2>3, <3>1 DEF Advances
    <3> HIDE DEF o, ins
    <3> QED BY <1>1, <2>1, <2>3, <3>1, <3>2, GoIs DEF o, ins
  <2>4. GoOrFail(c, ~Refused(fw, ins.line), x)
    BY <1>1, <1>10 DEF Exchange, Operations
  <2> HIDE DEF x
  <2> QED BY <2>2, <2>3, <2>4 DEF GoOrFail
<1>11. CASE TakeContact(c, ins)
  <2>1. fw' = fw /\ scene' = scene /\ calls' = calls /\ Seen(fw, fw') /\ ins.i = "contact"
    BY <1>11 DEF TakeContact, Seen
  <2>2. CASE Fail(c)
    BY <2>1, <2>2, FailIs
  <2>3. CASE ~diag /\ ~Probing(c) /\ Go(c, [o EXCEPT !.contact = fw.m["z"]])
    <3> DEFINE x == [o EXCEPT !.contact = fw.m["z"]]
    <3>0. fw.m["z"] \in Int
      BY <1>1 DEF WorldInv, Machines, Points, Axes
    <3>1. /\ x \in Operations /\ x.req = o.req /\ x.pc = o.pc /\ x.code = o.code
          /\ x.contact = fw.m["z"] /\ x.halted = o.halted /\ x.after = o.after
      BY <1>1, <3>0 DEF Operations
    <3>2. Go(c, x)
      BY <2>3
    <3> HIDE DEF x
    <3>3. \A p : p.contact = x.contact /\ p.halted = x.halted /\ p.after = x.after => Advances(c, ins, o, p)
      BY <2>1, <2>3, <3>1 DEF Advances
    <3>4. ins.i # "unlock"
      BY <2>1
    <3> HIDE DEF o, ins
    <3> QED BY <1>1, <2>1, <3>1, <3>2, <3>3, <3>4, GoIs DEF o, ins
  <2> QED BY <1>11, <2>2, <2>3 DEF TakeContact
<1>12. CASE WaitEnds(c, ins)
  <2>1. fw' = fw /\ diag' = diag /\ scene' = scene /\ calls' = calls /\ Seen(fw, fw') /\ ins.i = "await"
    BY <1>12 DEF WaitEnds, Seen
  <2>2. CASE Fail(c)
    BY <2>1, <2>2, FailIs
  <2>3. CASE Go(c, o) /\ ins.late = "ok"
    <3>1. \A p : p.contact = o.contact /\ p.halted = o.halted /\ p.after = o.after => Advances(c, ins, o, p)
      BY <2>1, <2>3 DEF Advances, Kept
    <3>2. ins.i # "unlock"
      BY <2>1
    <3> HIDE DEF o, ins
    <3> QED BY <1>1, <2>1, <2>3, <3>1, <3>2, GoIs DEF o, ins
  <2> QED BY <1>12, <2>2, <2>3 DEF WaitEnds, GoOrFail
<1>13. CASE Wait(c)
  <2>1. scene' = scene /\ calls' = calls /\ Seen(fw, fw') /\ ins.i = "await"
    BY <1>2, <1>3, <1>13 DEF Wait, Seen
  <2>2. CASE Fail(c)
    BY <2>1, <2>2, FailIs
  <2>3. CASE QueryAnswered /\ Matches(Reported, ins.want) /\ Go(c, Learned(o))
    <3> DEFINE x == Learned(o)
    <3>1. x \in Operations /\ x.req = o.req /\ x.pc = o.pc /\ x.code = o.code
      BY <1>1, LearnedTyped
    <3>2. x.contact = o.contact /\ x.halted = o.halted /\ x.after = o.after
      BY <1>1 DEF Learned, Operations
    <3> HIDE DEF x
    <3>3. \A p : p.contact = x.contact /\ p.halted = x.halted /\ p.after = x.after => Advances(c, ins, o, p)
      BY <1>3, <2>1, <2>3, <3>2 DEF Advances, Kept
    <3>4. Go(c, x)
      BY <2>3 DEF x
    <3>5. ins.i # "unlock"
      BY <2>1
    <3> HIDE DEF o, ins
    <3> QED BY <1>1, <2>1, <3>1, <3>3, <3>4, <3>5, GoIs DEF o, ins
  <2>4. CASE UNCHANGED <<ops, done, lock>> /\ (~ins.strict \/ ~diag)
    BY <2>1, <2>4 DEF Stays
  <2> QED BY <1>13, <2>2, <2>3, <2>4 DEF Wait, QueryFails, QueryLost, QueryAnswered
<1>14. ~Begin(c)
  BY DEF Begin
<1> QED BY <1>4, <1>5, <1>6, <1>7, <1>8, <1>9, <1>10, <1>11, <1>12, <1>13, <1>14 DEF Acts, Step

-----------------------------------------------------------------------------
(* What the world does to the machine.                                      *)

\* Nothing, a halt, the end of a move, or the start of a program.
Emptied(f, g) == g.motion = <<>> /\ g.m = f.m /\ g.w = f.w
Moved(f, g) == f.motion # <<>> /\ g.motion = Tail(f.motion) /\ g.m = f.motion[1].m /\ g.w = f.motion[1].w
Started(f, g) ==
    /\ f.motion = <<>> /\ g.m = f.m /\ g.w = f.w
    /\ \A i \in DOMAIN g.motion : /\ g.motion[i].m["z"] = f.m["z"] /\ g.motion[i].w["z"] = f.w["z"]
                                  /\ g.motion[i].by = ByProgram
Drifts(f, g) == Still(f, g) \/ (Emptied(f, g) /\ g.state = "Alarm") \/ Moved(f, g) \/ Started(f, g)

LEMMA SeenIs ==
    ASSUME BaseInv, NEW g, Seen(fw, g)
    PROVE  Still(fw, g) /\ g.program = fw.program
<1>1. fw \in Machines(Bys)
  BY BaseParts DEF WorldInv
<1> QED BY <1>1, TimePasses DEF Seen, Still, SameFlags

LEMMA WorldIs ==
    ASSUME BaseInv, World \/ UNCHANGED vars
    PROVE  /\ calls' = calls /\ done' = done /\ scene' = scene /\ lock' = lock
           /\ lock # None /\ diag => diag'
           /\ Drifts(fw, fw')
           /\ fw'.program /\ ~fw.program => lock = None \/ Here.panel
<1>1. fw \in Machines(Bys) /\ Here.codes \subseteq Nat \ {0}
  BY BaseParts, SceneTyped DEF WorldInv
<1>2. CASE Observe
  BY <1>1, <1>2, TimePasses DEF Observe, Feed, Drifts, SameFlags
<1>3. CASE Ages
  BY <1>3 DEF Ages, Drifts, Still
<1>4. CASE Plays
  <2>1. fw' = startProgram(fw) /\ statusAt(fw).state = "Idle" /\ (lock = None \/ Here.panel)
    BY <1>4 DEF Plays, fileOpsIdle
  <2>2. fw.motion = <<>>
    BY <1>1, <2>1, TimePasses
  <2>3. Started(fw, fw')
    BY <1>1, <2>1, <2>2, ProgramIs DEF Started
  <2> QED BY <1>4, <2>1, <2>3 DEF Plays, Drifts
<1>5. CASE Moves
  BY <1>5, <1>1, MoveEndsIs DEF Moves, Moved, SameFlags, Drifts
<1>6. CASE ProgramEnds
  BY <1>6, <1>1, TimePasses DEF ProgramEnds, Drifts
<1>7. CASE \E ctl \in {"hold", "resume", "halt"} : SendControl(ctl)
  <2>1. PICK ctl \in {"hold", "resume", "halt"} : SendControl(ctl)
    BY <1>7
  <2>2. fw' \in {FeedHold(fw), Resume(fw), Halt(fw, 1)}
    BY <2>1 DEF SendControl
  <2>3. 1 \in Nat
    OBVIOUS
  <2>4. (Still(fw, fw') /\ fw'.program = fw.program)
        \/ (Emptied(fw, fw') /\ fw'.state = "Alarm" /\ ~fw'.program)
    BY <1>1, <2>2, <2>3, ControlIs DEF Emptied
  <2> QED BY <2>1, <2>4 DEF SendControl, Drifts
<1>8. CASE \E code \in Here.codes : Fault(code)
  <2>1. PICK code \in Here.codes : Fault(code)
    BY <1>8
  <2>2. fw' = Halt(fw, code) /\ code \in Nat
    BY <1>1, <2>1 DEF Fault
  <2>3. Emptied(fw, fw') /\ fw'.state = "Alarm" /\ ~fw'.program
    BY <1>1, <2>2, ControlIs DEF Emptied
  <2> QED BY <2>1, <2>3 DEF Fault, Drifts
<1>9. CASE UNCHANGED vars
  BY <1>9 DEF vars, Drifts, Still
<1> QED BY <1>2, <1>3, <1>4, <1>5, <1>6, <1>7, <1>8, <1>9 DEF World

\* An operation goes on where it was.
LEMMA WorldKeepsOps ==
    ASSUME BaseInv, World \/ UNCHANGED vars, NEW c \in Clients
    PROVE  /\ ops'[c] = None <=> ops[c] = None
           /\ ops[c] # None =>
                /\ Script(ops'[c]) = Script(ops[c]) /\ ops'[c].pc = ops[c].pc
                /\ ops'[c].req = ops[c].req /\ ops'[c].contact = ops[c].contact
                /\ ops'[c].after = ops[c].after
                /\ ops'[c].halted => ops[c].halted \/ (diag' /\ lock = c)
<1>1. CASE \E ctl \in {"hold", "resume", "halt"} : SendControl(ctl)
  <2>1. PICK ctl \in {"hold", "resume", "halt"} : SendControl(ctl)
    BY <1>1
  <2>2. ctl = "halt" => diag'
    BY <2>1 DEF SendControl
  <2> QED BY <2>1, <2>2, HaltedOps
<1>2. CASE ops' = ops
  BY <1>2
<1> QED BY <1>1, <1>2 DEF World, Observe, Ages, Plays, Moves, ProgramEnds, Fault, vars

\* An alarm that locks the machine stays until it is cleared.
LEMMA AlarmStays ==
    ASSUME BaseInv, World \/ UNCHANGED vars \/ Seen(fw, fw'), Here.alarmLock, InAlarm(fw)
    PROVE  InAlarm(fw')
<1>1. fw \in Machines(Bys) /\ Here.codes \subseteq Nat \ {0} /\ SoundAlarm(fw, Here.alarmLock)
  BY BaseParts, SceneTyped DEF WorldInv, AlarmInv
<1>2. fw.motion = <<>> /\ ~fw.program /\ ~fw.suspended
  BY <1>1 DEF SoundAlarm, InAlarm
<1>3. InAlarm(statusAt(fw))
  BY <1>1, <1>2 DEF InAlarm, SoundAlarm, statusAt, advanceMotion, Machines
<1>4. CASE Observe \/ Ages \/ Seen(fw, fw') \/ UNCHANGED vars
  BY <1>3, <1>4 DEF Observe, Ages, Seen, Feed, vars
<1>5. CASE Plays
  BY <1>1, <1>5, TimePasses DEF Plays, fileOpsIdle, InAlarm
<1>6. CASE Moves \/ ProgramEnds
  BY <1>2, <1>6 DEF Moves, ProgramEnds
<1>7. CASE \E ctl \in {"hold", "resume", "halt"} : SendControl(ctl)
  <2>1. fw' \in {FeedHold(fw), Resume(fw), Halt(fw, 1)}
    BY <1>7 DEF SendControl
  <2>2. InAlarm(FeedHold(fw))
    <3>1. CASE fw.held
      BY <3>1 DEF FeedHold
    <3>2. CASE ~fw.held
      BY <1>1, <1>2, <3>2 DEF FeedHold, InAlarm, advanceMotion, Machines
    <3> QED BY <3>1, <3>2
  <2>3. InAlarm(Resume(fw))
    <3>1. CASE ~fw.held
      BY <3>1 DEF Resume
    <3>2. CASE fw.held
      BY <1>1, <3>2, <1>2 DEF InAlarm, SoundAlarm, Resume, Machines
    <3> QED BY <3>1, <3>2
  <2>4. InAlarm(Halt(fw, 1))
    BY <1>1, ControlIs DEF InAlarm
  <2> QED BY <2>1, <2>2, <2>3, <2>4
<1>8. CASE \E code \in Here.codes : Fault(code)
  <2>1. PICK code \in Nat : fw' = Halt(fw, code)
    BY <1>1, <1>8 DEF Fault
  <2> QED BY <1>1, <2>1, ControlIs DEF InAlarm
<1> QED BY <1>4, <1>5, <1>6, <1>7, <1>8 DEF World

-----------------------------------------------------------------------------
(* What a line does to the queue.                                           *)

\* The same moves, by the same operations; only work positions may differ.
SameQueue(f, g) ==
    /\ g.m = f.m /\ DOMAIN g.motion = DOMAIN f.motion
    /\ \A i \in DOMAIN f.motion : g.motion[i].m = f.motion[i].m /\ g.motion[i].by = f.motion[i].by

LEMMA TakenQueue ==
    ASSUME NEW bys, NEW f \in Machines(bys), NEW by \in bys, NEW line \in Lines,
           Here.alarmLock \in BOOLEAN, Here.unlockClears \in BOOLEAN, Here.vacuum \in BOOLEAN,
           NEW g, g = Taken(f, line, by)
    PROVE  \/ SameQueue(f, g)
           \/ g.motion = <<>>
           \/ /\ ~Rejected(f, line) /\ line.c \in {"G53Z", "G53X", "G90X", "M480", "G38"}
              /\ \E seg \in MovesBy({by}) :
                    Joins(f, g, seg) /\ (line.c \in {"G53Z", "G38"} => seg.m["x"] = End(f).m["x"])
<1>1. CASE Rejected(f, line)
  BY <1>1 DEF Taken, SameQueue
<1>2. ASSUME ~Rejected(f, line), line.c \in Console PROVE SameQueue(f, g) \/ g.motion = <<>>
  <2>1. g = applyConsole(f, line)
    BY <1>2, TakenIs
  <2>2. 0 \in Nat
    OBVIOUS
  <2>3. clearAlarm(f).motion = <<>> /\ home(f).motion = <<>>
    BY <2>2, ControlIs
  <2>4. /\ Still(f, [f EXCEPT !.suspended = TRUE, !.state = "Pause"])
        /\ Still(f, [f EXCEPT !.suspended = FALSE, !.state = "Run"])
    BY DEF Still, Machines
  <2>5. Still(f, g) \/ g.motion = <<>>
    BY <1>2, <2>1, <2>3, <2>4 DEF applyConsole, Console, Still
  <2> QED BY <2>5 DEF Still, SameQueue
<1>3. ASSUME ~Rejected(f, line), line.c \in ToolLines \cup {"M220", "M331"} PROVE SameQueue(f, g)
  BY <1>3, TakenIs DEF Still, SameQueue
<1>4. ASSUME ~Rejected(f, line), line.c = "G10L2X" PROVE SameQueue(f, g)
  BY <1>4, TakenIs, OffsetIs DEF Lines, SameQueue
<1>5. ASSUME ~Rejected(f, line), line.c = "G10L20Z" PROVE SameQueue(f, g)
  <2>1. g = applyWorkPosition(f)
    BY <1>5, TakenIs
  <2>2. CASE f.motion = <<>>
    BY <2>1, <2>2, PositionIs DEF SameQueue
  <2>3. CASE f.motion # <<>>
    <3> DEFINE n == Len(f.motion)
               q == [f.motion EXCEPT ![n].w["z"] = 0]
    <3>1. f.motion \in Seq(MovesBy(bys))
      BY DEF Machines
    <3>2. n \in Nat /\ DOMAIN f.motion = 1..n
      BY <3>1
    <3>3. g.m = f.m /\ g.motion = q
      BY <2>1, <2>3, PositionIs
    <3> HIDE DEF n
    <3>4. DOMAIN q = DOMAIN f.motion
      OBVIOUS
    <3>5. \A i \in DOMAIN f.motion : q[i] = IF i = n THEN [f.motion[i] EXCEPT !.w["z"] = 0] ELSE f.motion[i]
      OBVIOUS
    <3>6. \A i \in DOMAIN f.motion : f.motion[i] \in MovesBy(bys)
      BY <3>1
    <3> HIDE DEF q
    <3>7. \A i \in DOMAIN f.motion : q[i].m = f.motion[i].m /\ q[i].by = f.motion[i].by
      BY <3>5, <3>6 DEF MovesBy
    <3> QED BY <3>3, <3>4, <3>7 DEF SameQueue
  <2> QED BY <2>2, <2>3
<1>6. ASSUME ~Rejected(f, line), line.c \in {"G53Z", "G53X", "G90X", "M480", "G38"}
      PROVE  \/ SameQueue(f, g)
             \/ \E seg \in MovesBy({by}) :
                    Joins(f, g, seg) /\ (line.c \in {"G53Z", "G38"} => seg.m["x"] = End(f).m["x"])
  <2> DEFINE axis == IF line.c \in {"G53Z", "G38"} THEN "z" ELSE "x"
  <2>1. \E d \in Int, seg \in MovesBy({by}) :
           Shifts(End(f), seg, axis, d) /\ (Still(f, g) \/ Joins(f, g, seg))
    <3>1. CASE line.c = "G38"
      <4>1. g = applyProbeMove(f, line.v, by) /\ line.v \in Int
        BY <1>6, <3>1, TakenIs DEF Lines
      <4>2. \E d \in Int, seg \in MovesBy({by}) :
                Shifts(End(f), seg, "z", d) /\ seg.kind = "probe" /\ Joins(f, g, seg)
        BY <4>1, ProbeMoveIs
      <4> QED BY <3>1, <4>2
    <3>2. CASE line.c # "G38"
      <4>1. line.c \in {"G53Z", "G53X", "M480", "G90X"}
        BY <1>6, <3>2
      <4>2. axis = IF line.c = "G53Z" THEN "z" ELSE "x"
        BY <3>2
      <4> HIDE DEF axis
      <4> QED BY <1>6, <4>1, <4>2, MoveTaken
    <3> QED BY <3>1, <3>2
  <2>2. PICK d \in Int, seg \in MovesBy({by}) : Shifts(End(f), seg, axis, d) /\ (Still(f, g) \/ Joins(f, g, seg))
    BY <2>1
  <2>3. line.c \in {"G53Z", "G38"} => seg.m["x"] = End(f).m["x"]
    BY <2>2 DEF Shifts, Axes
  <2> HIDE DEF axis
  <2> QED BY <2>2, <2>3 DEF Still, SameQueue
<1>7. line.c \in Console \cup ToolLines \cup {"M220", "M331"} \cup {"G10L2X", "G10L20Z"}
                 \cup {"G53Z", "G53X", "G90X", "M480", "G38"}
  BY DEF Lines, MoveLines
<1> QED BY <1>1, <1>2, <1>3, <1>4, <1>5, <1>6, <1>7

-----------------------------------------------------------------------------
(* An emergency halt: who is inside WithMachine when it comes finds the      *)
(* diagnostic, unless only the last look at the machine is left.             *)

\* Operation o at instruction ins, where d tells whether the diagnostic stands.
Marked(o, ins, d) ==
    /\ o.after = 0
    /\ o.halted =>
         Inside(o) /\ (d \/ ins.i \in {"refresh", "unlock"} \/ (ins.i = "await" /\ ~ins.strict))
\* So it is of every operation.
HaltInv == \A c \in Clients : ops[c] # None => Marked(ops[c], Script(ops[c])[ops[c].pc], diag)

LEMMA HaltInvPrimed ==
    ASSUME scene' = scene,
           \A c \in Clients : ops'[c] # None => Marked(ops'[c], Script(ops'[c])[ops'[c].pc], diag')
    PROVE  HaltInv'
<1>1. \A q : Script(q)' = Script(q)
  BY ScriptKept
<1> QED BY <1>1 DEF HaltInv, Marked

LEMMA NextInstruction ==
    ASSUME BaseInv, NEW c \in Clients, ops[c] # None, Goes(c)
    PROVE  /\ ops[c] \in Operations /\ Shape(ops[c]) /\ At(c) = Script(ops[c])[ops[c].pc]
           /\ ops[c].pc \in 1..Len(Script(ops[c])) /\ Inside(ops[c]) <=> lock = c
           /\ Yielding(At(c)) => Script(ops'[c])[ops'[c].pc].i = "unlock"
           /\ At(c).i \notin {"lock", "unlock"} => (Inside(ops'[c]) <=> Inside(ops[c]))
<1>1. OpsInv
  BY BaseParts
<1>2. /\ ops[c] \in Operations /\ ops[c].pc \in DOMAIN Script(ops[c]) /\ Shape(ops[c])
      /\ At(c) = Script(ops[c])[ops[c].pc] /\ ops[c].pc \in 1..Len(Script(ops[c]))
  BY <1>1, AtIs
<1>3. /\ ops'[c] \in Operations /\ ops'[c].req = ops[c].req /\ ops'[c].pc = ops[c].pc + 1
      /\ ops'[c].code = ops[c].code \/ ops[c].pc = 1
      /\ ops[c].pc < Len(Script(ops[c]))
  BY DEF Goes
<1>4. Yielding(At(c)) => Script(ops'[c])[ops'[c].pc].i = "unlock"
  BY <1>2, <1>3, ScriptGoes
<1>5. At(c).i \notin {"lock", "unlock"} => (Inside(ops'[c]) <=> Inside(ops[c]))
  BY <1>2, <1>3 DEF Shape, Inside
<1>6. Inside(ops[c]) <=> lock = c
  BY <1>1 DEF OpsInv, LockInv
<1> QED BY <1>2, <1>4, <1>5, <1>6

LEMMA OwnStepMarked ==
    ASSUME BaseInv, HaltInv, NEW c \in Clients, Acts(c), ops'[c] # None
    PROVE  Marked(ops'[c], Script(ops'[c])[ops'[c].pc], diag')
<1>1. CASE ops[c] = None
  BY <1>1 DEF Acts, Step, Wait, Begin, BaseInv, TypeOK, Marked
<1>2. CASE ops[c] # None /\ Stays(c)
  BY <1>2 DEF HaltInv, At, Stays, Marked
<1>3. CASE ops[c] # None /\ Goes(c)
  <2> DEFINE o == ops[c]
             p == ops'[c]
             ins == At(c)
             next == Script(p)[p.pc]
  <2>1. Marked(o, ins, diag)
    BY <1>3 DEF HaltInv, At
  <2>2. /\ Shape(o) /\ ins = Script(o)[o.pc] /\ o \in Operations
        /\ Yielding(ins) => next.i = "unlock"
        /\ ins.i \notin {"lock", "unlock"} => (Inside(p) <=> Inside(o))
    BY <1>3, NextInstruction
  <2>3. ins.i = "lock" => ~Inside(o)
    BY <2>2 DEF Shape
  <2>4. ins.i = "learn" => ~Inside(o)
    BY <2>2 DEF Shape, Inside, InsideAt, Entry
  <2>5. Advances(c, ins, o, p)
    BY <1>3 DEF Goes
  <2> HIDE DEF o, p, ins, next
  <2>6. Marked(p, next, diag')
    <3>1. CASE ins.i = "lock" /\ Kept(o, p)
      BY <2>1, <2>3, <3>1 DEF Marked, Kept
    <3>2. CASE ins.i = "unlock" /\ ~p.halted /\ p.after = o.after
      BY <2>1, <3>2 DEF Marked
    <3>3. CASE ins.i \in {"check", "track", "gate"} /\ Kept(o, p) /\ diag' = diag
      BY <2>1, <2>2, <3>3 DEF Marked, Kept
    <3>4. CASE ins.i \in {"gate", "query"} /\ Kept(o, p) /\ ~diag
      BY <2>1, <2>2, <3>4 DEF Marked, Kept
    <3>5. CASE ins.i = "refresh" /\ Kept(o, p)
      BY <2>1, <2>2, <3>5 DEF Marked, Kept, Yielding
    <3>6. CASE ins.i = "learn" /\ Kept(o, p)
      BY <2>1, <2>4, <3>6 DEF Marked, Kept
    <3>7. CASE /\ ins.i = "send" /\ p.halted = o.halted /\ (~o.halted => p.after = o.after)
               /\ ~Refused(fw, ins.line)
      BY <3>7, <2>1, <2>2 DEF Refused, Marked
    <3>8. CASE ins.i = "contact" /\ p.halted = o.halted /\ p.after = o.after /\ ~diag
      BY <2>1, <2>2, <3>8 DEF Marked
    <3>9. CASE ins.i = "await" /\ Kept(o, p) /\ (diag' = diag \/ ~diag)
      <4>1. CASE ins.strict
        BY <2>1, <2>2, <3>9, <4>1 DEF Marked, Kept
      <4>2. CASE ~ins.strict
        BY <2>1, <2>2, <3>9, <4>2 DEF Marked, Kept, Yielding
      <4> QED BY <4>1, <4>2
    <3> QED BY <2>5, <3>1, <3>2, <3>3, <3>4, <3>5, <3>6, <3>7, <3>8, <3>9 DEF Advances
  <2> QED BY <2>6 DEF next, p
<1> QED BY <1>1, <1>2, <1>3, Outcome DEF Over

LEMMA HaltKept == ASSUME BaseInv, HaltInv, [Next]_vars PROVE HaltInv'
<1>1. ASSUME NEW d \in Clients, Acts(d) PROVE HaltInv'
  <2>1. ASSUME NEW c \in Clients, ops'[c] # None
        PROVE  Marked(ops'[c], Script(ops'[c])[ops'[c].pc], diag')
    <3>1. CASE c = d
      BY <1>1, <2>1, <3>1, OwnStepMarked
    <3>2. CASE c # d
      <4>1. ops'[c] = ops[c]
        BY <1>1, <3>2, OthersKept
      <4>2. Marked(ops[c], Script(ops[c])[ops[c].pc], diag)
        BY <2>1, <4>1 DEF HaltInv
      <4>3. lock = c => diag' = diag
        BY <1>1, <3>2, OthersQuiet
      <4>4. Inside(ops[c]) => lock = c
        BY <2>1, <4>1 DEF BaseInv, LockInv
      <4> QED BY <4>1, <4>2, <4>3, <4>4 DEF Marked
    <3> QED BY <3>1, <3>2
  <2>2. scene' = scene
    BY <1>1, ActsIs
  <2> QED BY <2>1, <2>2, HaltInvPrimed
<1>2. CASE World \/ UNCHANGED vars
  <2>1. ASSUME NEW c \in Clients, ops'[c] # None
        PROVE  Marked(ops'[c], Script(ops'[c])[ops'[c].pc], diag')
    <3>1. /\ ops[c] # None /\ Script(ops'[c]) = Script(ops[c]) /\ ops'[c].pc = ops[c].pc
          /\ ops'[c].req = ops[c].req /\ ops'[c].after = ops[c].after
          /\ ops'[c].halted => ops[c].halted \/ (diag' /\ lock = c)
      BY <1>2, <2>1, WorldKeepsOps
    <3>2. Marked(ops[c], Script(ops[c])[ops[c].pc], diag)
      BY <3>1 DEF HaltInv
    <3>3. Inside(ops[c]) <=> lock = c
      BY <3>1 DEF BaseInv, LockInv
    <3>4. Inside(ops'[c]) <=> Inside(ops[c])
      BY <3>1 DEF Inside
    <3>5. lock = c /\ diag => diag'
      BY <1>2, WorldIs, NoneIsNone
    <3> QED BY <3>1, <3>2, <3>3, <3>4, <3>5 DEF Marked
  <2>2. scene' = scene
    BY <1>2, WorldIs
  <2> QED BY <2>1, <2>2, HaltInvPrimed
<1> QED BY <1>1, <1>2, NextSplit

LEMMA InitHalt == ASSUME Init PROVE HaltInv
  BY DEF Init, HaltInv

-----------------------------------------------------------------------------
(* The program: an operation that has seen the machine idle, while it has    *)
(* its turn, does not meet one.                                              *)

LEMMA ActsMachine ==
    ASSUME BaseInv, NEW d \in Clients, Acts(d)
    PROVE  \/ Seen(fw, fw')
           \/ /\ ops[d] # None /\ At(d).i = "send" /\ lock = d
              /\ fw' = Taken(fw, At(d).line, <<d, calls[d]>>)
              /\ At(d).line \in Lines /\ <<d, calls[d]>> \in Bys
<1>1. CASE ops[d] = None
  BY <1>1 DEF Acts, Step, Wait, Begin, Seen
<1>2. CASE ops[d] # None
  <2>1. OpsInv
    BY BaseParts
  <2>2. Shape(ops[d]) /\ At(d) = Script(ops[d])[ops[d].pc] /\ (At(d).i \in Talks => lock = d)
    BY <1>2, <2>1, AtIs
  <2>3. At(d).i = "send" => At(d).line \in Lines /\ lock = d
    BY <2>2 DEF Shape, Talks
  <2>4. <<d, calls[d]>> \in Bys
    BY <2>1 DEF OpsInv, Bys
  <2>5. \/ Seen(fw, fw')
        \/ At(d).i = "send" /\ fw' = Taken(fw, At(d).line, <<d, calls[d]>>)
    <3>1. CASE Goes(d)
      BY <3>1 DEF Goes, Advances, Seen
    <3>2. CASE Stays(d)
      BY <3>2 DEF Stays
    <3>3. CASE Over(d)
      BY <3>3 DEF Over, Seen
    <3> QED BY <1>2, <3>1, <3>2, <3>3, Outcome
  <2> QED BY <1>2, <2>3, <2>4, <2>5
<1> QED BY <1>1, <1>2

LEMMA ActsSpare == ASSUME BaseInv, NEW d \in Clients, Acts(d) PROVE fw'.program => fw.program
<1>1. fw \in Machines(Bys) /\ SoundAlarm(fw, Here.alarmLock) /\ Here.alarmLock \in BOOLEAN
      /\ Here.unlockClears \in BOOLEAN /\ Here.vacuum \in BOOLEAN
  BY BaseParts, SceneTyped DEF WorldInv, AlarmInv
<1>2. CASE Seen(fw, fw')
  BY <1>2, SeenIs
<1>3. CASE ~Seen(fw, fw')
  BY <1>3, ActsMachine, <1>1, TakenSound
<1> QED BY <1>2, <1>3

\* From here on an operation has seen that no program runs.
Spares(o) ==
    \/ o.req.op = "trace" /\ o.pc >= 4
    \/ o.req.op \in {"zero", "probe3d"} /\ o.pc >= 3
\* And none does while it is there.
SpareInv == \A c \in Clients : ops[c] # None /\ Spares(ops[c]) => ~fw.program
\* Nobody starts a program at the machine's own panel, past the arbiter.
NoPanel == \A s \in DOMAIN Scenes : ~Scenes[s].panel

LEMMA SparesInside == ASSUME NEW o \in Operations, Spares(o) PROVE Inside(o)
  BY DEF Spares, Inside, InsideAt, Entry, Operations

\* Where the idle machine is asked for, and the lines that come after.
LEMMA SparingScript ==
    ASSUME NEW o \in Operations, o.req.op \in {"trace", "zero", "probe3d"}, o.pc \in DOMAIN Script(o)
    PROVE  /\ Script(o)[o.pc].i = "send" => Spares(o)
           /\ ~Spares(o) /\ (o.req.op = "trace" => o.pc = 3) /\ (o.req.op # "trace" => o.pc = 2) =>
                /\ Script(o)[o.pc].i = "query"
                /\ \A s : Matches(s, Script(o)[o.pc].want) => s.state = "Idle"
<1>1. o.pc \in Nat
  BY DEF Operations
<1>2. CASE o.req.op = "trace"
  <2>1. Script(o)[1].i # "send" /\ Script(o)[2].i # "send" /\ Script(o)[3].i = "query"
        /\ Script(o)[3].want = In({"Idle"}) /\ o.pc \in 1..11
    BY <1>2, TraceScript
  <2>2. o.pc = 1 \/ o.pc = 2 \/ o.pc = 3 \/ o.pc >= 4
    BY <2>1
  <2>3. \A s : Matches(s, In({"Idle"})) => s.state = "Idle"
    BY DEF Matches, In
  <2> QED BY <1>1, <1>2, <2>1, <2>2, <2>3 DEF Spares
<1>3. CASE o.req.op = "zero"
  <2>1. Script(o)[1].i # "send" /\ Script(o)[2].i = "query"
        /\ Script(o)[2].want = In({"Idle"}) /\ o.pc >= 1
    <3>1. CASE o.req.kind = "floor"
      BY <1>3, <3>1, FloorScript
    <3>2. CASE o.req.kind # "floor"
      BY <1>3, <3>2, AutoScript
    <3> QED BY <3>1, <3>2
  <2>2. o.pc = 1 \/ o.pc = 2 \/ o.pc >= 3
    BY <1>1, <2>1
  <2>3. \A s : Matches(s, In({"Idle"})) => s.state = "Idle"
    BY DEF Matches, In
  <2> QED BY <1>1, <1>3, <2>1, <2>2, <2>3 DEF Spares
<1>4. CASE o.req.op = "probe3d"
  <2>1. Script(o)[1].i # "send" /\ Script(o)[2].i = "query"
        /\ Script(o)[2].want = [state |-> {"Idle"}, tool |-> {Probe3DTool}] /\ o.pc \in 1..6
    BY <1>4, Probe3DScript
  <2>2. o.pc = 1 \/ o.pc = 2 \/ o.pc >= 3
    BY <2>1
  <2>3. \A s : Matches(s, [state |-> {"Idle"}, tool |-> {Probe3DTool}]) => s.state = "Idle"
    BY DEF Matches
  <2> QED BY <1>1, <1>4, <2>1, <2>2, <2>3 DEF Spares
<1> QED BY <1>2, <1>3, <1>4

LEMMA IdleSpares == ASSUME BaseInv, Reported.state = "Idle" PROVE ~fw.program /\ fw.motion = <<>>
<1>1. fw \in Machines(Bys)
  BY BaseParts DEF WorldInv
<1> QED BY <1>1, TimePasses DEF Reported, Status

LEMMA SpareKept == ASSUME BaseInv, SpareInv, NoPanel, [Next]_vars PROVE SpareInv'
<1>1. ASSUME NEW d \in Clients, Acts(d) PROVE SpareInv'
  <2>1. ASSUME NEW c \in Clients, ops'[c] # None, Spares(ops'[c]) PROVE ~fw'.program
    <3>1. CASE ops[c] # None /\ Spares(ops[c])
      BY <1>1, <3>1, ActsSpare DEF SpareInv
    <3>2. CASE ~(ops[c] # None /\ Spares(ops[c]))
      <4>1. c = d
        BY <1>1, <2>1, <3>2, OthersKept
      <4>2. ops[c] # None
        <5>1. ASSUME Begin(c) PROVE ops'[c].pc = 1
          BY <5>1 DEF Begin, BaseInv, TypeOK
        <5> QED BY <1>1, <2>1, <4>1, <5>1 DEF Acts, Step, Wait, Spares
      <4>3. Goes(c)
        BY <1>1, <2>1, <3>2, <4>1, <4>2, Outcome DEF Stays, Over
      <4>4. /\ ops[c] \in Operations /\ ops[c].pc \in DOMAIN Script(ops[c]) /\ At(c) = Script(ops[c])[ops[c].pc]
        BY <4>2, BaseParts, AtIs
      <4>5. ops'[c].req = ops[c].req /\ ops'[c].pc = ops[c].pc + 1 /\ ops[c].pc \in Nat
        BY <4>3, <4>4 DEF Goes, Operations
      <4>6. /\ ops[c].req.op \in {"trace", "zero", "probe3d"}
            /\ ops[c].req.op = "trace" => ops[c].pc = 3
            /\ ops[c].req.op # "trace" => ops[c].pc = 2
        BY <2>1, <3>2, <4>2, <4>5 DEF Spares
      <4>7. At(c).i = "query" /\ (Matches(Reported, At(c).want) => Reported.state = "Idle")
        BY <3>2, <4>2, <4>4, <4>6, SparingScript
      <4>8. Matches(Reported, At(c).want) /\ fw' = statusAt(fw)
        BY <4>3, <4>7 DEF Goes, Advances
      <4>9. ~fw.program
        BY <4>7, <4>8, IdleSpares
      <4> QED BY <4>1, <1>1, <4>9, ActsSpare
    <3> QED BY <3>1, <3>2
  <2> QED BY <2>1 DEF SpareInv, Spares
<1>2. CASE World \/ UNCHANGED vars
  <2>1. ASSUME NEW c \in Clients, ops'[c] # None, Spares(ops'[c]) PROVE ~fw'.program
    <3>1. ops[c] # None /\ Spares(ops[c])
      BY <1>2, <2>1, WorldKeepsOps DEF Spares
    <3>2. lock = c /\ c # None
      BY <3>1, SparesInside, NoneIsNone DEF BaseInv, TypeOK, LockInv
    <3>3. ~Here.panel
      BY DEF NoPanel, Here, BaseInv, TypeOK
    <3> QED BY <1>2, <3>1, <3>2, <3>3, WorldIs DEF SpareInv
  <2> QED BY <2>1 DEF SpareInv, Spares
<1> QED BY <1>1, <1>2, NextSplit

LEMMA OwnerOf ==
    ASSUME BaseInv, NEW c \in Clients, ops[c] # None, NEW seg, seg.by = <<c, calls[c]>>
    PROVE  seg.by # ByProgram /\ Owner(seg) = ops[c].req.op
<1>1. calls[c] \in 1..Len(Here.calls[c]) /\ ops[c].req = Here.calls[c][calls[c]]
  BY DEF BaseInv, Requested
<1>2. seg.by[2] = calls[c] /\ seg.by[1] = c /\ calls[c] # 0
  BY <1>1
<1>3. seg.by # ByProgram
  BY <1>2 DEF ByProgram
<1> QED BY <1>1, <1>2, <1>3 DEF Owner

LEMMA JoinedIs ==
    ASSUME NEW bys, NEW f \in Machines(bys), NEW g, NEW seg, Joins(f, g, seg)
    PROVE  /\ Len(f.motion) \in Nat /\ DOMAIN f.motion = 1..Len(f.motion)
           /\ Len(g.motion) = Len(f.motion) + 1 /\ DOMAIN g.motion = 1..(Len(f.motion) + 1)
           /\ g.motion[Len(f.motion) + 1] = seg /\ g.motion # <<>>
           /\ \A i \in DOMAIN f.motion : g.motion[i] = f.motion[i]
<1> DEFINE s == f.motion
           S == MovesBy(bys) \cup {seg}
<1>1. s \in Seq(MovesBy(bys)) /\ g.motion = Append(s, seg)
  BY DEF Joins, Machines
<1>2. MovesBy(bys) \subseteq S /\ seg \in S
  OBVIOUS
<1> HIDE DEF s, S
<1>3. s \in Seq(S)
  BY <1>1, <1>2, SeqMonotonic
<1>4. /\ Len(s) \in Nat /\ DOMAIN s = 1..Len(s)
      /\ Append(s, seg) \in Seq(S) /\ Len(Append(s, seg)) = Len(s) + 1
      /\ Append(s, seg)[Len(s) + 1] = seg
      /\ \A i \in 1..Len(s) : Append(s, seg)[i] = s[i]
  BY <1>2, <1>3, AppendProperties
<1>5. DOMAIN Append(s, seg) = 1..(Len(s) + 1) /\ Append(s, seg) # <<>>
  BY <1>4
<1> QED BY <1>1, <1>4, <1>5 DEF s

LEMMA MovedIs ==
    ASSUME NEW bys, NEW f \in Machines(bys), NEW g, Moved(f, g)
    PROVE  /\ Len(f.motion) \in Nat /\ DOMAIN f.motion = 1..Len(f.motion) /\ Len(f.motion) >= 1
           /\ Len(g.motion) = Len(f.motion) - 1 /\ DOMAIN g.motion = 1..(Len(f.motion) - 1)
           /\ \A i \in DOMAIN g.motion : i + 1 \in DOMAIN f.motion /\ g.motion[i] = f.motion[i + 1]
  BY DEF Moved, Machines

LEMMA SparesWhat ==
    ASSUME BaseInv, SpareInv, [Next]_vars, NEW i \in DOMAIN fw'.motion \ DOMAIN fw.motion,
           Owner(fw'.motion[i]) \in {"trace", "zero", "probe3d"}
    PROVE  ~fw.program
<1>1. fw \in Machines(Bys) /\ Here.alarmLock \in BOOLEAN
      /\ Here.unlockClears \in BOOLEAN /\ Here.vacuum \in BOOLEAN
  BY BaseParts, SceneTyped DEF WorldInv
<1>2. ASSUME NEW d \in Clients, Acts(d) PROVE ~fw.program
  <2>1. CASE Seen(fw, fw')
    BY <2>1, SeenIs DEF Still
  <2>2. CASE ~Seen(fw, fw')
    <3>1. /\ ops[d] # None /\ At(d).i = "send" /\ fw' = Taken(fw, At(d).line, <<d, calls[d]>>)
          /\ At(d).line \in Lines /\ <<d, calls[d]>> \in Bys
      BY <1>2, <2>2, ActsMachine
    <3>2. PICK seg \in MovesBy({<<d, calls[d]>>}) : Joins(fw, fw', seg)
      <4>1. ~SameQueue(fw, fw') /\ fw'.motion # <<>>
        BY DEF SameQueue
      <4> QED BY <1>1, <3>1, <4>1, TakenQueue
    <3>3. fw'.motion[i] = seg /\ seg.by = <<d, calls[d]>>
      BY <1>1, <3>2, JoinedIs DEF MovesBy
    <3>4. ops[d].req.op \in {"trace", "zero", "probe3d"}
      BY <3>1, <3>3, OwnerOf
    <3>5. /\ ops[d] \in Operations /\ ops[d].pc \in DOMAIN Script(ops[d]) /\ At(d) = Script(ops[d])[ops[d].pc]
      BY <3>1, BaseParts, AtIs
    <3> QED BY <3>1, <3>4, <3>5, SparingScript DEF SpareInv
  <2> QED BY <2>1, <2>2
<1>3. CASE World \/ UNCHANGED vars
  <2>1. Drifts(fw, fw')
    BY <1>3, WorldIs
  <2>2. ~Still(fw, fw') /\ ~Emptied(fw, fw')
    BY DEF Still, Emptied
  <2>3. ~Moved(fw, fw')
    BY <1>1, MovedIs
  <2>4. fw'.motion[i].by = ByProgram
    BY <2>1, <2>2, <2>3 DEF Drifts, Started
  <2> QED BY <2>4 DEF Owner
<1> QED BY <1>2, <1>3, NextSplit

\* An operation gives way: a halt ends the operation it meets, so that no line
\* of it is written afterwards, and those that ask the machine themselves put
\* no move behind those of a program -- of one that comes by the connection:
\* the buttons of the machine know no turn.
THEOREM OperationsYield == ASSUME NoPanel PROVE Spec => YieldsToOthers
<1>1. Init => BaseInv /\ HaltInv /\ SpareInv
  <2>1. ASSUME Init PROVE SpareInv
    BY <2>1 DEF Init, SpareInv
  <2> QED BY <2>1, InitBase, InitHalt
<1>2. BaseInv /\ HaltInv /\ SpareInv /\ [Next]_vars => BaseInv' /\ HaltInv' /\ SpareInv'
  BY NextKeepsBase, HaltKept, SpareKept
<1>3. HaltInv /\ BaseInv => HaltStopsOperation
  BY DEF HaltInv, HaltStopsOperation, Marked
<1>4. BaseInv /\ SpareInv /\ [Next]_vars =>
        [\A i \in DOMAIN fw'.motion \ DOMAIN fw.motion :
           Owner(fw'.motion[i]) \in {"trace", "zero", "probe3d"} => ~fw.program]_vars
  BY SparesWhat
<1> QED BY <1>1, <1>2, <1>3, <1>4, PTL DEF Spec, YieldsToOthers, ProgramIsSpared

-----------------------------------------------------------------------------
(* Travel over the work.                                                    *)

\* The machine is at the safe height and stays there.
Lifted(f) == f.m["z"] = SafeZ /\ \A i \in DOMAIN f.motion : f.motion[i].m["z"] = SafeZ
\* What ProbeZ and TraceOutline know of the height when they travel.
AtHeight(o, f) ==
    /\ o.req.op = "probe" /\ o.pc = 6 => End(f).m["z"] = SafeZ \/ InAlarm(f)
    /\ o.req.op = "trace" /\ o.pc >= 7 => Lifted(f)
\* So it is of every operation.
LiftInv == \A c \in Clients : ops[c] # None => AtHeight(ops[c], fw)

\* Where the machine is before the i-th move of its queue.
Before(f, i) == IF i = 1 THEN f.m ELSE f.motion[i - 1].m
\* A move of theirs along X starts at the safe height.
Travels(f) ==
    \A i \in DOMAIN f.motion :
        Owner(f.motion[i]) \in {"probe", "trace"} /\ f.motion[i].m["x"] # Before(f, i)["x"] =>
            Before(f, i)["z"] = SafeZ
\* It holds for the queue of the machine.
TravelInv == Travels(fw)

\* A machine that a probing move may meet in Alarm refuses lines then.
LocksInAlarm ==
    \A s \in DOMAIN Scenes : \/ Scenes[s].alarmLock
                             \/ \A c \in Clients : \A k \in DOMAIN Scenes[s].calls[c] :
                                    Scenes[s].calls[c][k].op # "probe"

LEMMA ProbesLocked ==
    ASSUME BaseInv, LocksInAlarm, NEW c \in Clients, ops[c] # None, ops[c].req.op = "probe"
    PROVE  Here.alarmLock
<1>1. calls[c] \in 1..Len(Here.calls[c]) /\ ops[c].req = Here.calls[c][calls[c]] /\ scene \in DOMAIN Scenes
  BY DEF BaseInv, Requested, TypeOK
<1>2. Here.calls[c] \in Seq(Requests)
  BY <1>1, SceneTyped
<1>3. calls[c] \in DOMAIN Here.calls[c]
  BY <1>1, <1>2
<1> QED BY <1>1, <1>3 DEF LocksInAlarm, Here

LEMMA DriftHeight ==
    ASSUME NEW bys, NEW f \in Machines(bys), NEW g, Drifts(f, g)
    PROVE  /\ Lifted(f) => Lifted(g)
           /\ End(f).m["z"] = SafeZ => End(g).m["z"] = SafeZ \/ g.state = "Alarm"
<1>1. CASE Still(f, g)
  BY <1>1 DEF Still, Lifted, End
<1>2. CASE Emptied(f, g) /\ g.state = "Alarm"
  BY <1>2 DEF Emptied, Lifted
<1>3. CASE Moved(f, g)
  <2> DEFINE n == Len(f.motion)
  <2>1. /\ n \in Nat /\ DOMAIN f.motion = 1..n /\ n >= 1
        /\ Len(g.motion) = n - 1 /\ DOMAIN g.motion = 1..(n - 1)
        /\ \A i \in DOMAIN g.motion : i + 1 \in DOMAIN f.motion /\ g.motion[i] = f.motion[i + 1]
    BY <1>3, MovedIs
  <2>2. f.motion # <<>> /\ g.m = f.motion[1].m
    BY <1>3 DEF Moved
  <2>3. Lifted(f) => Lifted(g)
    <3> HIDE DEF n
    <3> QED BY <2>1, <2>2 DEF Lifted
  <2>4. End(f).m = f.motion[n].m
    BY <2>2, EndIs
  <2>5. End(g).m = f.motion[n].m
    <3>1. CASE g.motion = <<>>
      BY <2>1, <3>1, <2>2, EndIs
    <3>2. CASE g.motion # <<>>
      <4>1. n - 1 >= 1
        <5>1. g.motion = Tail(f.motion) /\ f.motion \in Seq(MovesBy(bys))
          BY <1>3 DEF Moved, Machines
        <5>2. g.motion \in Seq(MovesBy(bys))
          BY <2>2, <5>1
        <5>3. Len(g.motion) # 0
          BY <3>2, <5>2
        <5> HIDE DEF n
        <5> QED BY <2>1, <5>3
      <4>2. g.motion[n - 1] = f.motion[n]
        <5> HIDE DEF n
        <5>1. n - 1 \in DOMAIN g.motion /\ (n - 1) + 1 = n
          BY <2>1, <4>1
        <5> QED BY <2>1, <5>1
      <4>3. End(g).m = g.motion[n - 1].m
        BY <2>1, <3>2, EndIs
      <4> QED BY <4>2, <4>3
    <3> QED BY <3>1, <3>2
  <2> QED BY <2>3, <2>4, <2>5
<1>4. CASE Started(f, g)
  BY <1>4 DEF Started, Lifted, End
<1> QED BY <1>1, <1>2, <1>3, <1>4 DEF Drifts

LEMMA EndZ ==
    ASSUME NEW bys, NEW f \in Machines(bys), Lifted(f) PROVE End(f).m["z"] = SafeZ
<1>1. f.motion \in Seq(MovesBy(bys))
  BY DEF Machines
<1>2. f.motion # <<>> => Len(f.motion) \in DOMAIN f.motion
  BY <1>1
<1> QED BY <1>2, EndIs DEF Lifted

\* After a line that moves: the end of the queue is where the line says.
LEMMA EndTaken ==
    ASSUME NEW bys, NEW f \in Machines(bys), NEW by \in bys, NEW line \in Lines,
           line.c \in {"G53Z", "G53X", "M480", "G90X"},
           NEW g, g = Taken(f, line, by), ~Rejected(f, line)
    PROVE  /\ line.c = "G53Z" => End(g).m["z"] = line.v
           /\ line.c # "G53Z" /\ Lifted(f) => Lifted(g)
<1> DEFINE axis == IF line.c = "G53Z" THEN "z" ELSE "x"
<1>1. PICK d \in Int, seg \in MovesBy({by}) :
          /\ Shifts(End(f), seg, axis, d)
          /\ line.c # "G90X" => End(f).m[axis] + d = line.v
          /\ (Still(f, g) /\ d = 0) \/ Joins(f, g, seg)
  BY MoveTaken
<1>2. CASE Still(f, g) /\ d = 0
  <2>1. End(g) = End(f)
    BY <1>2 DEF Still, End
  <2>2. End(f).m \in Points
    BY EndTyped
  <2>3. line.c = "G53Z" => End(f).m["z"] = line.v
    BY <1>1, <1>2, <2>2 DEF Points, Axes
  <2> QED BY <1>2, <2>1, <2>3 DEF Still, Lifted
<1>3. CASE Joins(f, g, seg)
  <2>1. /\ Len(f.motion) \in Nat /\ DOMAIN f.motion = 1..Len(f.motion)
        /\ Len(g.motion) = Len(f.motion) + 1 /\ DOMAIN g.motion = 1..(Len(f.motion) + 1)
        /\ g.motion[Len(f.motion) + 1] = seg /\ g.motion # <<>>
        /\ \A i \in DOMAIN f.motion : g.motion[i] = f.motion[i]
    BY <1>3, JoinedIs
  <2>2. End(g).m = seg.m
    BY <2>1, EndIs
  <2>3. line.c = "G53Z" => seg.m["z"] = line.v
    BY <1>1 DEF Shifts
  <2>4. line.c # "G53Z" => seg.m["z"] = End(f).m["z"]
    BY <1>1 DEF Shifts, Axes
  <2>5. Lifted(f) /\ line.c # "G53Z" => Lifted(g)
    <3>1. SUFFICES ASSUME Lifted(f), line.c # "G53Z" PROVE Lifted(g)
      OBVIOUS
    <3>2. seg.m["z"] = SafeZ
      BY <2>4, <3>1, EndZ
    <3>3. g.m = f.m
      BY <1>3 DEF Joins
    <3>4. \A i \in DOMAIN g.motion : i \in DOMAIN f.motion \/ i = Len(f.motion) + 1
      BY <2>1
    <3> QED BY <2>1, <3>1, <3>2, <3>3, <3>4 DEF Lifted
  <2> QED BY <2>2, <2>3, <2>5
<1> QED BY <1>1, <1>2, <1>3

\* The instructions by which the height is reached and left.
LEMMA ProbeLines ==
    ASSUME NEW o \in Operations, o.req.op = "probe", o.pc \in DOMAIN Script(o)
    PROVE  /\ o.pc = 5 => Script(o)[o.pc].i = "send" /\ Script(o)[o.pc].line = Line("G53Z", SafeZ)
           /\ Script(o)[o.pc].i = "send" /\ o.pc # 6 => Script(o)[o.pc].line.c \in {"G53Z", "G38"}
<1>1. /\ o.pc \in 1..12 /\ Script(o)[5].i = "send" /\ Script(o)[5].line = Line("G53Z", SafeZ)
      /\ Script(o)[7].line = Line("G38", 4) /\ Script(o)[10].line = Line("G53Z", ProbeRetract(o))
      /\ Script(o)[1].i = "lock" /\ Script(o)[2].i = "unlock" /\ Script(o)[3].i = "track"
      /\ Script(o)[4].i = "lock" /\ Script(o)[8].i = "contact" /\ Script(o)[9].i = "check"
      /\ Script(o)[11].i = "await" /\ Script(o)[12].i = "unlock"
  BY ProbeScript
<1>2. \A v : Line("G53Z", v).c = "G53Z" /\ Line("G38", v).c = "G38"
  BY DEF Line
<1>3. o.pc = 1 \/ o.pc = 2 \/ o.pc = 3 \/ o.pc = 4 \/ o.pc = 5 \/ o.pc = 6 \/ o.pc = 7 \/ o.pc = 8 \/
      o.pc = 9 \/ o.pc = 10 \/ o.pc = 11 \/ o.pc = 12
  BY <1>1
<1> QED BY <1>1, <1>2, <1>3

LEMMA TraceLines ==
    ASSUME NEW o \in Operations, o.req.op = "trace", o.pc \in DOMAIN Script(o)
    PROVE  /\ o.pc = 6 =>
                /\ Script(o)[o.pc].i = "await" /\ Script(o)[o.pc].late = "error"
                /\ \A s : Matches(s, Script(o)[o.pc].want) => s.state = "Idle" /\ s.z = SafeZ
           /\ o.pc \in 7..10 =>
                \/ Script(o)[o.pc].i = "send" /\ Script(o)[o.pc].line.c = "G90X"
                \/ Script(o)[o.pc].i = "await"
           /\ Script(o)[o.pc].i = "send" /\ Script(o)[o.pc].line.c \in {"G90X", "G53X", "M480", "G38"} => o.pc >= 7
           /\ o.pc = 10 =>
                /\ Script(o)[o.pc].i = "await" /\ Script(o)[o.pc].late = "error"
                /\ \A s : Matches(s, Script(o)[o.pc].want) => s.state = "Idle"
<1>1. /\ o.pc \in 1..11
      /\ Script(o)[1].i = "lock" /\ Script(o)[2].i = "track" /\ Script(o)[3].i = "query"
      /\ Script(o)[4].line = Line("M494", 0) /\ Script(o)[5].line = Line("G53Z", SafeZ)
      /\ Script(o)[6].i = "await" /\ Script(o)[6].want = Lifts /\ Script(o)[6].late = "error"
      /\ Script(o)[7].i = "send" /\ Script(o)[7].line = Line("G90X", 1 - o.offset)
      /\ Script(o)[8].i = "await" /\ Script(o)[9].i = "send"
      /\ Script(o)[9].line = Line("G90X", o.req.v - o.offset)
      /\ Script(o)[10].i = "await" /\ Script(o)[10].want = Reaches(o.req.v) /\ Script(o)[10].late = "error"
  BY TraceScript
<1>2. \A v : Line("G53Z", v).c = "G53Z" /\ Line("M494", v).c = "M494" /\ Line("G90X", v).c = "G90X"
  BY DEF Line
<1>3. o.pc = 1 \/ o.pc = 2 \/ o.pc = 3 \/ o.pc = 4 \/ o.pc = 5 \/ o.pc = 6 \/ o.pc = 7 \/ o.pc = 8 \/
      o.pc = 9 \/ o.pc = 10 \/ o.pc = 11
  BY <1>1
<1>4. /\ \A s : Matches(s, Lifts) => s.state = "Idle" /\ s.z = SafeZ
      /\ \A s, x : Matches(s, Reaches(x)) => s.state = "Idle"
  BY DEF Matches, Lifts, Reaches
<1> QED BY <1>1, <1>2, <1>3, <1>4

LEMMA GoesHeight ==
    ASSUME BaseInv, LiftInv, NEW c \in Clients, ops[c] # None, Goes(c)
    PROVE  AtHeight(ops'[c], fw')
<1> DEFINE o == ops[c]
           p == ops'[c]
           ins == At(c)
<1>1. fw \in Machines(Bys)
  BY BaseParts DEF WorldInv
<1>2. /\ o \in Operations /\ o.pc \in DOMAIN Script(o) /\ ins = Script(o)[o.pc]
      /\ ins.i = "send" => ins.line \in Lines
      /\ o.pc < Len(Script(o))
  <2>1. OpsInv
    BY BaseParts
  <2>2. Shape(o)
    BY <2>1, AtIs
  <2>3. ins.i = "send" => ins.line \in Lines
    BY <2>1, <2>2, AtIs DEF Shape
  <2> QED BY <2>1, <2>3, AtIs DEF Goes
<1>3. p.req = o.req /\ p.pc = o.pc + 1 /\ o.pc \in Nat
  BY <1>2 DEF Goes, Operations
<1>4. Advances(c, ins, o, p)
  BY DEF Goes
<1>5. AtHeight(o, fw)
  BY DEF LiftInv
<1>6. <<c, calls[c]>> \in Bys
  BY DEF BaseInv, TypeOK, Bys
<1> HIDE DEF o, p, ins
<1>7. ASSUME ins.i = "send"
      PROVE  ~Rejected(fw, ins.line) /\ fw' = Taken(fw, ins.line, <<c, calls[c]>>)
  BY <1>4, <1>7 DEF Advances, Refused
<1>8. ASSUME p.req.op = "probe", p.pc = 6 PROVE End(fw').m["z"] = SafeZ
  <2>1. ins.i = "send" /\ ins.line = Line("G53Z", SafeZ)
    BY <1>2, <1>3, <1>8, ProbeLines
  <2>2. ins.line.c = "G53Z" /\ ins.line.v = SafeZ
    BY <2>1 DEF Line
  <2> QED BY <1>1, <1>2, <1>6, <1>7, <2>1, <2>2, EndTaken
<1>9. ASSUME p.req.op = "trace", p.pc >= 7 PROVE Lifted(fw')
  <2>1. CASE o.pc = 6
    <3>1. ins.i = "await" /\ ins.late = "error" /\ (Matches(Reported, ins.want) => Reported.state = "Idle" /\ Reported.z = SafeZ)
      BY <1>2, <1>3, <1>9, <2>1, TraceLines
    <3>2. Matches(Reported, ins.want) /\ fw' = statusAt(fw)
      BY <1>4, <3>1 DEF Advances
    <3>3. fw.motion = <<>>
      BY <3>1, <3>2, IdleSpares
    <3>4. fw.m["z"] = SafeZ
      BY <3>1, <3>2 DEF Reported, Status
    <3>5. Still(fw, fw')
      BY <3>2, SeenIs DEF Seen
    <3> QED BY <3>3, <3>4, <3>5 DEF Still, Lifted
  <2>2. CASE o.pc # 6
    <3>1. o.pc \in 7..10
      <4>1. Len(Script(o)) = 11
        BY <1>2, <1>3, <1>9, TraceScript
      <4> QED BY <1>2, <1>3, <1>9, <2>2, <4>1
    <3>2. Lifted(fw)
      BY <1>3, <1>5, <1>9, <3>1 DEF AtHeight
    <3>3. CASE ins.i = "send" /\ ins.line.c = "G90X"
      BY <1>1, <1>2, <1>6, <1>7, <3>2, <3>3, EndTaken
    <3>4. CASE ins.i = "await"
      BY <1>4, <3>4, <3>2, SeenIs DEF Advances, Seen, Still, Lifted
    <3> QED BY <1>2, <1>3, <1>9, <3>1, <3>3, <3>4, TraceLines
  <2> QED BY <2>1, <2>2
<1>10. AtHeight(p, fw')
  BY <1>8, <1>9 DEF AtHeight
<1> QED BY <1>10 DEF p

LEMMA HeightInside ==
    ASSUME NEW o \in Operations,
           (o.req.op = "probe" /\ o.pc = 6) \/ (o.req.op = "trace" /\ o.pc >= 7)
    PROVE  Inside(o)
  BY DEF Inside, InsideAt, Entry, Operations

LEMMA LiftKept == ASSUME BaseInv, LiftInv, LocksInAlarm, [Next]_vars PROVE LiftInv'
<1>0. fw \in Machines(Bys)
  BY BaseParts DEF WorldInv
<1>1. ASSUME NEW d \in Clients, Acts(d), NEW c \in Clients, ops'[c] # None
      PROVE  AtHeight(ops'[c], fw')
  <2>1. CASE c # d
    <3>1. ops'[c] = ops[c]
      BY <1>1, <2>1, OthersKept
    <3>2. AtHeight(ops[c], fw) /\ ops[c] \in Operations /\ (Inside(ops[c]) <=> lock = c)
      BY <1>1, <3>1 DEF LiftInv, BaseInv, TypeOK, LockInv
    <3>3. lock = c => fw' = fw
      BY <1>1, <2>1, OthersQuiet
    <3> QED BY <3>1, <3>2, <3>3, HeightInside DEF AtHeight
  <2>2. CASE c = d /\ ops[c] = None
    <3>1. Begin(c)
      BY <1>1, <2>2 DEF Acts, Step, Wait
    <3>2. ops'[c].pc = 1
      BY <3>1 DEF Begin, BaseInv, TypeOK
    <3> QED BY <3>2 DEF AtHeight
  <2>3. CASE c = d /\ ops[c] # None /\ Stays(c)
    <3>1. ops'[c] = ops[c] /\ AtHeight(ops[c], fw) /\ Seen(fw, fw')
      BY <2>3 DEF Stays, LiftInv
    <3>2. Still(fw, fw')
      BY <3>1, SeenIs
    <3>3. Lifted(fw) => Lifted(fw')
      BY <3>2 DEF Still, Lifted
    <3>4. End(fw') = End(fw)
      BY <3>2 DEF Still, End
    <3>5. ops[c].req.op = "probe" /\ InAlarm(fw) => InAlarm(fw')
      BY <2>3, <3>1, ProbesLocked, AlarmStays
    <3> QED BY <3>1, <3>3, <3>4, <3>5 DEF AtHeight
  <2>4. CASE c = d /\ ops[c] # None /\ Goes(c)
    BY <2>4, GoesHeight
  <2> QED BY <1>1, <2>1, <2>2, <2>3, <2>4, Outcome DEF Over
<1>2. ASSUME World \/ UNCHANGED vars, NEW c \in Clients, ops'[c] # None
      PROVE  AtHeight(ops'[c], fw')
  <2>1. ops[c] # None /\ ops'[c].req = ops[c].req /\ ops'[c].pc = ops[c].pc
    BY <1>2, WorldKeepsOps
  <2>2. AtHeight(ops[c], fw)
    BY <2>1 DEF LiftInv
  <2>3. Drifts(fw, fw')
    BY <1>2, WorldIs
  <2>4. ops[c].req.op = "probe" /\ InAlarm(fw) => InAlarm(fw')
    BY <1>2, <2>1, ProbesLocked, AlarmStays
  <2>5. /\ Lifted(fw) => Lifted(fw')
        /\ End(fw).m["z"] = SafeZ => End(fw').m["z"] = SafeZ \/ InAlarm(fw')
    BY <1>0, <2>3, DriftHeight DEF InAlarm
  <2> QED BY <2>1, <2>2, <2>4, <2>5 DEF AtHeight
<1>3. \A c \in Clients : ops'[c] # None => AtHeight(ops'[c], fw')
  BY <1>1, <1>2, NextSplit
<1> QED BY <1>3 DEF LiftInv, AtHeight, Lifted, End, InAlarm

LEMMA SameTravels ==
    ASSUME NEW bys, NEW f \in Machines(bys), NEW g, SameQueue(f, g), Travels(f) PROVE Travels(g)
<1>1. f.motion \in Seq(MovesBy(bys))
  BY DEF Machines
<1>2. Len(f.motion) \in Nat /\ DOMAIN f.motion = 1..Len(f.motion)
  BY <1>1
<1>3. SUFFICES ASSUME NEW i \in DOMAIN g.motion, Owner(g.motion[i]) \in {"probe", "trace"},
                      g.motion[i].m["x"] # Before(g, i)["x"]
               PROVE  Before(g, i)["z"] = SafeZ
  BY DEF Travels
<1>4. i \in DOMAIN f.motion /\ g.m = f.m /\ g.motion[i].m = f.motion[i].m /\ g.motion[i].by = f.motion[i].by
  BY DEF SameQueue
<1>5. Owner(g.motion[i]) = Owner(f.motion[i])
  BY <1>4 DEF Owner
<1>6. i # 1 => i - 1 \in DOMAIN f.motion
  BY <1>2, <1>4
<1>7. Before(g, i) = Before(f, i)
  BY <1>4, <1>6 DEF Before, SameQueue
<1> QED BY <1>3, <1>4, <1>5, <1>7 DEF Travels

LEMMA JoinTravels ==
    ASSUME NEW bys, NEW f \in Machines(bys), NEW g, NEW seg, Joins(f, g, seg), Travels(f),
           Owner(seg) \in {"probe", "trace"} /\ seg.m["x"] # End(f).m["x"] => End(f).m["z"] = SafeZ
    PROVE  Travels(g)
<1> DEFINE n == Len(f.motion)
<1>1. /\ n \in Nat /\ DOMAIN f.motion = 1..n
      /\ Len(g.motion) = n + 1 /\ DOMAIN g.motion = 1..(n + 1)
      /\ g.motion[n + 1] = seg
      /\ \A i \in DOMAIN f.motion : g.motion[i] = f.motion[i]
  BY JoinedIs
<1>2. g.m = f.m
  BY DEF Joins
<1>3. Before(g, n + 1) = End(f).m
  <2>1. CASE f.motion = <<>>
    BY <2>1, <1>2, EndIs DEF Before
  <2>2. CASE f.motion # <<>>
    <3>0. f.motion \in Seq(MovesBy(bys))
      BY DEF Machines
    <3>1. n # 0
      BY <2>2, <3>0
    <3>2. n \in DOMAIN f.motion /\ n + 1 # 1 /\ (n + 1) - 1 = n
      <4> HIDE DEF n
      <4> QED BY <1>1, <3>1
    <3>3. End(f).m = f.motion[n].m
      BY <2>2, EndIs
    <3> HIDE DEF n
    <3> QED BY <1>1, <3>2, <3>3 DEF Before
  <2> QED BY <2>1, <2>2
<1>4. SUFFICES ASSUME NEW i \in DOMAIN g.motion, Owner(g.motion[i]) \in {"probe", "trace"},
                      g.motion[i].m["x"] # Before(g, i)["x"]
               PROVE  Before(g, i)["z"] = SafeZ
  BY DEF Travels
<1> HIDE DEF n
<1>5. CASE i = n + 1
  BY <1>1, <1>3, <1>4, <1>5
<1>6. CASE i # n + 1
  BY <1>1, <1>6, <1>2, <1>4 DEF Before, Travels
<1> QED BY <1>5, <1>6

LEMMA DriftTravels ==
    ASSUME NEW bys, NEW f \in Machines(bys), NEW g, Drifts(f, g), Travels(f) PROVE Travels(g)
<1>1. CASE Still(f, g)
  BY <1>1 DEF Still, Travels, Before
<1>2. CASE Emptied(f, g)
  BY <1>2 DEF Emptied, Travels
<1>3. CASE Moved(f, g)
  <2> DEFINE n == Len(f.motion)
  <2>1. /\ n \in Nat /\ DOMAIN f.motion = 1..n /\ n >= 1
        /\ DOMAIN g.motion = 1..(n - 1)
        /\ \A i \in DOMAIN g.motion : i + 1 \in DOMAIN f.motion /\ g.motion[i] = f.motion[i + 1]
    BY <1>3, MovedIs
  <2>2. g.m = f.motion[1].m
    BY <1>3 DEF Moved
  <2> HIDE DEF n
  <2>3. SUFFICES ASSUME NEW i \in DOMAIN g.motion, Owner(g.motion[i]) \in {"probe", "trace"},
                        g.motion[i].m["x"] # Before(g, i)["x"]
                 PROVE  Before(g, i)["z"] = SafeZ
    BY DEF Travels
  <2>4. i \in Nat /\ i >= 1 /\ i + 1 # 1 /\ (i + 1) - 1 = i
    BY <2>1
  <2>5. Before(f, i + 1) = f.motion[i].m
    BY <2>4 DEF Before
  <2>6. Before(g, i) = f.motion[i].m
    <3>1. CASE i = 1
      BY <2>2, <3>1 DEF Before
    <3>2. CASE i # 1
      <4>1. i - 1 \in DOMAIN g.motion /\ (i - 1) + 1 = i
        BY <2>1, <2>4, <3>2
      <4>2. g.motion[i - 1] = f.motion[i]
        BY <2>1, <4>1
      <4> QED BY <3>2, <4>2 DEF Before
    <3> QED BY <3>1, <3>2
  <2>7. i + 1 \in DOMAIN f.motion /\ g.motion[i] = f.motion[i + 1]
    BY <2>1
  <2> QED BY <2>3, <2>5, <2>6, <2>7 DEF Travels
<1>4. CASE Started(f, g)
  BY <1>4 DEF Started, Travels, Owner
<1> QED BY <1>1, <1>2, <1>3, <1>4 DEF Drifts

\* A move that joins the queue for a travelling operation starts at the safe
\* height.
LEMMA JoinsHigh ==
    ASSUME BaseInv, LiftInv, LocksInAlarm, NEW d \in Clients, ops[d] # None, At(d).i = "send",
           At(d).line.c \in {"G53Z", "G53X", "G90X", "M480", "G38"}, ~Rejected(fw, At(d).line),
           NEW seg \in MovesBy({<<d, calls[d]>>}), 
           At(d).line.c \in {"G53Z", "G38"} => seg.m["x"] = End(fw).m["x"],
           Owner(seg) \in {"probe", "trace"}, seg.m["x"] # End(fw).m["x"]
    PROVE  End(fw).m["z"] = SafeZ
<1> DEFINE o == ops[d]
           line == At(d).line
<1>1. /\ o \in Operations /\ o.pc \in DOMAIN Script(o) /\ At(d) = Script(o)[o.pc]
  BY BaseParts, AtIs
<1>2. Owner(seg) = o.req.op
  BY OwnerOf DEF MovesBy
<1>3. line.c \in {"G53X", "G90X", "M480"}
  OBVIOUS
<1>4. AtHeight(o, fw)
  BY DEF LiftInv
<1>5. CASE o.req.op = "probe"
  <2>1. o.pc = 6
    BY <1>1, <1>3, <1>5, ProbeLines
  <2>2. ~InAlarm(fw)
    <3>1. Here.alarmLock
      BY <1>5, ProbesLocked
    <3>2. line.c \notin Console /\ line.c # "suspend" /\ line.c # "resume"
      BY <1>3 DEF Console
    <3> HIDE DEF line
    <3>3. ~Rejected(fw, line)
      BY DEF line
    <3> QED BY <3>1, <3>2, <3>3 DEF Rejected
  <2> QED BY <1>4, <1>5, <2>1, <2>2 DEF AtHeight
<1>6. CASE o.req.op = "trace"
  <2>1. o.pc >= 7
    BY <1>1, <1>3, <1>6, TraceLines
  <2>2. fw \in Machines(Bys)
    BY BaseParts DEF WorldInv
  <2> QED BY <1>4, <1>6, <2>1, <2>2, EndZ DEF AtHeight
<1> QED BY <1>2, <1>5, <1>6

LEMMA OwnerKept == ASSUME NEW q, scene' = scene PROVE Owner(q)' = Owner(q)
  BY DEF Owner, Here

LEMMA TravelKept ==
    ASSUME BaseInv, LiftInv, TravelInv, LocksInAlarm, [Next]_vars PROVE TravelInv'
<1>1. fw \in Machines(Bys) /\ Here.alarmLock \in BOOLEAN /\ Here.unlockClears \in BOOLEAN
      /\ Here.vacuum \in BOOLEAN /\ Travels(fw)
  BY BaseParts, SceneTyped DEF WorldInv, TravelInv
<1>2. ASSUME NEW d \in Clients, Acts(d) PROVE Travels(fw') /\ scene' = scene
  <2>1. scene' = scene
    BY <1>2, ActsIs
  <2>2. CASE Seen(fw, fw')
    BY <1>1, <2>1, <2>2, SeenIs, DriftTravels DEF Drifts
  <2>3. CASE ~Seen(fw, fw')
    <3>1. /\ ops[d] # None /\ At(d).i = "send" /\ fw' = Taken(fw, At(d).line, <<d, calls[d]>>)
          /\ At(d).line \in Lines /\ <<d, calls[d]>> \in Bys
      BY <1>2, <2>3, ActsMachine
    <3>2. CASE SameQueue(fw, fw')
      BY <1>1, <2>1, <3>2, SameTravels
    <3>3. CASE fw'.motion = <<>>
      BY <2>1, <3>3 DEF Travels
    <3>4. CASE /\ ~Rejected(fw, At(d).line) /\ At(d).line.c \in {"G53Z", "G53X", "G90X", "M480", "G38"}
               /\ \E seg \in MovesBy({<<d, calls[d]>>}) :
                    Joins(fw, fw', seg) /\ (At(d).line.c \in {"G53Z", "G38"} => seg.m["x"] = End(fw).m["x"])
      <4>1. PICK seg \in MovesBy({<<d, calls[d]>>}) :
                    Joins(fw, fw', seg) /\ (At(d).line.c \in {"G53Z", "G38"} => seg.m["x"] = End(fw).m["x"])
        BY <3>4
      <4>2. Owner(seg) \in {"probe", "trace"} /\ seg.m["x"] # End(fw).m["x"] => End(fw).m["z"] = SafeZ
        BY <3>1, <3>4, <4>1, JoinsHigh
      <4> QED BY <1>1, <2>1, <4>1, <4>2, JoinTravels
    <3> QED BY <1>1, <3>1, <3>2, <3>3, <3>4, TakenQueue
  <2> QED BY <2>2, <2>3
<1>4. Travels(fw') /\ scene' = scene
  <2>1. CASE World \/ UNCHANGED vars
    BY <1>1, <2>1, WorldIs, DriftTravels
  <2> QED BY <1>2, <2>1, NextSplit
<1>5. \A q : Owner(q)' = Owner(q)
  BY <1>4, OwnerKept
<1> QED BY <1>4, <1>5 DEF TravelInv, Travels, Before

\* ProbeZ and TraceOutline travel over the work at the safe height only, whatever
\* an earlier operation, a probing move that failed, a hold, a halt or a program
\* left behind -- on a machine that refuses lines in Alarm.
THEOREM TravelsSafely == ASSUME LocksInAlarm PROVE Spec => []TravelAtSafeZ
<1>1. Init => BaseInv /\ LiftInv /\ TravelInv
  <2>1. ASSUME Init PROVE LiftInv
    BY <2>1 DEF Init, LiftInv
  <2>2. ASSUME Init PROVE TravelInv
    <3>1. fw \in Machines({ByProgram})
      BY <2>2, SceneTyped DEF Init
    <3>2. fw.motion \in Seq(MovesBy({ByProgram}))
      BY <3>1 DEF Machines
    <3>3. \A i \in DOMAIN fw.motion : fw.motion[i].by = ByProgram
      <4>1. \A i \in DOMAIN fw.motion : fw.motion[i] \in MovesBy({ByProgram})
        BY <3>2
      <4> QED BY <4>1 DEF MovesBy
    <3> QED BY <3>3 DEF TravelInv, Travels, Owner
  <2> QED BY <2>1, <2>2, InitBase
<1>2. BaseInv /\ LiftInv /\ TravelInv /\ [Next]_vars => BaseInv' /\ LiftInv' /\ TravelInv'
  BY NextKeepsBase, LiftKept, TravelKept
<1>3. BaseInv /\ TravelInv => TravelAtSafeZ
  <2>1. SUFFICES ASSUME BaseInv, TravelInv, fw.motion # <<>>, Owner(Head(fw.motion)) \in {"probe", "trace"},
                        Head(fw.motion).m["x"] # fw.m["x"]
                 PROVE  fw.m["z"] = SafeZ
    BY DEF TravelAtSafeZ
  <2>0. fw \in Machines(Bys)
    BY <2>1, BaseParts DEF WorldInv
  <2>2. fw.motion \in Seq(MovesBy(Bys))
    BY <2>0 DEF Machines
  <2>3. 1 \in DOMAIN fw.motion /\ Head(fw.motion) = fw.motion[1]
    BY <2>1, <2>2
  <2>4. Before(fw, 1) = fw.m
    BY DEF Before
  <2> QED BY <2>1, <2>3, <2>4 DEF TravelInv, Travels
<1> QED BY <1>1, <1>2, <1>3, PTL DEF Spec

-----------------------------------------------------------------------------
(* Success: the operation's own moves are done when it says so.             *)

LEMMA BeginIs ==
    ASSUME BaseInv, NEW c \in Clients, Begin(c)
    PROVE  /\ ops'[c] \in Operations /\ ops'[c] # None /\ ops'[c].pc = 1
           /\ ops[c] = None /\ fw' = fw /\ done' = done /\ scene' = scene
<1> DEFINE n == calls[c] + 1
           p == [req |-> Here.calls[c][n], pc |-> 1, st |-> tracker.status, z |-> 0,
                 offset |-> 0, contact |-> 0, code |-> 0, halted |-> FALSE, after |-> 0]
<1>1. OpsInv /\ WorldInv
  BY BaseParts
<1>2. Here.calls[c] \in Seq(Requests) /\ n \in 1..Len(Here.calls[c])
  BY <1>1, SceneTyped DEF WorldInv, OpsInv, Begin
<1>3. Here.calls[c][n] \in Requests /\ tracker.status \in Statuses
  BY <1>1, <1>2, ElementOfSeq DEF WorldInv
<1>4. p \in Operations /\ p.pc = 1
  BY <1>3 DEF Operations
<1>5. ops' = [ops EXCEPT ![c] = p]
  BY DEF Begin
<1> HIDE DEF p
<1>6. ops'[c] = p
  BY <1>1, <1>5 DEF OpsInv
<1> QED BY <1>4, <1>6, NoneIsNone DEF Begin

\* The operations that promise it, and where they know it.
Finishes(req) == req.op \in {"probe", "trace"} \/ (req.op = "zero" /\ req.kind = "floor")
Finishing(o) ==
    \/ o.req.op = "probe" /\ o.pc = 12
    \/ o.req.op = "trace" /\ o.pc = 11
    \/ o.req.op = "zero" /\ o.req.kind = "floor" /\ o.pc >= 11
\* No move of the queue is by this call.
NoneOf(f, by) == \A i \in DOMAIN f.motion : f.motion[i].by # by
\* Client c has nothing left to do in the queue.
Rests(c) ==
    \/ ops[c] # None /\ Finishing(ops[c])
    \/ ops[c] = None /\ done[c] # None /\ done[c].ok /\ Finishes(done[c].req)
\* Who has finished, or is about to, has no move left.
RestInv == \A c \in Clients : Rests(c) => calls[c] # 0 /\ NoneOf(fw, <<c, calls[c]>>)

LEMMA FinishScript ==
    ASSUME NEW o \in Operations, o.pc \in DOMAIN Script(o), Finishes(o.req)
    PROVE  /\ o.pc = Len(Script(o)) => Finishing(o)
           /\ Finishing(o) => Script(o)[o.pc].i \in {"check", "refresh", "unlock"}
           /\ \A p : p.req = o.req /\ p.pc = o.pc + 1 /\ Finishing(p) /\ ~Finishing(o) =>
                /\ Script(o)[o.pc].i = "await" /\ Script(o)[o.pc].late = "error"
                /\ \A s : Matches(s, Script(o)[o.pc].want) => s.state = "Idle"
<1>1. o.pc \in Nat
  BY DEF Operations
<1>2. \A s : Matches(s, In({"Idle"})) => s.state = "Idle"
  BY DEF Matches, In
<1>3. CASE o.req.op = "probe"
  <2>1. /\ Len(Script(o)) = 12 /\ Script(o)[11].i = "await" /\ Script(o)[11].want = In({"Idle"})
        /\ Script(o)[11].late = "error" /\ Script(o)[12].i = "unlock"
    BY <1>3, ProbeScript
  <2>2. \A p : p.req = o.req /\ p.pc = o.pc + 1 /\ Finishing(p) /\ ~Finishing(o) => o.pc = 11
    BY <1>1, <1>3 DEF Finishing
  <2> QED BY <1>2, <1>3, <2>1, <2>2 DEF Finishing
<1>4. CASE o.req.op = "trace"
  <2>1. Len(Script(o)) = 11 /\ Script(o)[11].i = "unlock"
    BY <1>4, TraceScript
  <2>2. \A p : p.req = o.req /\ p.pc = o.pc + 1 /\ Finishing(p) /\ ~Finishing(o) => o.pc = 10
    BY <1>1, <1>4 DEF Finishing
  <2>3. o.pc = 10 =>
            /\ Script(o)[o.pc].i = "await" /\ Script(o)[o.pc].late = "error"
            /\ \A s : Matches(s, Script(o)[o.pc].want) => s.state = "Idle"
    BY <1>4, TraceLines
  <2> QED BY <1>4, <2>1, <2>2, <2>3 DEF Finishing
<1>5. CASE o.req.op = "zero" /\ o.req.kind = "floor"
  <2>1. /\ Len(Script(o)) = 13 /\ Script(o)[10].i = "await" /\ Script(o)[10].want = In({"Idle"})
        /\ Script(o)[10].late = "error" /\ Script(o)[11].i = "check" /\ Script(o)[12].i = "refresh"
        /\ Script(o)[13].i = "unlock" /\ o.pc \in 1..13
    BY <1>5, FloorScript
  <2>2. \A p : p.req = o.req /\ p.pc = o.pc + 1 /\ Finishing(p) /\ ~Finishing(o) => o.pc = 10
    BY <1>1, <1>5 DEF Finishing
  <2>3. Finishing(o) => o.pc = 11 \/ o.pc = 12 \/ o.pc = 13
    BY <1>5, <2>1 DEF Finishing
  <2>4. o.pc = 13 => Finishing(o)
    BY <1>5 DEF Finishing
  <2> QED BY <1>2, <2>1, <2>2, <2>3, <2>4
<1> QED BY <1>3, <1>4, <1>5 DEF Finishes

LEMMA DriftNone ==
    ASSUME NEW bys, NEW f \in Machines(bys), NEW g, Drifts(f, g), NEW by, by # ByProgram, NoneOf(f, by)
    PROVE  NoneOf(g, by)
<1>1. CASE Still(f, g)
  BY <1>1 DEF Still, NoneOf
<1>2. CASE Emptied(f, g)
  BY <1>2 DEF Emptied, NoneOf
<1>3. CASE Moved(f, g)
  BY <1>3, MovedIs DEF NoneOf
<1>4. CASE Started(f, g)
  BY <1>4 DEF Started, NoneOf
<1> QED BY <1>1, <1>2, <1>3, <1>4 DEF Drifts

\* A step of another client.
LEMMA OthersNone ==
    ASSUME BaseInv, NEW c \in Clients, NEW d \in Clients, c # d, Acts(d), NEW n \in Nat, n # 0,
           NoneOf(fw, <<c, n>>)
    PROVE  NoneOf(fw', <<c, n>>)
<1>1. fw \in Machines(Bys) /\ Here.alarmLock \in BOOLEAN /\ Here.unlockClears \in BOOLEAN
      /\ Here.vacuum \in BOOLEAN
  BY BaseParts, SceneTyped DEF WorldInv
<1>2. <<c, n>> # ByProgram
  BY DEF ByProgram
<1>3. CASE Seen(fw, fw')
  BY <1>1, <1>2, <1>3, SeenIs, DriftNone DEF Drifts
<1>4. CASE ~Seen(fw, fw')
  <2>1. /\ fw' = Taken(fw, At(d).line, <<d, calls[d]>>)
        /\ At(d).line \in Lines /\ <<d, calls[d]>> \in Bys
    BY <1>4, ActsMachine
  <2>2. CASE SameQueue(fw, fw')
    BY <2>2 DEF SameQueue, NoneOf
  <2>3. CASE fw'.motion = <<>>
    BY <2>3 DEF NoneOf
  <2>4. CASE \E seg \in MovesBy({<<d, calls[d]>>}) : Joins(fw, fw', seg)
    <3>1. PICK seg \in MovesBy({<<d, calls[d]>>}) : Joins(fw, fw', seg)
      BY <2>4
    <3>2. seg.by # <<c, n>>
      BY DEF MovesBy
    <3>3. \A i \in DOMAIN fw'.motion : i \in DOMAIN fw.motion \/ i = Len(fw.motion) + 1
      BY <1>1, <3>1, JoinedIs
    <3> QED BY <1>1, <3>1, <3>2, <3>3, JoinedIs DEF NoneOf
  <2> QED BY <1>1, <2>1, <2>2, <2>3, <2>4, TakenQueue
<1> QED BY <1>3, <1>4

LEMMA OwnNone ==
    ASSUME BaseInv, RestInv, NEW c \in Clients, Acts(c),
           \/ ops'[c] # None /\ Finishing(ops'[c])
           \/ ops'[c] = None /\ done'[c] # None /\ done'[c].ok /\ Finishes(done'[c].req)
    PROVE  calls'[c] # 0 /\ NoneOf(fw', <<c, calls'[c]>>)
<1>1. fw \in Machines(Bys)
  BY BaseParts DEF WorldInv
<1>2. CASE ops[c] = None
  BY <1>2, BeginIs DEF Acts, Step, Wait, Finishing
<1>3. CASE ops[c] # None
  <2> DEFINE o == ops[c]
             p == ops'[c]
  <2>0. calls[c] \in Nat /\ calls[c] # 0
    BY <1>3 DEF BaseInv, Requested, TypeOK
  <2>1. <<c, calls[c]>> # ByProgram
    BY <2>0 DEF ByProgram
  <2>2. o \in Operations /\ o.pc \in DOMAIN Script(o) /\ At(c) = Script(o)[o.pc]
    BY <1>3, BaseParts, AtIs
  <2>3. Finishing(o) => NoneOf(fw, <<c, calls[c]>>)
    BY <1>3 DEF RestInv, Rests
  <2>4. Seen(fw, fw') /\ NoneOf(fw, <<c, calls[c]>>) => NoneOf(fw', <<c, calls[c]>>)
    BY <1>1, <2>1, SeenIs, DriftNone DEF Drifts
  <2>5. CASE Stays(c)
    BY <2>5, <1>3, <2>0, <2>3, <2>4 DEF Stays
  <2>6. CASE Goes(c)
    <3>1. p \in Operations /\ p.req = o.req /\ p.pc = o.pc + 1 /\ calls' = calls
          /\ Advances(c, At(c), o, p)
      BY <2>6 DEF Goes
    <3>2. p # None
      BY <3>1, NoneIsNone
    <3>3. Finishing(p)
      BY <3>2
    <3>4. Finishes(o.req)
      BY <3>1, <3>3 DEF Finishes, Finishing
    <3>5. CASE Finishing(o)
      <4>1. At(c).i \in {"check", "refresh", "unlock"}
        BY <2>2, <3>4, <3>5, FinishScript
      <4>2. Seen(fw, fw')
        BY <3>1, <4>1 DEF Advances, Seen
      <4> QED BY <2>0, <2>3, <2>4, <3>1, <3>5, <4>2
    <3>6. CASE ~Finishing(o)
      <4>1. /\ At(c).i = "await" /\ At(c).late = "error"
            /\ \A s : Matches(s, At(c).want) => s.state = "Idle"
        BY <2>2, <3>1, <3>3, <3>4, <3>6, FinishScript
      <4>2. fw' = statusAt(fw) /\ Reported.state = "Idle"
        BY <3>1, <4>1 DEF Advances
      <4>3. fw.motion = <<>>
        BY <4>2, IdleSpares
      <4> QED BY <2>0, <2>4, <3>1, <4>2, <4>3 DEF NoneOf, Seen
    <3> QED BY <3>5, <3>6
  <2>7. CASE Over(c)
    <3>1. p = None /\ done'[c].ok /\ Finishes(done'[c].req)
      BY <2>7 DEF Over
    <3>2. done'[c].req = o.req /\ o.pc = Len(Script(o)) /\ fw' = fw /\ calls' = calls
      BY <2>7, <3>1 DEF Over
    <3>3. Finishing(o)
      BY <2>2, <3>1, <3>2, FinishScript
    <3> QED BY <2>0, <2>3, <3>2, <3>3
  <2> QED BY <1>3, <2>5, <2>6, <2>7, Outcome
<1> QED BY <1>2, <1>3

LEMMA RestKept == ASSUME BaseInv, RestInv, [Next]_vars PROVE RestInv'
<1>0. fw \in Machines(Bys)
  BY BaseParts DEF WorldInv
<1>1. ASSUME NEW c \in Clients,
             \/ ops'[c] # None /\ Finishing(ops'[c])
             \/ ops'[c] = None /\ done'[c] # None /\ done'[c].ok /\ Finishes(done'[c].req)
      PROVE  calls'[c] # 0 /\ NoneOf(fw', <<c, calls'[c]>>)
  <2>1. ASSUME NEW d \in Clients, Acts(d) PROVE calls'[c] # 0 /\ NoneOf(fw', <<c, calls'[c]>>)
    <3>1. CASE d = c
      BY <1>1, <2>1, <3>1, OwnNone
    <3>2. CASE d # c
      <4>1. ops'[c] = ops[c] /\ done'[c] = done[c] /\ calls'[c] = calls[c]
        BY <2>1, <3>2, OthersKept
      <4>2. Rests(c)
        BY <1>1, <4>1 DEF Rests
      <4>3. calls[c] # 0 /\ NoneOf(fw, <<c, calls[c]>>) /\ calls[c] \in Nat
        BY <4>2 DEF RestInv, BaseInv, TypeOK
      <4> QED BY <2>1, <3>2, <4>1, <4>3, OthersNone
    <3> QED BY <3>1, <3>2
  <2>2. CASE World \/ UNCHANGED vars
    <3>1. /\ ops'[c] = None <=> ops[c] = None
          /\ ops[c] # None => ops'[c].req = ops[c].req /\ ops'[c].pc = ops[c].pc
      BY <2>2, WorldKeepsOps
    <3>2. calls' = calls /\ done' = done /\ Drifts(fw, fw')
      BY <2>2, WorldIs
    <3>3. Rests(c)
      BY <1>1, <3>1, <3>2 DEF Rests, Finishing
    <3>4. calls[c] # 0 /\ NoneOf(fw, <<c, calls[c]>>)
      BY <3>3 DEF RestInv
    <3>5. <<c, calls[c]>> # ByProgram
      BY <3>4 DEF ByProgram
    <3> QED BY <1>0, <3>2, <3>4, <3>5, DriftNone
  <2> QED BY <2>1, <2>2, NextSplit
<1> QED BY <1>1 DEF RestInv, Rests, Finishing, Finishes, NoneOf

LEMMA FloorIsZero == ASSUME NEW r \in Requests, r.kind = "floor" PROVE r.op = "zero"
<1>1. r.op \in AllMethods /\ r.kind \in Kinds(r.op)
  BY DEF Requests
<1> QED BY <1>1 DEF AllMethods, Methods, Kinds, Console, ToolLines, MoveLines

LEMMA RestsDone == ASSUME BaseInv, RestInv PROVE OwnMotionDone
<1>1. SUFFICES ASSUME NEW c \in Clients, done[c] # None, done[c].ok, ops[c] = None,
                      done[c].req.op \in {"probe", "trace"} \/ done[c].req.kind = "floor"
               PROVE  NoneOf(fw, <<c, calls[c]>>)
  BY DEF OwnMotionDone, NoneOf
<1>2. done[c].req \in Requests
  BY <1>1 DEF BaseInv, TypeOK, Results
<1>3. Finishes(done[c].req)
  BY <1>1, <1>2, FloorIsZero DEF Finishes
<1> QED BY <1>1, <1>3 DEF RestInv, Rests

LEMMA InitRest == ASSUME Init PROVE RestInv
  BY DEF Init, RestInv, Rests

-----------------------------------------------------------------------------
(* Success: the origin is at the contact.                                   *)

\* Every move of the queue keeps the height, and the work height.
AllLevel(f) ==
    \A i \in DOMAIN f.motion : f.motion[i].m["z"] = f.m["z"] /\ f.motion[i].w["z"] = f.w["z"]
\* The last move of the queue is the probing of this call.
LastProbes(f, by) ==
    f.motion # <<>> /\ f.motion[Len(f.motion)].by = by /\ f.motion[Len(f.motion)].kind = "probe"
\* At the contact, with the last work height perhaps set to zero.
AtContact(f) ==
    /\ f.m["z"] = Surface
    /\ \A i \in DOMAIN f.motion : /\ f.motion[i].m["z"] = Surface
                                  /\ f.motion[i].w["z"] \in {0, f.w["z"]}
                                  /\ i < Len(f.motion) => f.motion[i].w["z"] = f.w["z"]
\* Work Z zero is at the contact, now and after every move of the queue.
Zeroed(f) ==
    /\ f.m["z"] - f.w["z"] = Surface
    /\ \A i \in DOMAIN f.motion : f.motion[i].m["z"] - f.motion[i].w["z"] = Surface
\* What zProbeSetWorkZero knows, instruction by instruction.
Knows(o, f, by) ==
    o.req.op = "zero" =>
        /\ o.pc = 5 => AllLevel(f) \/ LastProbes(f, by)
        /\ o.pc \in {6, 7} => AllLevel(f) /\ o.contact = f.m["z"]
        /\ o.pc >= 7 => o.contact = Surface
        /\ o.pc = 8 => AtContact(f)
        /\ o.pc >= 9 => Zeroed(f)
\* So it is of every operation.
ZeroInv == \A c \in Clients : ops[c] # None => Knows(ops[c], fw, <<c, calls[c]>>)

LEMMA ZeroLines ==
    ASSUME NEW o \in Operations, o.req.op = "zero", o.pc \in DOMAIN Script(o)
    PROVE  /\ o.pc = 4 => Script(o)[o.pc].i = "send" /\ Script(o)[o.pc].line = Line("G38", 4)
           /\ o.pc = 5 => Script(o)[o.pc].i = "contact"
           /\ o.pc = 6 => Script(o)[o.pc].i = "check" /\ (Script(o)[o.pc].ok => o.contact = Surface)
           /\ o.pc = 7 => Script(o)[o.pc].i = "send" /\ Script(o)[o.pc].line = Line("G10L20Z", 0)
           /\ o.pc = 8 => /\ Script(o)[o.pc].i = "query"
                          /\ \A s : Matches(s, Script(o)[o.pc].want) => s.wz = 0
           /\ o.pc = 9 => Script(o)[o.pc].i = "send" /\ Script(o)[o.pc].line = Line("G53Z", Retract(o))
           /\ o.pc >= 10 => Script(o)[o.pc].i \in {"refresh", "await", "check", "unlock"}
           /\ o.pc = 1 \/ o.pc = 2 \/ o.pc = 3 \/ o.pc = 4 \/ o.pc = 5 \/ o.pc = 6 \/ o.pc = 7 \/
              o.pc = 8 \/ o.pc = 9 \/ o.pc >= 10
           /\ Len(Script(o)) >= 11
<1>1. \A s : Matches(s, [wz |-> {0}]) => s.wz = 0
  BY DEF Matches
<1>2. CASE o.req.kind = "floor"
  <2>1. /\ Len(Script(o)) = 13 /\ Script(o)[4].i = "send" /\ Script(o)[5].i = "contact"
        /\ Script(o)[6].i = "check" /\ Script(o)[7].i = "send" /\ Script(o)[8].i = "query"
        /\ Script(o)[9].i = "send" /\ Script(o)[10].i = "await" /\ Script(o)[11].i = "check"
        /\ Script(o)[12].i = "refresh" /\ Script(o)[13].i = "unlock" /\ Script(o)[4].line = Line("G38", 4)
        /\ (Script(o)[6].ok <=> o.contact = Surface) /\ Script(o)[7].line = Line("G10L20Z", 0)
        /\ Script(o)[8].want = [wz |-> {0}] /\ Script(o)[9].line = Line("G53Z", Retract(o))
        /\ o.pc \in 1..13
    BY <1>2, FloorScript
  <2>2. o.pc = 1 \/ o.pc = 2 \/ o.pc = 3 \/ o.pc = 4 \/ o.pc = 5 \/ o.pc = 6 \/ o.pc = 7 \/ o.pc = 8 \/
        o.pc = 9 \/ o.pc = 10 \/ o.pc = 11 \/ o.pc = 12 \/ o.pc = 13
    BY <2>1
  <2> QED BY <1>1, <2>1, <2>2
<1>3. CASE o.req.kind # "floor"
  <2>1. /\ Len(Script(o)) = 11 /\ Script(o)[4].i = "send" /\ Script(o)[5].i = "contact"
        /\ Script(o)[6].i = "check" /\ Script(o)[7].i = "send" /\ Script(o)[8].i = "query"
        /\ Script(o)[9].i = "send" /\ Script(o)[10].i = "refresh" /\ Script(o)[11].i = "unlock"
        /\ Script(o)[4].line = Line("G38", 4)
        /\ (Script(o)[6].ok <=> o.contact = Surface) /\ Script(o)[7].line = Line("G10L20Z", 0)
        /\ Script(o)[8].want = [wz |-> {0}] /\ Script(o)[9].line = Line("G53Z", Retract(o))
        /\ o.pc \in 1..11
    BY <1>3, AutoScript
  <2>2. o.pc = 1 \/ o.pc = 2 \/ o.pc = 3 \/ o.pc = 4 \/ o.pc = 5 \/ o.pc = 6 \/ o.pc = 7 \/ o.pc = 8 \/
        o.pc = 9 \/ o.pc = 10 \/ o.pc = 11
    BY <2>1
  <2> QED BY <1>1, <2>1, <2>2
<1> QED BY <1>2, <1>3

\* What drifts by keeps what is known.
LEMMA DriftLevel ==
    ASSUME NEW bys, NEW f \in Machines(bys), NEW g, Drifts(f, g)
    PROVE  /\ AllLevel(f) => AllLevel(g) /\ g.m["z"] = f.m["z"]
           /\ Zeroed(f) => Zeroed(g)
           /\ AtContact(f) => AtContact(g)
           /\ \A by : LastProbes(f, by) => AllLevel(g) \/ LastProbes(g, by)
<1>1. CASE Still(f, g)
  BY <1>1 DEF Still, AllLevel, Zeroed, AtContact, LastProbes
<1>2. CASE Emptied(f, g)
  BY <1>2 DEF Emptied, AllLevel, Zeroed, AtContact
<1>3. CASE Moved(f, g)
  <2> DEFINE n == Len(f.motion)
  <2>1. /\ n \in Nat /\ DOMAIN f.motion = 1..n /\ n >= 1
        /\ Len(g.motion) = n - 1 /\ DOMAIN g.motion = 1..(n - 1)
        /\ \A i \in DOMAIN g.motion : i + 1 \in DOMAIN f.motion /\ g.motion[i] = f.motion[i + 1]
    BY <1>3, MovedIs
  <2>2. f.motion # <<>> /\ g.m = f.motion[1].m /\ g.w = f.motion[1].w /\ 1 \in DOMAIN f.motion
    BY <1>3, <2>1 DEF Moved
  <2> HIDE DEF n
  <2>3. AllLevel(f) => AllLevel(g) /\ g.m["z"] = f.m["z"]
    BY <2>1, <2>2 DEF AllLevel
  <2>4. Zeroed(f) => Zeroed(g)
    BY <2>1, <2>2 DEF Zeroed
  <2>5. AtContact(f) => AtContact(g)
    <3>1. SUFFICES ASSUME AtContact(f) PROVE AtContact(g)
      OBVIOUS
    <3>2. g.m["z"] = Surface
      BY <2>2, <3>1 DEF AtContact
    <3>3. n # 1 => g.w["z"] = f.w["z"]
      <4>1. n # 1 => 1 < n
        BY <2>1
      <4> QED BY <2>2, <3>1, <4>1 DEF AtContact, n
    <3>4. ASSUME NEW i \in DOMAIN g.motion
          PROVE  /\ g.motion[i].m["z"] = Surface /\ g.motion[i].w["z"] \in {0, g.w["z"]}
                 /\ i < Len(g.motion) => g.motion[i].w["z"] = g.w["z"]
      <4>1. n # 1 /\ i + 1 \in DOMAIN f.motion /\ g.motion[i] = f.motion[i + 1]
        BY <2>1
      <4>2. i < Len(g.motion) => i + 1 < n
        BY <2>1
      <4> QED BY <3>1, <3>3, <4>1, <4>2 DEF AtContact, n
    <3> QED BY <3>2, <3>4 DEF AtContact
  <2>6. ASSUME NEW by, LastProbes(f, by) PROVE AllLevel(g) \/ LastProbes(g, by)
    <3>1. CASE n = 1
      BY <2>1, <3>1 DEF AllLevel
    <3>2. CASE n # 1
      <4>1. n - 1 \in DOMAIN g.motion /\ (n - 1) + 1 = n
        BY <2>1, <3>2
      <4>2. g.motion[n - 1] = f.motion[n] /\ g.motion # <<>>
        BY <2>1, <4>1
      <4> QED BY <2>1, <2>6, <4>2 DEF LastProbes, n
    <3> QED BY <3>1, <3>2
  <2> QED BY <2>3, <2>4, <2>5, <2>6
<1>4. CASE Started(f, g)
  BY <1>4 DEF Started, AllLevel, Zeroed, AtContact, LastProbes
<1> QED BY <1>1, <1>2, <1>3, <1>4 DEF Drifts

LEMMA DriftKnows ==
    ASSUME NEW bys, NEW f \in Machines(bys), NEW g, Drifts(f, g), NEW by, NEW o, NEW p,
           p.req = o.req, p.pc = o.pc, p.contact = o.contact, Knows(o, f, by)
    PROVE  Knows(p, g, by)
  BY DriftLevel DEF Knows

\* The lines of the method that change what is known.
LEMMA ProbeTaken ==
    ASSUME NEW bys, NEW f \in Machines(bys), NEW by \in bys, NEW line \in Lines, line.c = "G38",
           Here.alarmLock \in BOOLEAN, Here.unlockClears \in BOOLEAN, Here.vacuum \in BOOLEAN,
           NEW g, g = Taken(f, line, by), ~Rejected(f, line)
    PROVE  LastProbes(g, by)
<1>1. g = applyProbeMove(f, line.v, by) /\ line.v \in Int
  BY TakenIs DEF Lines
<1>2. PICK seg \in MovesBy({by}) : seg.kind = "probe" /\ Joins(f, g, seg)
  BY <1>1, ProbeMoveIs
<1>3. seg.by = by
  BY DEF MovesBy
<1> QED BY <1>2, <1>3, JoinedIs DEF LastProbes

LEMMA ContactTaken ==
    ASSUME NEW bys, NEW f \in Machines(bys), NEW by \in bys, NEW line \in Lines, line.c = "G10L20Z",
           Here.alarmLock \in BOOLEAN, Here.unlockClears \in BOOLEAN, Here.vacuum \in BOOLEAN,
           NEW g, g = Taken(f, line, by), ~Rejected(f, line), AllLevel(f), f.m["z"] = Surface
    PROVE  AtContact(g)
<1>1. g = applyWorkPosition(f)
  BY TakenIs
<1>2. CASE f.motion = <<>>
  <2>1. g.motion = <<>> /\ g.m = f.m
    BY <1>1, <1>2, PositionIs
  <2> QED BY <2>1 DEF AtContact
<1>3. CASE f.motion # <<>>
  <2> DEFINE n == Len(f.motion)
             q == [f.motion EXCEPT ![n].w["z"] = 0]
  <2>1. f.motion \in Seq(MovesBy(bys))
    BY DEF Machines
  <2>2. n \in Nat /\ DOMAIN f.motion = 1..n
    BY <2>1
  <2>3. g.m = f.m /\ g.w = f.w /\ g.motion = q
    BY <1>1, <1>3, PositionIs
  <2>4. DOMAIN q = DOMAIN f.motion
    OBVIOUS
  <2>5. Len(q) = n
    <3> DEFINE e == [f.motion[n] EXCEPT !.w["z"] = 0]
               S == MovesBy(bys) \cup {e}
    <3>1. q = [f.motion EXCEPT ![n] = e]
      OBVIOUS
    <3>2. f.motion \in [1..n -> MovesBy(bys)]
      BY <2>1, <2>2
    <3>3. MovesBy(bys) \subseteq S /\ e \in S
      OBVIOUS
    <3> HIDE DEF n, e, q, S
    <3>4. q \in [1..n -> S]
      BY <3>1, <3>2, <3>3
    <3> QED BY <2>2, <3>4
  <2> HIDE DEF n
  <2>6. \A i \in DOMAIN f.motion : q[i] = IF i = n THEN [f.motion[i] EXCEPT !.w["z"] = 0] ELSE f.motion[i]
    OBVIOUS
  <2>7. \A i \in DOMAIN f.motion : f.motion[i] \in MovesBy(bys)
    BY <2>1
  <2> HIDE DEF q
  <2>10. ASSUME NEW r \in MovesBy(bys)
         PROVE  [r EXCEPT !.w["z"] = 0].m = r.m /\ [r EXCEPT !.w["z"] = 0].w["z"] = 0
    BY DEF MovesBy, Points, Axes
  <2>8. \A i \in DOMAIN f.motion : /\ q[i].m = f.motion[i].m
                                   /\ i # n => q[i].w = f.motion[i].w
                                   /\ i = n => q[i].w["z"] = 0
    BY <2>6, <2>7, <2>10
  <2>9. \A i \in DOMAIN f.motion : i < n => i # n
    BY <2>2
  <2> QED BY <2>3, <2>4, <2>5, <2>8, <2>9 DEF AtContact, AllLevel
<1> QED BY <1>2, <1>3

LEMMA RetractTaken ==
    ASSUME NEW bys, NEW f \in Machines(bys), NEW by \in bys, NEW line \in Lines, line.c = "G53Z",
           NEW g, g = Taken(f, line, by), ~Rejected(f, line), Zeroed(f)
    PROVE  Zeroed(g)
<1>1. PICK d \in Int, seg \in MovesBy({by}) : Shifts(End(f), seg, "z", d) /\ (Still(f, g) \/ Joins(f, g, seg))
  BY MoveTaken
<1>2. CASE Still(f, g)
  BY <1>2 DEF Still, Zeroed
<1>3. CASE Joins(f, g, seg)
  <2> DEFINE e == End(f)
  <2>1. e.m["z"] - e.w["z"] = Surface
    <3>1. f.motion \in Seq(MovesBy(bys))
      BY DEF Machines
    <3>2. f.motion # <<>> => Len(f.motion) \in DOMAIN f.motion
      BY <3>1
    <3> QED BY <3>2, EndIs DEF Zeroed
  <2>2. e.m["z"] \in Int /\ e.w["z"] \in Int
    BY EndTyped DEF Points, Axes
  <2>3. seg.m["z"] = e.m["z"] + d /\ seg.w["z"] = e.w["z"] + d
    BY <1>1 DEF Shifts
  <2> HIDE DEF e
  <2>4. seg.m["z"] - seg.w["z"] = Surface
    BY <2>1, <2>2, <2>3
  <2>5. \A i \in DOMAIN g.motion : i \in DOMAIN f.motion \/ i = Len(f.motion) + 1
    BY <1>3, JoinedIs
  <2> QED BY <1>3, <2>4, <2>5, JoinedIs DEF Zeroed, Joins
<1> QED BY <1>1, <1>2, <1>3

LEMMA GoesKnows ==
    ASSUME BaseInv, ZeroInv, NEW c \in Clients, ops[c] # None, Goes(c)
    PROVE  Knows(ops'[c], fw', <<c, calls[c]>>)
<1> DEFINE o == ops[c]
           p == ops'[c]
           ins == At(c)
           by == <<c, calls[c]>>
<1>1. /\ fw \in Machines(Bys) /\ Here.alarmLock \in BOOLEAN /\ Here.unlockClears \in BOOLEAN
      /\ Here.vacuum \in BOOLEAN
  BY BaseParts, SceneTyped DEF WorldInv
<1>2. /\ o \in Operations /\ o.pc \in DOMAIN Script(o) /\ ins = Script(o)[o.pc]
      /\ ins.i = "send" => ins.line \in Lines
  <2>1. OpsInv
    BY BaseParts
  <2>2. Shape(o)
    BY <2>1, AtIs
  <2>3. ins.i = "send" => ins.line \in Lines
    BY <2>1, <2>2, AtIs DEF Shape
  <2> QED BY <2>1, <2>3, AtIs
<1>3. p.req = o.req /\ p.pc = o.pc + 1 /\ o.pc \in Nat
  BY <1>2 DEF Goes, Operations
<1>4. Advances(c, ins, o, p)
  BY DEF Goes
<1>5. Knows(o, fw, by)
  BY DEF ZeroInv
<1>6. by \in Bys
  BY DEF BaseInv, TypeOK, Bys
<1>7. \A i \in DOMAIN fw.motion : fw.motion[i].by = by /\ fw.motion[i].kind = "probe" => Probing(c)
  BY DEF Probing
<1>7a. fw.motion # <<>> => Len(fw.motion) \in DOMAIN fw.motion
  BY <1>1 DEF Machines
<1> HIDE DEF o, p, ins, by
<1>8. ASSUME ins.i = "send"
      PROVE  ~Rejected(fw, ins.line) /\ fw' = Taken(fw, ins.line, by) /\ p.contact = o.contact
  BY <1>4, <1>8 DEF Advances, Refused, by
<1>9. ins.i # "contact" => p.contact = o.contact
  BY <1>4 DEF Advances, Kept
<1>10. ins.i \notin {"send", "contact"} => Seen(fw, fw')
  BY <1>4 DEF Advances, Seen
<1>11. Seen(fw, fw') => Drifts(fw, fw')
  BY SeenIs DEF Drifts
<1>12. SUFFICES ASSUME o.req.op = "zero" PROVE Knows(p, fw', by)
  BY <1>3 DEF Knows, p, by
<1>13. CASE o.pc = 1 \/ o.pc = 2 \/ o.pc = 3
  BY <1>3, <1>13 DEF Knows
<1>14. CASE o.pc = 4
  <2>1. ins.i = "send" /\ ins.line = Line("G38", 4)
    BY <1>2, <1>12, <1>14, ZeroLines
  <2>2. ins.line.c = "G38"
    BY <2>1 DEF Line
  <2>3. LastProbes(fw', by)
    BY <1>1, <1>2, <1>6, <1>8, <2>1, <2>2, ProbeTaken
  <2> QED BY <1>3, <1>14, <2>3 DEF Knows
<1>15. CASE o.pc = 5
  <2>1. ins.i = "contact"
    BY <1>2, <1>12, <1>15, ZeroLines
  <2>2. ~Probing(c) /\ fw' = fw /\ p.contact = fw.m["z"]
    BY <1>4, <2>1 DEF Advances
  <2>3. AllLevel(fw)
    BY <1>5, <1>7, <1>7a, <1>12, <1>15, <2>2 DEF Knows, LastProbes
  <2> QED BY <1>3, <1>15, <2>2, <2>3 DEF Knows
<1>16. CASE o.pc = 6
  <2>1. ins.i = "check" /\ (ins.ok => o.contact = Surface)
    BY <1>2, <1>12, <1>16, ZeroLines
  <2>2. ins.ok /\ fw' = fw /\ p.contact = o.contact
    BY <1>4, <2>1 DEF Advances, Kept
  <2> QED BY <1>3, <1>5, <1>12, <1>16, <2>1, <2>2 DEF Knows
<1>17. CASE o.pc = 7
  <2>1. ins.i = "send" /\ ins.line = Line("G10L20Z", 0)
    BY <1>2, <1>12, <1>17, ZeroLines
  <2>2. ins.line.c = "G10L20Z"
    BY <2>1 DEF Line
  <2>3. AllLevel(fw) /\ fw.m["z"] = Surface /\ o.contact = Surface
    BY <1>5, <1>12, <1>17 DEF Knows
  <2>4. AtContact(fw')
    BY <1>1, <1>2, <1>6, <1>8, <2>1, <2>2, <2>3, ContactTaken
  <2> QED BY <1>3, <1>8, <1>17, <2>1, <2>3, <2>4 DEF Knows
<1>18. CASE o.pc = 8
  <2>1. ins.i = "query" /\ (Matches(Reported, ins.want) => Reported.wz = 0)
    BY <1>2, <1>12, <1>18, ZeroLines
  <2>2. fw' = statusAt(fw) /\ Matches(Reported, ins.want) /\ p.contact = o.contact
    BY <1>4, <2>1 DEF Advances, Kept
  <2>3. fw.w["z"] = 0
    BY <2>1, <2>2 DEF Reported, Status
  <2>4. AtContact(fw) /\ o.contact = Surface
    BY <1>5, <1>12, <1>18 DEF Knows
  <2>5. Surface \in Int
    BY FirmwareAssumption
  <2>6. Zeroed(fw)
    BY <2>3, <2>4, <2>5 DEF AtContact, Zeroed
  <2>7. Zeroed(fw')
    BY <1>1, <1>11, <2>2, <2>6, DriftLevel DEF Seen
  <2> QED BY <1>3, <1>18, <2>2, <2>4, <2>7 DEF Knows
<1>19. CASE o.pc = 9
  <2>1. ins.i = "send" /\ ins.line = Line("G53Z", Retract(o))
    BY <1>2, <1>12, <1>19, ZeroLines
  <2>2. ins.line.c = "G53Z"
    BY <2>1 DEF Line
  <2>3. Zeroed(fw) /\ o.contact = Surface
    BY <1>5, <1>12, <1>19 DEF Knows
  <2>4. Zeroed(fw')
    BY <1>1, <1>2, <1>6, <1>8, <2>1, <2>2, <2>3, RetractTaken
  <2> QED BY <1>3, <1>8, <1>19, <2>1, <2>3, <2>4 DEF Knows
<1>20. CASE o.pc >= 10
  <2>1. ins.i \in {"refresh", "await", "check", "unlock"}
    BY <1>2, <1>12, <1>20, ZeroLines
  <2>2. Zeroed(fw) /\ o.contact = Surface
    BY <1>3, <1>5, <1>12, <1>20 DEF Knows
  <2>3. Zeroed(fw')
    BY <1>1, <1>10, <1>11, <2>1, <2>2, DriftLevel
  <2> QED BY <1>3, <1>9, <1>20, <2>1, <2>2, <2>3 DEF Knows
<1> QED BY <1>2, <1>12, <1>13, <1>14, <1>15, <1>16, <1>17, <1>18, <1>19, <1>20, ZeroLines

LEMMA StillKnows ==
    ASSUME BaseInv, NEW o, NEW by, Seen(fw, fw'), Knows(o, fw, by)
    PROVE  Knows(o, fw', by)
<1>1. fw \in Machines(Bys)
  BY BaseParts DEF WorldInv
<1> QED BY <1>1, SeenIs, DriftKnows DEF Drifts

LEMMA KnowsInside ==
    ASSUME NEW o \in Operations, ~Inside(o), NEW f, NEW by
    PROVE  Knows(o, f, by)
<1>1. o.pc \in Nat
  BY DEF Operations
<1>2. o.req.op = "zero" => ~(o.pc > 1)
  BY DEF Inside, InsideAt, Entry
<1> QED BY <1>1, <1>2 DEF Knows

LEMMA ZeroKept == ASSUME BaseInv, ZeroInv, [Next]_vars PROVE ZeroInv'
<1>0. fw \in Machines(Bys)
  BY BaseParts DEF WorldInv
<1>1. ASSUME NEW d \in Clients, Acts(d), NEW c \in Clients, ops'[c] # None
      PROVE  Knows(ops'[c], fw', <<c, calls'[c]>>)
  <2>1. CASE c # d
    <3>1. ops'[c] = ops[c] /\ calls'[c] = calls[c]
      BY <1>1, <2>1, OthersKept
    <3>2. /\ Knows(ops[c], fw, <<c, calls[c]>>) /\ ops[c] \in Operations
          /\ Inside(ops[c]) => lock = c
      BY <1>1, <3>1 DEF ZeroInv, BaseInv, TypeOK, LockInv
    <3>3. lock = c => fw' = fw
      BY <1>1, <2>1, OthersQuiet
    <3> QED BY <3>1, <3>2, <3>3, KnowsInside
  <2>2. CASE c = d /\ ops[c] = None
    BY <1>1, <2>2, BeginIs DEF Acts, Step, Wait, Knows
  <2>3. CASE c = d /\ ops[c] # None /\ Stays(c)
    BY <2>3, StillKnows DEF Stays, ZeroInv
  <2>4. CASE c = d /\ ops[c] # None /\ Goes(c)
    BY <2>4, GoesKnows DEF Goes
  <2> QED BY <1>1, <2>1, <2>2, <2>3, <2>4, Outcome DEF Over
<1>2. ASSUME World \/ UNCHANGED vars, NEW c \in Clients, ops'[c] # None
      PROVE  Knows(ops'[c], fw', <<c, calls'[c]>>)
  <2>1. /\ ops[c] # None /\ ops'[c].req = ops[c].req /\ ops'[c].pc = ops[c].pc
        /\ ops'[c].contact = ops[c].contact
    BY <1>2, WorldKeepsOps
  <2>2. Knows(ops[c], fw, <<c, calls[c]>>)
    BY <2>1 DEF ZeroInv
  <2>3. Drifts(fw, fw') /\ calls' = calls
    BY <1>2, WorldIs
  <2> QED BY <1>0, <2>1, <2>2, <2>3, DriftKnows
<1>3. \A c \in Clients : ops'[c] # None => Knows(ops'[c], fw', <<c, calls'[c]>>)
  BY <1>1, <1>2, NextSplit
<1> QED BY <1>3 DEF ZeroInv, Knows, AllLevel, LastProbes, AtContact, Zeroed

\* Whoever says so has set the origin where it was touched.
LEMMA SaysZero ==
    ASSUME BaseInv, ZeroInv, [Next]_vars, NEW c \in Clients,
           done'[c] # done[c], done'[c].ok, done'[c].req.op = "zero"
    PROVE  LET e == End(fw) IN e.m["z"] - e.w["z"] = done'[c].contact /\ done'[c].contact = Surface
<1>1. PICK d \in Clients : Acts(d)
  BY NextSplit, WorldIs
<1>2. d = c
  BY <1>1, OthersKept
<1>3. ops[c] # None /\ ~Goes(c) /\ ~Stays(c)
  BY BeginIs, <1>1, <1>2 DEF Acts, Step, Wait, Goes, Stays
<1>4. Over(c)
  BY <1>1, <1>2, <1>3, Outcome
<1> DEFINE o == ops[c]
<1>5. done'[c].req = o.req /\ o.pc = Len(Script(o)) /\ done'[c].contact = o.contact
  BY <1>4 DEF Over
<1>6. o \in Operations /\ o.pc \in DOMAIN Script(o)
  BY <1>3, BaseParts, AtIs
<1>7. o.pc >= 11 /\ o.req.op = "zero" /\ o.pc \in Nat
  BY <1>5, <1>6, ZeroLines DEF Operations
<1>8. Zeroed(fw) /\ o.contact = Surface
  <2>1. Knows(o, fw, <<c, calls[c]>>)
    BY <1>3 DEF ZeroInv
  <2> HIDE DEF o
  <2>2. o.pc >= 7 /\ o.pc >= 9
    BY <1>7
  <2> QED BY <1>7, <2>1, <2>2 DEF Knows
<1>9. fw \in Machines(Bys)
  BY BaseParts DEF WorldInv
<1>10. End(fw).m["z"] - End(fw).w["z"] = Surface
  <2>1. fw.motion \in Seq(MovesBy(Bys))
    BY <1>9 DEF Machines
  <2>2. fw.motion # <<>> => Len(fw.motion) \in DOMAIN fw.motion
    BY <2>1
  <2> QED BY <1>8, <2>2, EndIs DEF Zeroed
<1> QED BY <1>5, <1>8, <1>10

\* What ProbeZ, TraceOutline, AutoZProbe and ProbeFloor report is so: when they
\* return success their own moves are done, and work Z zero is at the contact --
\* whatever was lost, held, halted or played while they ran.
THEOREM SuccessesAreTrue == Spec => SuccessIsTrue
<1>1. Init => BaseInv /\ RestInv /\ ZeroInv
  <2>1. ASSUME Init PROVE ZeroInv
    BY <2>1 DEF Init, ZeroInv
  <2> QED BY <2>1, InitBase, InitRest
<1>2. BaseInv /\ RestInv /\ ZeroInv /\ [Next]_vars => BaseInv' /\ RestInv' /\ ZeroInv'
  BY NextKeepsBase, RestKept, ZeroKept
<1>3. BaseInv /\ RestInv => OwnMotionDone
  BY RestsDone
<1>4. BaseInv /\ ZeroInv /\ [Next]_vars =>
        [\A c \in Clients :
           (done'[c] # done[c] /\ done'[c].ok /\ done'[c].req.op = "zero") =>
           LET e == End(fw) IN e.m["z"] - e.w["z"] = done'[c].contact /\ done'[c].contact = Surface]_vars
  BY SaysZero
<1> QED BY <1>1, <1>2, <1>3, <1>4, PTL DEF Spec, SuccessIsTrue, WorkZeroIsContact
=============================================================================
