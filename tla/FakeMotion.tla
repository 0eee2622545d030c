----------------------------- MODULE FakeMotion -----------------------------
(***************************************************************************)
(* How the simulated machine (internal/carveratest/fakemachine.go) executes *)
(* a line of G-code: modal state, canned cycles, work offsets, and the      *)
(* queue of motion segments.  Lines are those of GcodePreview, without      *)
(* the probing moves, whose end depends on the simulated stock.             *)
(***************************************************************************)
EXTENDS GcodePreview

\* FakeMachine, as far as it decides where the tool goes.  m and w are the
\* machine and work position at the end of the motion queue, shown the machine
\* position of the status report, path the segments the last line appended.
Machines == [unit : {1, Inch}, absolute : BOOLEAN, code : Moves \cup Cycles,
             m : Position, w : Position, shown : Position,
             started : BOOLEAN, toInitial : BOOLEAN, initialZ : Int,
             z : Int, r : Int, q : Int,
             path : Seq([from : Position, to : Position])]

NewMachine(start) ==
    [unit |-> 1, absolute |-> TRUE, code |-> "G0", m |-> start, w |-> start,
     shown |-> start, started |-> FALSE, toInitial |-> FALSE, initialZ |-> 0,
     z |-> 0, r |-> 0, q |-> 0, path |-> <<>>]

\* appendMotionLocked: a segment to work position target; without distance
\* there is nothing to wait for.
AppendMotion(k, target) ==
    [k EXCEPT !.m = [a \in Axes |-> k.m[a] + target[a] - k.w[a]],
              !.w = target,
              !.path = IF target = k.w THEN @ ELSE Append(@, [from |-> k.w, to |-> target])]

\* advanceMotionLocked, once every queued segment has ended
Settle(k) == [k EXCEPT !.shown = k.m]

\* fakeWordValues
FakeValue(k, line, l) == line.w[l] * k.unit

\* applyAbsoluteMoveLocked, in work coordinates
ApplyAbsoluteMove(k, targets) == AppendMotion(k, [a \in Axes |->
    IF a \in DOMAIN targets THEN targets[a] ELSE k.w[a]])

\* applyRelativeMoveLocked
ApplyRelativeMove(k, line) == AppendMotion(k, [a \in Axes |->
    IF Has(line, a) THEN k.w[a] + FakeValue(k, line, a) ELSE k.w[a]])

\* applyArcMoveLocked: the rotary axis takes no part; a full circle is a
\* segment that returns to its start.
ApplyArcMove(k, line) ==
    LET target == [a \in Axes |->
            IF ~Has(line, a) \/ a = "A" THEN k.w[a]
            ELSE IF k.absolute THEN FakeValue(k, line, a)
                 ELSE k.w[a] + FakeValue(k, line, a)]
        circle == [from |-> k.w, to |-> k.w]
    IN  IF Has(line, "I") /\ target = k.w THEN [k EXCEPT !.path = Append(@, circle)]
                                          ELSE AppendMotion(k, target)

\* applyWorkPositionLocked: G92 and G10 L20
ApplyWorkPosition(k, line) ==
    [k EXCEPT !.w = [a \in Axes |-> IF Has(line, a) THEN FakeValue(k, line, a) ELSE @[a]]]

\* ensureCycleStartedLocked
EnsureCycleStarted(k) ==
    IF k.started THEN k
    ELSE [k EXCEPT !.started = TRUE, !.toInitial = TRUE, !.initialZ = k.shown["Z"],
                   !.z = k.shown["Z"], !.r = k.shown["Z"], !.q = 0]

\* updateCycleStickyLocked
UpdateFakeSticky(k, line) ==
    LET new(l, old) == IF Has(line, l) THEN FakeValue(k, line, l) ELSE old IN
    [k EXCEPT !.z = new("Z", @), !.r = new("R", @), !.q = new("Q", @)]

GoZ(k, z) == ApplyAbsoluteMove(k, [Z |-> z])

\* applyPeckCycleLocked
ApplyPeckCycle(k) ==
    LET peck(s, z) == GoZ(GoZ(s, z), s.r)
    IN  GoZ(IF k.q > 0 THEN FoldLeft(peck, k, Pecks(k.r, k.q, k.z)) ELSE k, k.z)

\* applyCycleLocked; a hole without an X is drilled at the reported position.
ApplyCycle(k, code, line) ==
    IF ~k.absolute THEN k
    ELSE LET s == UpdateFakeSticky(EnsureCycleStarted(k), line)
             x == IF Has(line, "X") THEN FakeValue(k, line, "X") ELSE k.shown["X"]
             ready == GoZ(ApplyAbsoluteMove(s, [X |-> x]), s.r)
             down == IF code = "G83" THEN ApplyPeckCycle(ready) ELSE GoZ(ready, s.z)
         IN  GoZ(down, IF s.toInitial THEN s.initialZ ELSE s.r)

\* cancelCycleLocked
CancelCycle(k) ==
    [k EXCEPT !.started = FALSE, !.initialZ = 0, !.z = 0, !.r = 0, !.q = 0, !.code = "G0"]

\* The switch over the G codes of a line; the motion code follows from all of
\* them together.
ScanFake(k, code) ==
    CASE code = "G20" -> [k EXCEPT !.unit = Inch]
      [] code = "G21" -> [k EXCEPT !.unit = 1]
      [] code = "G90" -> [k EXCEPT !.absolute = TRUE]
      [] code = "G91" -> [k EXCEPT !.absolute = FALSE]
      [] code \in {"G98", "G99"} ->
            [k EXCEPT !.toInitial = (code = "G98"), !.started = TRUE,
                      !.initialZ = IF k.started THEN @ ELSE k.shown["Z"]]
      [] OTHER -> k

\* m.motionCode after the G codes of a line
MotionCode(k, line) ==
    LET own == LastOf(line, Moves \cup Cycles \cup {"G80"}) IN
    IF HasCode(line, {"G2", "G3"}) THEN LastOf(line, {"G2", "G3"})
    ELSE IF HasCode(line, Cycles) THEN LastOf(line, Cycles)
    ELSE IF own = "G1" THEN "G1"
    ELSE IF own = "G0" THEN "G0"
    ELSE k.code

\* The move of a line that has axes
ApplyMove(k, line) ==
    IF k.absolute
    THEN ApplyAbsoluteMove(k, [a \in Axes \cap DOMAIN line.w |-> FakeValue(k, line, a)])
    ELSE ApplyRelativeMove(k, line)

\* applySimulatedGcodeLocked
ApplyLine(k0, line) ==
    LET s == FoldLeft(ScanFake, [k0 EXCEPT !.path = <<>>], line.g)
        k == [s EXCEPT !.code = MotionCode(s, line)]
        arc == k.code \in {"G2", "G3"} /\ HasAny(line, Axes \cup {"I", "R"})
    IN  IF HasCode(line, {"G4"}) THEN k
        ELSE IF HasCode(line, {"G80"}) THEN CancelCycle(k)
        ELSE IF HasCode(line, {"G92"}) THEN ApplyWorkPosition(k, line)
        ELSE IF k.code \in Cycles /\ (HasCode(line, Cycles) \/ HasAny(line, Axes))
             THEN ApplyCycle(k, k.code, line)
        ELSE IF arc THEN ApplyArcMove(k, line)
        ELSE IF HasAny(line, Axes) THEN ApplyMove(k, line)
        ELSE k

=============================================================================
