---------------------------- MODULE GcodePreview ----------------------------
(***************************************************************************)
(* The G-code preview (previewParser in internal/service/active_gcode.go):  *)
(* a pass over the lines of a program that keeps the modal state of the     *)
(* controller and plots what the machine will do.  A line is                *)
(*     [g |-> its G codes in order, w |-> its other words]                  *)
(* where w is a record whose fields are the letters present, and the G      *)
(* codes precede the words they govern.  The Y axis behaves as X and is     *)
(* left out; an arc is one segment to its end point; an inch is Inch units. *)
(***************************************************************************)
EXTENDS Integers, Sequences, SequencesExt

CONSTANT Inch       \* 25.4, as an integer other than 1

ASSUME InchAssumption == Inch \in Nat \ {0, 1}

Axes == {"X", "Z", "A"}
Linear == {"X", "Z"}
Position == [Axes -> Int]
Origin == [a \in Axes |-> 0]
Moves == {"G0", "G1", "G2", "G3"}
Cycles == {"G81", "G82", "G83"}

Segments == [kind : {"rapid", "cut", "arc", "probe"}, from : Position, to : Position]

\* previewParser, as far as it decides what is plotted.
Parsers == [unit : {1, Inch}, absolute : BOOLEAN, motion : Moves \cup {"none"},
            pos : Position, known : SUBSET Linear,
            started : BOOLEAN, toInitial : BOOLEAN, initialZ : Int,
            z : Int, r : Int, q : Int, segs : Seq(Segments)]

NewParser == [unit |-> 1, absolute |-> TRUE, motion |-> "none", pos |-> Origin,
              known |-> {}, started |-> FALSE, toInitial |-> FALSE, initialZ |-> 0,
              z |-> 0, r |-> 0, q |-> 0, segs |-> <<>>]

Has(line, letter) == letter \in DOMAIN line.w
HasAny(line, letters) == \E l \in letters : Has(line, l)
HasCode(line, codes) == \E i \in DOMAIN line.g : line.g[i] \in codes
LastOf(line, codes) ==
    LET at == SelectLastInSeq(line.g, LAMBDA c : c \in codes)
    IN  IF at = 0 THEN "none" ELSE line.g[at]

-----------------------------------------------------------------------------
\* addLinearMove: nothing for no distance, and no rapid from a position the
\* file has not established; p.pos moves in any case.
AddMove(p, kind, target) ==
    LET plotted == p.pos # target /\ (kind # "rapid" \/ p.known = Linear)
        seg == [kind |-> kind, from |-> p.pos, to |-> target]
    IN  [p EXCEPT !.segs = IF plotted THEN Append(@, seg) ELSE @, !.pos = target]

\* addArcMove: with a centre an arc that ends where it starts is a full circle;
\* without one it is plotted as a line.
AddArc(p, line, target) ==
    IF Has(line, "I") /\ p.pos = target
    THEN [p EXCEPT !.segs = Append(@, [kind |-> "arc", from |-> target, to |-> target])]
    ELSE AddMove(p, "arc", target)

MarkAxesKnown(p, line) ==
    [p EXCEPT !.known = @ \cup {a \in Linear : Has(line, a)}]

\* The value of a word: linear words in the current unit, A reversed.
Value(p, line, l) == IF l = "A" THEN -line.w[l] ELSE line.w[l] * p.unit

TargetFromValues(p, line) ==
    [a \in Axes |->
        IF ~Has(line, a) THEN p.pos[a]
        ELSE IF p.absolute THEN Value(p, line, a) ELSE p.pos[a] + Value(p, line, a)]

\* G92, with axes or alone
SetPosition(p, line) ==
    IF DOMAIN line.w = {}
    THEN [p EXCEPT !.pos = Origin, !.known = Linear]
    ELSE [MarkAxesKnown(p, line) EXCEPT
             !.pos = [a \in Axes |-> IF Has(line, a) THEN Value(p, line, a) ELSE p.pos[a]]]

StartCycle(p, toInitial) ==
    [p EXCEPT !.started = TRUE, !.toInitial = toInitial, !.initialZ = p.pos["Z"],
              !.z = 0, !.r = 0, !.q = 0]

\* G80: from the R plane the tool goes back to where the cycle started.
EndCycle(p) ==
    LET up == [p.pos EXCEPT !["Z"] = p.initialZ] IN
    [(IF p.started /\ ~p.toInitial THEN AddMove(p, "rapid", up) ELSE p)
        EXCEPT !.started = FALSE]

UpdateCycleSticky(p, line) ==
    LET new(l, old) == IF Has(line, l) THEN Value(p, line, l) ELSE old IN
    [p EXCEPT !.z = new("Z", @), !.r = new("R", @), !.q = new("Q", @)]

\* The depths of a peck cycle, before the last one.
Pecks(r, q, z) ==
    [i \in 1 .. Cardinality({n \in 1 .. (r - z) : r - n * q > z}) |-> r - i * q]

MoveZ(p, kind, z) == AddMove(p, kind, [p.pos EXCEPT !["Z"] = z])

\* Mutant: the drill stays in the hole between two pecks.
RunPeckCycleDown(p) ==
    MoveZ(FoldLeft(LAMBDA s, z : MoveZ(s, "cut", z), p, Pecks(p.r, p.q, p.z)), "cut", p.z)

RunPeckCycle(p) ==
    LET peck(s, z) == MoveZ(MoveZ(s, "cut", z), "rapid", s.r)
    IN  MoveZ(FoldLeft(peck, p, Pecks(p.r, p.q, p.z)), "cut", p.z)

\* G81, G82, G83: over the hole, to the R plane, down, and back.
RunCycle(p, code, line) ==
    IF ~p.started \/ ~p.absolute THEN p
    ELSE LET s == UpdateCycleSticky(p, line)
             x == IF Has(line, "X") THEN Value(p, line, "X") ELSE p.pos["X"]
             over == AddMove(s, "rapid", [s.pos EXCEPT !["X"] = x])
             anchored == [MarkAxesKnown(over, line) EXCEPT !.known = @ \cup {"Z"}]
             ready == MoveZ(anchored, "rapid", anchored.r)
             down == IF code = "G83" /\ s.q > 0 THEN RunPeckCycle(ready)
                                                ELSE MoveZ(ready, "cut", s.z)
         IN  MoveZ(down, "rapid", IF s.toInitial THEN s.initialZ ELSE s.r)

\* The switch over the G codes of a line: each changes the modal state at once.
ScanCode(p, code) ==
    CASE code \in Moves -> [p EXCEPT !.motion = code]
      [] code = "G20" -> [p EXCEPT !.unit = Inch]
      [] code = "G21" -> [p EXCEPT !.unit = 1]
      [] code = "G80" -> EndCycle(p)
      [] code = "G90" -> [p EXCEPT !.absolute = TRUE]
      [] code = "G91" -> [p EXCEPT !.absolute = FALSE]
      [] code = "G98" -> StartCycle(p, TRUE)
      [] code = "G99" -> StartCycle(p, FALSE)
      [] OTHER -> p

\* The move of a line, in the motion mode of the line or else the modal one.
ParseMotion(p, line, motion) ==
    LET target == TargetFromValues(p, line)
        moved == CASE motion = "G0" -> AddMove(p, "rapid", target)
                   [] motion = "G1" -> AddMove(p, "cut", target)
                   [] motion = "G38.2" -> AddMove(p, "probe", target)
                   [] OTHER -> AddArc(p, line, target)
    IN  MarkAxesKnown(moved, line)

\* parseLine
ParseLine(p0, line) ==
    LET p == FoldLeft(ScanCode, [p0 EXCEPT !.segs = <<>>], line.g)
        cycle == LastOf(line, Cycles)
        own == LastOf(line, Moves \cup {"G38.2"})
        motion == IF own = "none" THEN p.motion ELSE own
        moves == \/ HasAny(line, Axes)
                 \/ motion \in {"G2", "G3"} /\ HasAny(line, {"I", "R"})
    IN  IF HasCode(line, {"G92"}) THEN SetPosition(p, line)
        ELSE IF cycle # "none" THEN RunCycle(p, cycle, line)
        ELSE IF motion # "none" /\ moves THEN ParseMotion(p, line, motion)
        ELSE p

=============================================================================
