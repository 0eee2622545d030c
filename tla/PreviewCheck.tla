---------------------------- MODULE PreviewCheck ----------------------------
(***************************************************************************)
(* A program is previewed (loading the file) and executed by the simulated  *)
(* machine, line by line, from the same text: what the preview shows must   *)
(* be what the machine does.  A program is written in one dialect: a set of *)
(* lines and the positions the machine may be in when it starts.            *)
(***************************************************************************)
EXTENDS FakeMotion

CONSTANTS
    Dialects,     \* set of [lines, starts]
    Queued,       \* the machine plays the file, without waiting for each line
    MaxLines      \* bound: length of a program

ASSUME LinesAssumption == MaxLines \in Nat /\ Queued \in BOOLEAN

VARIABLES
    dialect,      \* the dialect of this program
    par,          \* the preview parser
    mach,         \* the machine
    count         \* lines so far

vars == <<dialect, par, mach, count>>

Init ==
    /\ dialect \in Dialects
    /\ par = NewParser
    /\ \E start \in dialect.starts : mach = NewMachine(start)
    /\ count = 0

\* What programs do: a line without a motion code relies on an earlier one,
\* and cycles run between G98 or G99 and G80.
WellFormed(line) ==
    /\ HasAny(line, Axes) /\ ~HasCode(line, Moves \cup Cycles \cup {"G92"})
         => par.motion # "none"
    /\ HasCode(line, Cycles) => par.started \/ HasCode(line, {"G98", "G99"})
    /\ HasCode(line, {"G98", "G99"}) => ~par.started

\* parseGcodePreviewWithFeed and startProgramLocked take the next line
NextLine(line) ==
    /\ count < MaxLines
    /\ WellFormed(line)
    /\ par' = ParseLine(par, line)
    /\ mach' = ApplyLine(IF Queued THEN mach ELSE Settle(mach), line)
    /\ count' = count + 1
    /\ UNCHANGED dialect

Next == \E line \in dialect.lines : NextLine(line)

Spec == Init /\ [][Next]_vars

-----------------------------------------------------------------------------
(***************************************************************************)
(* TypeOK: parser and machine keep the types of their fields.               *)
(***************************************************************************)
TypeOK ==
    /\ dialect \in Dialects
    /\ par \in Parsers
    /\ mach \in Machines
    /\ count \in 0 .. MaxLines

\* The rotary axis is plotted the other way round.
Seen(pos) == [pos EXCEPT !["A"] = -@]

\* Once the file has commanded a linear axis (markAxesKnown), the parser's
\* idea of it is the machine's work position, wherever the machine was when
\* the program started and whatever modes, units, offsets and cycles followed.
AnchoredAxesAgree == \A a \in par.known : par.pos[a] = Seen(mach.w)[a]

\* addLinearMove skips a lead-in "that would plot a fabricated streak": a
\* rapid that is plotted is a move of the machine, with both its ends.
NoFabricatedRapid ==
    \A i \in DOMAIN par.segs :
        par.segs[i].kind = "rapid" =>
            \E j \in DOMAIN mach.path :
                /\ Seen(mach.path[j].from) = par.segs[i].from
                /\ Seen(mach.path[j].to) = par.segs[i].to

\* ParseGcodePreview gives "a complete segment list": a line read with all
\* axes known shows every move the machine makes, in order, and no other.
CompleteOnceAnchored ==
    [][par.known = Linear =>
         [i \in DOMAIN par'.segs |-> <<par'.segs[i].from, par'.segs[i].to>>]
           = [i \in DOMAIN mach'.path |-> <<Seen(mach'.path[i].from), Seen(mach'.path[i].to)>>]
      ]_vars

\* The preview shows what the machine does: positions that agree, no rapid
\* that is not made, and no move left out once the axes are known
\* (parseGcodePreview).
PreviewIsTrue == [](AnchoredAxesAgree /\ NoFabricatedRapid) /\ CompleteOnceAnchored

=============================================================================
