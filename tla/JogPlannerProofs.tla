--------------------------- MODULE JogPlannerProofs ---------------------------
(***************************************************************************)
(* Proofs about JogPlanner: segments, steps and targets move the machine    *)
(* inside its limits, from where it will stop and at the safe height, a     *)
(* released stick stops it in time, and a target gets a true verdict, for   *)
(* any durations, limits and faults of the machine.                         *)
(***************************************************************************)
EXTENDS JogPlanner, SequenceTheorems, WellFoundedInduction, TLAPS

-----------------------------------------------------------------------------
(* The invariants.                                                          *)

\* Sticks alone move the machine, and an answer is younger than a segment.
Sticks == ~Here.steps /\ ~Here.targets /\ Here.delay < SegDur

\* Or the machine keeps the pace, reads each line at once and answers at once:
\* then steps and targets may move it too, and whatever moves it the plan is
\* known to be true.
Prompt == ~Here.lags /\ ~Here.slow /\ Here.delay = 0
Tracked == Sticks \/ Prompt

\* A safe Z is given, and nothing but targets moves the machine.
Careful == Here.safe /\ Here.inputs \subseteq {0} /\ ~Here.steps

\* Positions are captured only where sticks alone move a machine that does not
\* refuse and does not stop.
CapturesSettle == Here.captures => Sticks /\ ~Here.refuses /\ ~Here.stops

\* The machine keeps the predicted pace.
Paced == ~Here.lags /\ ~Here.stops /\ ~Here.steps /\ ~Here.targets

Writing == loop.at \in {"write", "sent"}

\* Every move and every line to be moved along takes some time.
QueueTimed == \A i \in DOMAIN mach.queue : mach.queue[i].left \in 1 .. mach.queue[i].dur
WireTimed == \A i \in DOMAIN wire : wire[i].op = "jog" => wire[i].dur > 0

\* What is written next, and what the loop holds when it holds no lease.
LeaseInv ==
    /\ Writing => loop.todo # <<>>
    /\ ~sess.armed => query.at = "none" /\ loop.at = "loop" /\ input = 0
    /\ query.at = "answered" => query.old <= Here.delay
    /\ ~Here.stops => mach.stop = "no"
    /\ ~Here.stops /\ ~Here.refuses => ~mach.refused
    /\ ~Here.steps /\ ~Here.targets =>
         (loop.at # "loop" => loop.kind = "tick") /\ sess.pending = Nothing

\* Who has let go of the machine waits for no answer.
AsksInv == ~sess.armed => \A i \in DOMAIN wire : wire[i].op # "ask"

\* A command that is written without delay adds to the lead of now.
DueInv == loop.kind # "tick" => loop.at # "loop" /\ (Here.slow \/ loop.due = sess.lead)

BaseInv == QueueTimed /\ WireTimed /\ LeaseInv /\ AsksInv /\ DueInv

\* A segment of an old input is followed by one of the input of now.
StaleInv ==
    stale = 0 \/ (stale = 1 /\ (loop.at = "write" /\ loop.kind = "tick" => loop.basis = input))

\* What the machine has still to do is what the session predicts.
Ahead == QueueTime(mach.queue) + WireTime(wire)
PaceInv ==
    Paced =>
      /\ Ahead <= Lookahead + SegDur
      /\ sess.armed => Ahead <= sess.lead + (IF loop.at = "sent" THEN SegDur ELSE 0)
      /\ sess.lead <= Lookahead + SegDur
      /\ Writing => sess.lead < Lookahead
                    /\ moveDuration(axesDelta(loop.plan, Head(loop.todo))) = SegDur

\* Every point that a segment starts from or leads to is inside the limits.
Inside(p) == \A a \in Axes : p[a] \in 0 .. LimitOf(a)
LimitInv ==
    Tracked =>
      /\ Inside(mach.pos) /\ Inside(sess.planned) /\ Inside(sess.st.pos)
      /\ \A i \in DOMAIN mach.queue : Inside(mach.queue[i].to)
      /\ \A i \in DOMAIN wire : wire[i].op = "jog" => Inside(wire[i].to)
      /\ query.at = "answered" => Inside(query.pos)
      /\ loop.at # "loop" => Inside(loop.plan)
      /\ Writing => \A i \in DOMAIN loop.todo : Inside(loop.todo[i])

\* The machine rests at p, and no line will move it.
NoJogs == \A i \in DOMAIN wire : wire[i].op # "jog"
Resting(p) == mach.queue = <<>> /\ mach.pos = p /\ NoJogs

\* What an Idle answer tells about the machine of now: a line written since
\* then still counts in the lead.
IdleInv ==
    Tracked /\ sess.armed =>
      /\ NoJogs \/ sess.lead >= SegDur \/ loop.at = "sent"
      /\ query.at = "answered" /\ query.state = "Idle" =>
           Resting(query.pos) \/ sess.lead + query.old >= SegDur \/ loop.at = "sent"
      /\ sess.after /\ sess.st.state = "Idle" =>
           /\ Resting(sess.st.pos) \/ loop.at = "sent"
           /\ sess.planned = sess.st.pos
      /\ loop.at # "loop" => loop.plan = sess.planned

\* Each line starts where the one before it ends, and the last ends where the
\* session thinks.
LineInv ==
    Tracked /\ ~mach.refused =>
      /\ \A i \in DOMAIN wire : wire[i].op = "jog" =>
           wire[i].d = axesDelta(QueueEnds[i - 1], wire[i].to)
      /\ sess.armed => QueueEnd = Intended
      /\ Sticks /\ ~Here.refuses /\ ~Here.stops /\ captured # Nothing => QueueEnd = captured[1]

\* An origin is read before any line that moves the machine.
OriginInv ==
    Tracked => \A i \in DOMAIN wire : wire[i].op = "origin" =>
      /\ \A j \in 1 .. i - 1 : wire[j].op # "jog"
      /\ mach.queue = <<>> /\ mach.pos = wire[i].seen

\* One query at a time: a command and the last leg of a target wait for it to be
\* answered, and a target waits for its end before anything else moves.
NoAsks == \A i \in DOMAIN wire : wire[i].op # "ask"
QueryInv ==
    /\ loop.at # "loop" /\ loop.kind # "tick" => query.at = "none"
    /\ query.at # "asked" => NoAsks
    /\ \A i, j \in DOMAIN wire : wire[i].op = "ask" /\ wire[j].op = "ask" => i = j
    /\ loop.at = "admit" => loop.kind = "tick"
    /\ sess.pending # Nothing => loop.at = "loop"

\* What the last status was
AfterInv ==
    /\ sess.after => sess.lead = 0
    /\ sess.armed => sess.st.state \in {"Idle", "Run"}

\* What the scene leaves out does not happen.
SceneInv ==
    /\ ~Here.captures => ~capture /\ captured = Nothing
    /\ Careful => input = 0 /\ (loop.at # "loop" => loop.kind = "target")

CommandInv == QueryInv /\ AfterInv /\ SceneInv

\* A machine that keeps the pace has no more to do than is predicted, so it is
\* at rest when the prediction has come to its end.
PromptInv ==
    Prompt =>
      /\ sess.armed /\ mach.stop = "no" =>
           Ahead <= sess.lead + (IF loop.at = "sent"
                                 THEN moveDuration(axesDelta(loop.plan, Head(loop.todo))) ELSE 0)
      /\ sess.armed /\ query.at = "answered" /\ query.state = "Run" =>
           sess.lead > 0 \/ loop.at = "sent"
      /\ sess.after => sess.st.state = "Idle"

\* A leg crosses at the safe Z or above.
Crosses(from, to) ==
    from["x"] # to["x"] => from["z"] >= Min2(SafeZ, ZMax) /\ to["z"] >= Min2(SafeZ, ZMax)

\* On some axis the leg starts away from the point and does not leave it on the
\* way: nowhere before its end is the machine at the point.
Nears(point, from, to) == \E a \in Axes : from[a] # point[a] /\ to[a] \in {from[a], point[a]}

\* The point of the target on the way
Aim == IF sess.pending # Nothing THEN <<sess.pending[1].target>>
       ELSE IF Writing /\ loop.kind = "target" THEN <<loop.todo[Len(loop.todo)]>> ELSE <<>>

Fits(aim, from, to) ==
    /\ Careful => Crosses(from, to)
    /\ aim # <<>> => Nears(aim[1], from, to)

\* Where a move of the machine, a line and a leg still to be written start
MoveFrom(pos, queue, i) == IF i = 1 THEN pos ELSE queue[i - 1].to
LineFrom(l) == [a \in Axes |-> l.to[a] - l.d[a]]
LegFrom(plan, todo, i) == IF i = 1 THEN plan ELSE todo[i - 1]

MovesFit(aim, pos, queue) == \A i \in DOMAIN queue : Fits(aim, MoveFrom(pos, queue, i), queue[i].to)
LinesFit(aim, lines) ==
    \A i \in DOMAIN lines : lines[i].op = "jog" => Fits(aim, LineFrom(lines[i]), lines[i].to)
LegsFit(aim, plan, todo) == \A i \in DOMAIN todo : Fits(aim, LegFrom(plan, todo, i), todo[i])

PathInv ==
    Tracked => /\ MovesFit(Aim, mach.pos, mach.queue)
               /\ LinesFit(Aim, wire)
               /\ Writing => LegsFit(Aim, loop.plan, loop.todo)

\* An answer to a query sent after the last leg tells how the target ended.
PendingInv ==
    Tracked /\ sess.pending # Nothing =>
      /\ \A i \in DOMAIN wire : wire[i].op = "ask" =>
           \A j \in i + 1 .. Len(wire) : wire[j].op # "jog"
      /\ query.at = "answered" =>
           /\ NoJogs
           /\ query.state = "Idle" => Resting(query.pos)
           /\ query.pos = sess.pending[1].target => Resting(query.pos) /\ query.state # "Run"
      /\ sess.after => sess.st.pos # sess.pending[1].target

\* The machine still rests where the verdict says.
VerdictInv ==
    Tracked /\ sess.done # Nothing /\ loop.at # "sent" =>
      /\ Resting(mach.pos)
      /\ sess.done[1].what = "complete" <=> mach.pos = sess.done[1].target

IInv ==
    /\ TypeOK /\ BaseInv /\ StaleInv /\ PaceInv /\ LimitInv /\ IdleInv /\ LineInv /\ OriginInv
    /\ CommandInv /\ PromptInv /\ PathInv /\ PendingInv /\ VerdictInv

-----------------------------------------------------------------------------
(* Recursive definitions.                                                   *)

\* A set of naturals that is not empty has a least member.
LEMMA Least ==
    ASSUME NEW S \in SUBSET Nat, S # {}
    PROVE  \E n \in S : \A k \in S : n <= k
<1>1. PICK n \in S : \A k \in S : <<k, n>> \notin OpToRel(<, Nat)
  BY NatLessThanWellFounded, WFMin
<1>2. \A k \in S : ~(k < n)
  BY <1>1 DEF OpToRel
<1> QED BY <1>2

\* g goes on from base by the steps of F.
Unfolds(g, N, base, F) ==
    g[0] = base /\ \A n \in 1 .. N : g[n] = F[n][g[n - 1]]

LEMMA Unfolding ==
    ASSUME NEW S, NEW base \in S, NEW N \in Nat, NEW F \in [1 .. N -> [S -> S]]
    PROVE  \E g \in [0 .. N -> S] : Unfolds(g, N, base, F)
<1> DEFINE Bad == {m \in Nat : m <= N /\ ~ \E g \in [0 .. m -> S] : Unfolds(g, m, base, F)}
<1>1. Bad = {}
  <2> SUFFICES ASSUME Bad # {} PROVE FALSE
    OBVIOUS
  <2>1. PICK m \in Bad : \A k \in Bad : m <= k
    BY Least
  <2>2. m \in Nat /\ m <= N /\ ~ \E g \in [0 .. m -> S] : Unfolds(g, m, base, F)
    BY <2>1
  <2>3. m # 0
    <3>1. [n \in 0 .. 0 |-> base] \in [0 .. 0 -> S] /\ Unfolds([n \in 0 .. 0 |-> base], 0, base, F)
      BY DEF Unfolds
    <3> QED BY <2>2, <3>1
  <2>4. m - 1 \in Nat /\ m - 1 <= N /\ m - 1 \notin Bad
    BY <2>1, <2>2, <2>3
  <2>5. PICK g \in [0 .. m - 1 -> S] : Unfolds(g, m - 1, base, F)
    BY <2>4
  <2> DEFINE h == [n \in 0 .. m |-> IF n = m THEN F[m][g[m - 1]] ELSE g[n]]
  <2>6. m \in 1 .. N /\ m - 1 \in 0 .. m - 1 /\ F[m] \in [S -> S] /\ g[m - 1] \in S
    BY <2>2, <2>3, <2>5
  <2>7. h \in [0 .. m -> S]
    BY <2>2, <2>5, <2>6
  <2>8. h[0] = base
    BY <2>2, <2>3, <2>5 DEF Unfolds
  <2>9. ASSUME NEW n \in 1 .. m PROVE h[n] = F[n][h[n - 1]]
    <3>1. n - 1 \in 0 .. m - 1 /\ n - 1 \in 0 .. m /\ h[n - 1] = g[n - 1]
      BY <2>2
    <3>2. CASE n = m
      BY <3>1, <3>2
    <3>3. CASE n # m
      BY <2>2, <2>5, <3>1, <3>3 DEF Unfolds
    <3> QED BY <3>2, <3>3
  <2> HIDE DEF h
  <2> QED BY <2>2, <2>7, <2>8, <2>9 DEF Unfolds
<1>2. N \notin Bad
  BY <1>1
<1> QED BY <1>2

LEMMA SceneIs ==
    ASSUME TypeOK
    PROVE  /\ Here.xmax \in Nat \ {0} /\ Here.delay \in Nat /\ Here.acts \in Nat
           /\ Here.inputs \subseteq Inputs
           /\ \A a \in Axes : LimitOf(a) \in Nat
<1>1. scene \in DOMAIN Scenes /\ ZMax \in Nat
  BY TimeAssumption DEF TypeOK
<1>2. Here \in [xmax : Nat \ {0}, absolute : BOOLEAN, inputs : SUBSET Inputs,
               captures : BOOLEAN, steps : BOOLEAN, targets : BOOLEAN, safe : BOOLEAN,
               origins : BOOLEAN, lags : BOOLEAN, slow : BOOLEAN, delay : Nat, acts : Nat,
               refuses : BOOLEAN, stops : BOOLEAN, fails : BOOLEAN]
  <2>1. scene \in 1 .. Len(Scenes)
    BY <1>1, ScenesAssumption, LenProperties
  <2> QED BY <2>1, ScenesAssumption, ElementOfSeq DEF Here
<1>3. Here.xmax \in Nat \ {0} /\ Here.delay \in Nat /\ Here.acts \in Nat /\ Here.inputs \in SUBSET Inputs
  BY <1>2
<1>4. ASSUME NEW a \in Axes PROVE LimitOf(a) \in Nat
  BY <1>1, <1>3 DEF LimitOf
<1> QED BY <1>3, <1>4

LEMMA LineEndTyped ==
    ASSUME NEW p \in Points, NEW l \in JogLines
    PROVE  LineEnd(p, l) \in Points
  BY DEF Points, JogLines, LineEnd

LEMMA EndsAre ==
    ASSUME NEW from \in Points, NEW lines \in Seq(Lines), NEW g \in [0 .. Len(lines) -> Points],
           g[0] = from,
           \A n \in 1 .. Len(lines) :
               g[n] = IF lines[n].op = "jog" THEN LineEnd(g[n - 1], lines[n]) ELSE g[n - 1]
    PROVE  EndsOf(from, lines) = g
<1> DEFINE Good(h) == h = [n \in 0 .. Len(lines) |->
               IF n = 0 THEN from
               ELSE IF lines[n].op = "jog" THEN LineEnd(h[n - 1], lines[n]) ELSE h[n - 1]]
<1>1. Len(lines) \in Nat
  BY LenProperties
<1>2. Good(g)
  <2>1. \A n \in 0 .. Len(lines) : n # 0 => n \in 1 .. Len(lines)
    BY <1>1
  <2> QED BY <2>1
<1>3. EndsOf(from, lines) = CHOOSE h : Good(h)
  BY DEF EndsOf
<1>4. Good(EndsOf(from, lines))
  <2> HIDE DEF Good
  <2> QED BY <1>2, <1>3
<1> DEFINE e == EndsOf(from, lines)
<1> DEFINE Bad == {n \in 0 .. Len(lines) : e[n] # g[n]}
<1>5. \A n \in 0 .. Len(lines) :
        e[n] = IF n = 0 THEN from
               ELSE IF lines[n].op = "jog" THEN LineEnd(e[n - 1], lines[n]) ELSE e[n - 1]
  <2> HIDE DEF e
  <2> QED BY <1>4
<1>6. Bad = {}
  <2> SUFFICES ASSUME Bad # {} PROVE FALSE
    OBVIOUS
  <2>1. Bad \in SUBSET Nat
    BY <1>1
  <2>2. PICK m \in Bad : \A k \in Bad : m <= k
    BY <2>1, Least
  <2> HIDE DEF e
  <2>3. m \in 1 .. Len(lines)
    BY <1>1, <1>5, <2>2
  <2>4. m - 1 \in 0 .. Len(lines) /\ m - 1 \notin Bad
    BY <1>1, <2>2, <2>3
  <2>5. e[m] = g[m]
    BY <1>5, <2>3, <2>4
  <2> QED BY <2>2, <2>5
<1>7. e = [n \in 0 .. Len(lines) |-> e[n]]
  BY <1>4
<1> HIDE DEF e
<1>8. e = g
  BY <1>6, <1>7
<1> QED BY <1>8 DEF e

\* What each line does to the end of the queue.
Effects(lines) ==
    [n \in 1 .. Len(lines) |-> [p \in Points |-> IF lines[n].op = "jog" THEN LineEnd(p, lines[n]) ELSE p]]

LEMMA JogLinesAre ==
    ASSUME NEW l \in Lines
    PROVE  /\ l.op \in {"jog", "ask", "forgotten", "origin"}
           /\ l.op = "jog" => l \in JogLines
           /\ l.op = "origin" => l.seen \in Points
  BY DEF Lines, JogLines

LEMMA EndsDefined ==
    ASSUME NEW from \in Points, NEW lines \in Seq(Lines)
    PROVE  /\ EndsOf(from, lines) \in [0 .. Len(lines) -> Points]
           /\ EndsOf(from, lines)[0] = from
           /\ \A n \in 1 .. Len(lines) :
                EndsOf(from, lines)[n] =
                  IF lines[n].op = "jog" THEN LineEnd(EndsOf(from, lines)[n - 1], lines[n])
                  ELSE EndsOf(from, lines)[n - 1]
<1>1. Len(lines) \in Nat /\ \A n \in 1 .. Len(lines) : lines[n] \in Lines
  BY LenProperties, ElementOfSeq
<1>2. Effects(lines) \in [1 .. Len(lines) -> [Points -> Points]]
  <2>1. ASSUME NEW n \in 1 .. Len(lines), NEW p \in Points
        PROVE  (IF lines[n].op = "jog" THEN LineEnd(p, lines[n]) ELSE p) \in Points
    BY <1>1, JogLinesAre, LineEndTyped
  <2> QED BY <2>1 DEF Effects
<1>3. PICK g \in [0 .. Len(lines) -> Points] : Unfolds(g, Len(lines), from, Effects(lines))
  BY <1>1, <1>2, Unfolding
<1>4. ASSUME NEW n \in 1 .. Len(lines)
      PROVE  g[n] = IF lines[n].op = "jog" THEN LineEnd(g[n - 1], lines[n]) ELSE g[n - 1]
  <2>1. n - 1 \in 0 .. Len(lines) /\ g[n - 1] \in Points
    BY <1>1
  <2>2. g[n] = Effects(lines)[n][g[n - 1]]
    BY <1>3 DEF Unfolds
  <2> QED BY <2>1, <2>2 DEF Effects
<1>5. g[0] = from
  BY <1>3 DEF Unfolds
<1>6. EndsOf(from, lines) = g
  BY <1>4, <1>5, EndsAre
<1> QED BY <1>4, <1>5, <1>6

LEMMA EndsOfAppend ==
    ASSUME NEW from \in Points, NEW lines \in Seq(Lines), NEW l \in Lines
    PROVE  /\ \A n \in 0 .. Len(lines) : EndsOf(from, Append(lines, l))[n] = EndsOf(from, lines)[n]
           /\ EndsOf(from, Append(lines, l))[Len(lines) + 1] =
                IF l.op = "jog" THEN LineEnd(EndsOf(from, lines)[Len(lines)], l)
                ELSE EndsOf(from, lines)[Len(lines)]
<1> DEFINE e == EndsOf(from, lines)
<1> DEFINE N == Len(lines)
<1> DEFINE last == IF l.op = "jog" THEN LineEnd(e[N], l) ELSE e[N]
<1> DEFINE g == [n \in 0 .. N + 1 |-> IF n = N + 1 THEN last ELSE e[n]]
<1>1. N \in Nat /\ Append(lines, l) \in Seq(Lines) /\ Len(Append(lines, l)) = N + 1
  BY LenProperties, AppendProperties
<1>2. \A n \in 1 .. N : Append(lines, l)[n] = lines[n]
  BY AppendProperties
<1>3. Append(lines, l)[N + 1] = l
  BY AppendProperties
<1>4. /\ e \in [0 .. N -> Points] /\ e[0] = from
      /\ \A n \in 1 .. N : e[n] = IF lines[n].op = "jog" THEN LineEnd(e[n - 1], lines[n]) ELSE e[n - 1]
  BY EndsDefined
<1> HIDE DEF e, N
<1>5. last \in Points
  BY <1>1, <1>4, JogLinesAre, LineEndTyped
<1>6. g \in [0 .. N + 1 -> Points] /\ g[0] = from /\ g[N + 1] = last
  BY <1>1, <1>4, <1>5
<1>7. ASSUME NEW n \in 1 .. N + 1
      PROVE  g[n] = IF Append(lines, l)[n].op = "jog" THEN LineEnd(g[n - 1], Append(lines, l)[n]) ELSE g[n - 1]
  <2>1. n - 1 \in 0 .. N + 1 /\ g[n - 1] = e[n - 1]
    BY <1>1
  <2>2. CASE n = N + 1
    BY <1>1, <1>3, <1>6, <2>1, <2>2
  <2>3. CASE n # N + 1
    BY <1>1, <2>3, <1>2, <1>4, <2>1
  <2> QED BY <2>2, <2>3
<1>8. EndsOf(from, Append(lines, l)) = g
  <2> HIDE DEF g
  <2> QED BY <1>1, <1>6, <1>7, EndsAre
<1>9. \A n \in 0 .. N : g[n] = e[n]
  BY <1>1
<1> QED BY <1>6, <1>8, <1>9 DEF e, N

LEMMA EndsOfTail ==
    ASSUME NEW from \in Points, NEW lines \in Seq(Lines), lines # <<>>,
           NEW to \in Points, to = EndsOf(from, lines)[1]
    PROVE  \A n \in 0 .. Len(lines) - 1 : EndsOf(to, Tail(lines))[n] = EndsOf(from, lines)[n + 1]
<1> DEFINE e == EndsOf(from, lines)
<1> DEFINE N == Len(lines)
<1> DEFINE g == [n \in 0 .. N - 1 |-> e[n + 1]]
<1>1. N \in Nat \ {0} /\ Tail(lines) \in Seq(Lines) /\ Len(Tail(lines)) = N - 1
  BY EmptySeq, LenProperties, HeadTailProperties
<1>2. \A n \in 1 .. N - 1 : Tail(lines)[n] = lines[n + 1]
  BY <1>1, HeadTailProperties
<1>3. /\ e \in [0 .. N -> Points]
      /\ \A n \in 1 .. N : e[n] = IF lines[n].op = "jog" THEN LineEnd(e[n - 1], lines[n]) ELSE e[n - 1]
  BY EndsDefined
<1> HIDE DEF N
<1>4. g \in [0 .. N - 1 -> Points] /\ g[0] = to
  <2> HIDE DEF e
  <2>1. \A n \in 0 .. N - 1 : e[n + 1] \in Points
    BY <1>1, <1>3
  <2>2. g[0] = e[1]
    BY <1>1
  <2> QED BY <2>1, <2>2 DEF e
<1> HIDE DEF e
<1>5. ASSUME NEW n \in 1 .. N - 1
      PROVE  g[n] = IF Tail(lines)[n].op = "jog" THEN LineEnd(g[n - 1], Tail(lines)[n]) ELSE g[n - 1]
  BY <1>1, <1>2, <1>3
<1>6. EndsOf(to, Tail(lines)) = g
  <2> HIDE DEF g
  <2> QED BY <1>1, <1>4, <1>5, EndsAre
<1> QED BY <1>6 DEF e, N

LEMMA ForgottenIs ==
    ASSUME NEW lines \in Seq(Lines)
    PROVE  /\ Forgotten(lines) \in Seq(Lines) /\ Len(Forgotten(lines)) = Len(lines)
           /\ DOMAIN Forgotten(lines) = DOMAIN lines
           /\ \A i \in DOMAIN lines :
                /\ Forgotten(lines)[i].op = "jog" <=> lines[i].op = "jog"
                /\ Forgotten(lines)[i].op = "origin" <=> lines[i].op = "origin"
                /\ lines[i].op # "ask" => Forgotten(lines)[i] = lines[i]
                /\ Forgotten(lines)[i].op # "ask"
<1>1. Len(lines) \in Nat /\ DOMAIN lines = 1 .. Len(lines) /\ \A i \in DOMAIN lines : lines[i] \in Lines
  BY LenProperties, ElementOfSeq
<1>2. [op |-> "forgotten"] \in Lines
  BY DEF Lines
<1>3. \A i \in DOMAIN lines : Forgotten(lines)[i] = IF lines[i].op = "ask" THEN [op |-> "forgotten"] ELSE lines[i]
  BY DEF Forgotten
<1>4. Forgotten(lines) \in [1 .. Len(lines) -> Lines]
  BY <1>1, <1>2 DEF Forgotten
<1>5. Forgotten(lines) \in Seq(Lines) /\ Len(Forgotten(lines)) = Len(lines)
  BY <1>1, <1>4, SeqDef
<1> QED BY <1>1, <1>3, <1>4, <1>5

LEMMA EndsOfForgotten ==
    ASSUME NEW from \in Points, NEW lines \in Seq(Lines)
    PROVE  EndsOf(from, Forgotten(lines)) = EndsOf(from, lines)
<1> DEFINE e == EndsOf(from, lines)
<1> DEFINE f == Forgotten(lines)
<1>1. /\ e \in [0 .. Len(lines) -> Points] /\ e[0] = from
      /\ \A n \in 1 .. Len(lines) :
           e[n] = IF lines[n].op = "jog" THEN LineEnd(e[n - 1], lines[n]) ELSE e[n - 1]
  BY EndsDefined
<1>2. f \in Seq(Lines) /\ Len(f) = Len(lines) /\ DOMAIN lines = 1 .. Len(lines)
  BY ForgottenIs, LenProperties
<1>3. \A n \in 1 .. Len(lines) :
        (f[n].op = "jog" <=> lines[n].op = "jog") /\ (lines[n].op = "jog" => f[n] = lines[n])
  BY <1>2, ForgottenIs
<1> HIDE DEF e, f
<1>4. \A n \in 1 .. Len(f) : e[n] = IF f[n].op = "jog" THEN LineEnd(e[n - 1], f[n]) ELSE e[n - 1]
  BY <1>1, <1>2, <1>3
<1>5. EndsOf(from, f) = e
  BY <1>1, <1>2, <1>4, EndsAre
<1> QED BY <1>5 DEF e, f

LEMMA EndsStay ==
    ASSUME NEW from \in Points, NEW lines \in Seq(Lines), \A i \in DOMAIN lines : lines[i].op # "jog"
    PROVE  \A n \in 0 .. Len(lines) : EndsOf(from, lines)[n] = from
<1> DEFINE g == [n \in 0 .. Len(lines) |-> from]
<1>1. Len(lines) \in Nat /\ DOMAIN lines = 1 .. Len(lines)
  BY LenProperties
<1>2. \A n \in 1 .. Len(lines) : n - 1 \in 0 .. Len(lines) /\ n \in 0 .. Len(lines) /\ lines[n].op # "jog"
  BY <1>1
<1>3. g \in [0 .. Len(lines) -> Points] /\ g[0] = from /\ \A n \in 1 .. Len(lines) : g[n] = g[n - 1]
  BY <1>1, <1>2
<1> HIDE DEF g
<1>4. EndsOf(from, lines) = g
  BY <1>2, <1>3, EndsAre
<1> QED BY <1>4 DEF g

-----------------------------------------------------------------------------
(* Sums.                                                                    *)

LEMMA TotalIs ==
    ASSUME NEW s \in Seq(Nat), NEW g \in [0 .. Len(s) -> Int], g[0] = 0,
           \A n \in 1 .. Len(s) : g[n] = g[n - 1] + s[n]
    PROVE  Total(s) = g[Len(s)]
<1> DEFINE Good(h) == h = [n \in 0 .. Len(s) |-> IF n = 0 THEN 0 ELSE h[n - 1] + s[n]]
<1> DEFINE t == CHOOSE h : Good(h)
<1> DEFINE Bad == {n \in 0 .. Len(s) : t[n] # g[n]}
<1>1. Len(s) \in Nat
  BY LenProperties
<1>2. Good(g)
  BY <1>1
<1>3. Total(s) = t[Len(s)]
  BY DEF Total
<1>4. Good(t)
  <2> HIDE DEF Good
  <2> QED BY <1>2
<1>5. \A n \in 0 .. Len(s) : t[n] = IF n = 0 THEN 0 ELSE t[n - 1] + s[n]
  <2> HIDE DEF t
  <2> QED BY <1>4
<1> HIDE DEF t
<1>6. Bad = {}
  <2> SUFFICES ASSUME Bad # {} PROVE FALSE
    OBVIOUS
  <2>1. Bad \in SUBSET Nat
    BY <1>1
  <2>2. PICK m \in Bad : \A k \in Bad : m <= k
    BY <2>1, Least
  <2>3. m \in 1 .. Len(s)
    BY <1>1, <1>5, <2>2
  <2>4. m - 1 \in 0 .. Len(s) /\ m - 1 \notin Bad
    BY <1>1, <2>2, <2>3
  <2>5. t[m] = g[m]
    BY <1>5, <2>3, <2>4
  <2> QED BY <2>2, <2>5
<1> QED BY <1>1, <1>3, <1>6

LEMMA TotalDefined ==
    ASSUME NEW s \in Seq(Nat)
    PROVE  \E g \in [0 .. Len(s) -> Nat] :
             g[0] = 0 /\ (\A n \in 1 .. Len(s) : g[n] = g[n - 1] + s[n]) /\ Total(s) = g[Len(s)]
<1> DEFINE F == [n \in 1 .. Len(s) |-> [k \in Nat |-> k + s[n]]]
<1>1. Len(s) \in Nat /\ \A n \in 1 .. Len(s) : s[n] \in Nat
  BY LenProperties, ElementOfSeq
<1>2. F \in [1 .. Len(s) -> [Nat -> Nat]]
  BY <1>1
<1>3. PICK g \in [0 .. Len(s) -> Nat] : Unfolds(g, Len(s), 0, F)
  <2> HIDE DEF F
  <2> QED BY <1>1, <1>2, Unfolding
<1>4. ASSUME NEW n \in 1 .. Len(s) PROVE g[n] = g[n - 1] + s[n]
  <2>1. n - 1 \in 0 .. Len(s)
    BY <1>1
  <2>2. g[n] = F[n][g[n - 1]] /\ g[n - 1] \in Nat
    BY <1>3, <2>1 DEF Unfolds
  <2> QED BY <2>1, <2>2
<1>5. g[0] = 0 /\ g \in [0 .. Len(s) -> Int]
  BY <1>3 DEF Unfolds
<1>6. Total(s) = g[Len(s)]
  BY <1>4, <1>5, TotalIs
<1> QED BY <1>4, <1>5, <1>6

LEMMA TotalTyped ==
    ASSUME NEW s \in Seq(Nat)
    PROVE  Total(s) \in Nat /\ (s = <<>> => Total(s) = 0)
<1>1. PICK g \in [0 .. Len(s) -> Nat] : g[0] = 0 /\ Total(s) = g[Len(s)]
  BY TotalDefined
<1>2. Len(s) \in Nat /\ (s = <<>> => Len(s) = 0)
  BY LenProperties
<1> QED BY <1>1, <1>2

LEMMA TotalOfAppend ==
    ASSUME NEW s \in Seq(Nat), NEW k \in Nat
    PROVE  Total(Append(s, k)) = Total(s) + k
<1> DEFINE N == Len(s)
<1>1. PICK g \in [0 .. N -> Nat] :
        g[0] = 0 /\ (\A n \in 1 .. N : g[n] = g[n - 1] + s[n]) /\ Total(s) = g[N]
  BY TotalDefined
<1>2. N \in Nat /\ Append(s, k) \in Seq(Nat) /\ Len(Append(s, k)) = N + 1
  BY LenProperties, AppendProperties
<1>3. (\A n \in 1 .. N : Append(s, k)[n] = s[n]) /\ Append(s, k)[N + 1] = k
  BY AppendProperties
<1> HIDE DEF N
<1> DEFINE h == [n \in 0 .. N + 1 |-> IF n = N + 1 THEN g[N] + k ELSE g[n]]
<1>4. h \in [0 .. N + 1 -> Int] /\ h[0] = 0 /\ h[N + 1] = g[N] + k
  BY <1>1, <1>2
<1>5. ASSUME NEW n \in 1 .. N + 1 PROVE h[n] = h[n - 1] + Append(s, k)[n]
  <2>1. n - 1 \in 0 .. N + 1 /\ h[n - 1] = g[n - 1]
    BY <1>2
  <2>2. CASE n = N + 1
    BY <1>2, <1>3, <1>4, <2>1, <2>2
  <2>3. CASE n # N + 1
    BY <1>2, <2>3, <1>1, <1>3, <2>1
  <2> QED BY <2>2, <2>3
<1> HIDE DEF h
<1>6. Total(Append(s, k)) = h[N + 1]
  BY <1>2, <1>4, <1>5, TotalIs
<1> QED BY <1>1, <1>4, <1>6

LEMMA TotalOfTail ==
    ASSUME NEW s \in Seq(Nat), s # <<>>
    PROVE  Total(s) = s[1] + Total(Tail(s))
<1> DEFINE N == Len(s)
<1>1. PICK g \in [0 .. N -> Nat] :
        g[0] = 0 /\ (\A n \in 1 .. N : g[n] = g[n - 1] + s[n]) /\ Total(s) = g[N]
  BY TotalDefined
<1>2. N \in Nat \ {0} /\ Tail(s) \in Seq(Nat) /\ Len(Tail(s)) = N - 1
  BY EmptySeq, LenProperties, HeadTailProperties
<1>3. (\A n \in 1 .. N - 1 : Tail(s)[n] = s[n + 1]) /\ (\A n \in 1 .. N : s[n] \in Nat)
  BY <1>2, HeadTailProperties, ElementOfSeq
<1> HIDE DEF N
<1> DEFINE h == [n \in 0 .. N - 1 |-> g[n + 1] - s[1]]
<1>4. h \in [0 .. N - 1 -> Int] /\ h[0] = g[1] - s[1] /\ h[N - 1] = g[N] - s[1]
  <2>1. \A n \in 0 .. N - 1 : n + 1 \in 0 .. N /\ g[n + 1] - s[1] \in Int
    <3>1. 1 \in 1 .. N /\ \A n \in 0 .. N - 1 : n + 1 \in 0 .. N
      BY <1>2
    <3>2. s[1] \in Nat /\ \A n \in 0 .. N - 1 : g[n + 1] \in Nat
      BY <1>1, <1>3, <3>1
    <3> QED BY <3>1, <3>2
  <2>2. (N - 1) + 1 = N /\ 0 \in 0 .. N - 1 /\ N - 1 \in 0 .. N - 1 /\ 0 + 1 = 1
    BY <1>2
  <2>3. h \in [0 .. N - 1 -> Int]
    BY <2>1
  <2>4. h[0] = g[0 + 1] - s[1] /\ h[N - 1] = g[(N - 1) + 1] - s[1]
    BY <2>2
  <2> QED BY <2>2, <2>3, <2>4
<1>5. g[1] = s[1]
  BY <1>2, <1>1, <1>3
<1>6. ASSUME NEW n \in 1 .. N - 1 PROVE h[n] = h[n - 1] + Tail(s)[n]
  <2>1. n + 1 \in 1 .. N /\ h[n] = g[n + 1] - s[1] /\ h[n - 1] = g[n] - s[1] /\ (n + 1) - 1 = n
    BY <1>2
  <2>2. g[n] \in Nat /\ g[n + 1] \in Nat /\ s[1] \in Nat /\ s[n + 1] \in Nat
    BY <1>1, <1>2, <1>3, <2>1
  <2>3. g[n + 1] = g[n] + s[n + 1]
    BY <1>1, <2>1
  <2>4. Tail(s)[n] = s[n + 1]
    BY <1>3
  <2>5. \A a, b, c \in Int : (a + c) - b = (a - b) + c
    OBVIOUS
  <2>6. (g[n] + s[n + 1]) - s[1] = (g[n] - s[1]) + s[n + 1]
    BY <2>2, <2>5
  <2> HIDE DEF h
  <2> QED BY <2>1, <2>3, <2>4, <2>6, Zenon
<1> HIDE DEF h
<1>7. Total(Tail(s)) = h[N - 1]
  <2>1. g[1] \in Nat /\ g[1] - s[1] = 0
    BY <1>1, <1>2, <1>5
  <2>2. h[0] = 0
    BY <1>4, <2>1
  <2> QED BY <1>2, <1>4, <1>6, <2>2, TotalIs
<1>8. g[N] \in Nat /\ s[1] \in Nat
  BY <1>1, <1>2, <1>3
<1> QED BY <1>1, <1>4, <1>7, <1>8

JogTime(l) == IF l.op = "jog" THEN l.dur ELSE 0
JogTimes(lines) == [i \in DOMAIN lines |-> IF lines[i].op = "jog" THEN lines[i].dur ELSE 0]

LEMMA JogTimesAre ==
    ASSUME NEW lines \in Seq(Lines)
    PROVE  /\ JogTimes(lines) \in Seq(Nat) /\ Len(JogTimes(lines)) = Len(lines)
           /\ DOMAIN JogTimes(lines) = 1 .. Len(lines)
           /\ \A i \in 1 .. Len(lines) : JogTimes(lines)[i] = JogTime(lines[i])
           /\ WireTime(lines) = Total(JogTimes(lines))
<1>1. Len(lines) \in Nat /\ DOMAIN lines = 1 .. Len(lines) /\ \A i \in DOMAIN lines : lines[i] \in Lines
  BY LenProperties, ElementOfSeq
<1>2. \A i \in DOMAIN lines : JogTime(lines[i]) \in Nat
  BY <1>1, JogLinesAre DEF JogTime, JogLines
<1>3. \A i \in DOMAIN lines : JogTimes(lines)[i] = JogTime(lines[i])
  BY DEF JogTimes, JogTime
<1>4. JogTimes(lines) \in [1 .. Len(lines) -> Nat]
  BY <1>1, <1>2 DEF JogTimes, JogTime
<1>5. JogTimes(lines) \in Seq(Nat) /\ Len(JogTimes(lines)) = Len(lines)
  BY <1>1, <1>4, SeqDef
<1>6. WireTime(lines) = Total(JogTimes(lines))
  BY DEF WireTime, JogTimes
<1> QED BY <1>1, <1>3, <1>4, <1>5, <1>6

LEMMA WireTimeTyped ==
    ASSUME NEW lines \in Seq(Lines)
    PROVE  WireTime(lines) \in Nat /\ (lines = <<>> => WireTime(lines) = 0)
<1>1. JogTimes(lines) \in Seq(Nat) /\ WireTime(lines) = Total(JogTimes(lines)) /\ Len(JogTimes(lines)) = Len(lines)
  BY JogTimesAre
<1>2. lines = <<>> => JogTimes(lines) = <<>>
  BY <1>1, EmptySeq
<1> QED BY <1>1, <1>2, TotalTyped

LEMMA WireTimeOfAppend ==
    ASSUME NEW lines \in Seq(Lines), NEW l \in Lines
    PROVE  WireTime(Append(lines, l)) = WireTime(lines) + JogTime(l)
<1>1. Append(lines, l) \in Seq(Lines) /\ Len(Append(lines, l)) = Len(lines) + 1 /\ Len(lines) \in Nat
  BY AppendProperties, LenProperties
<1>2. Append(lines, l)[Len(lines) + 1] = l /\ \A i \in 1 .. Len(lines) : Append(lines, l)[i] = lines[i]
  BY AppendProperties
<1>3. JogTime(l) \in Nat
  BY JogLinesAre DEF JogTime, JogLines
<1> DEFINE s == JogTimes(lines)
<1> DEFINE t == JogTimes(Append(lines, l))
<1>4. /\ s \in Seq(Nat) /\ Len(s) = Len(lines) /\ \A i \in 1 .. Len(lines) : s[i] = JogTime(lines[i])
      /\ WireTime(lines) = Total(s)
  BY JogTimesAre
<1>5. /\ t \in Seq(Nat) /\ Len(t) = Len(lines) + 1
      /\ \A i \in 1 .. Len(lines) + 1 : t[i] = JogTime(Append(lines, l)[i])
      /\ WireTime(Append(lines, l)) = Total(t)
  BY <1>1, JogTimesAre
<1> HIDE DEF s, t
<1>6. /\ Append(s, JogTime(l)) \in Seq(Nat) /\ Len(Append(s, JogTime(l))) = Len(lines) + 1
      /\ Append(s, JogTime(l))[Len(lines) + 1] = JogTime(l)
      /\ \A i \in 1 .. Len(lines) : Append(s, JogTime(l))[i] = s[i]
  BY <1>3, <1>4, AppendProperties
<1>7. \A i \in 1 .. Len(lines) + 1 : t[i] = Append(s, JogTime(l))[i]
  <2>1. \A i \in 1 .. Len(lines) + 1 : i \in 1 .. Len(lines) \/ i = Len(lines) + 1
    BY <1>1
  <2>2. \A i \in 1 .. Len(lines) : i \in 1 .. Len(lines) + 1
    BY <1>1
  <2>3. Len(lines) + 1 \in 1 .. Len(lines) + 1
    BY <1>1
  <2> QED BY <1>2, <1>4, <1>5, <1>6, <2>1, <2>2, <2>3
<1>8. t = Append(s, JogTime(l))
  BY <1>5, <1>6, <1>7, SeqEqual
<1> QED BY <1>3, <1>4, <1>5, <1>8, TotalOfAppend

LEMMA WireTimeOfTail ==
    ASSUME NEW lines \in Seq(Lines), lines # <<>>
    PROVE  WireTime(lines) = JogTime(Head(lines)) + WireTime(Tail(lines))
<1>1. /\ Tail(lines) \in Seq(Lines) /\ Len(Tail(lines)) = Len(lines) - 1 /\ Len(lines) \in Nat \ {0}
      /\ Head(lines) = lines[1]
  BY EmptySeq, HeadTailProperties, LenProperties
<1>2. \A i \in 1 .. Len(lines) - 1 : Tail(lines)[i] = lines[i + 1]
  BY <1>1, HeadTailProperties
<1> DEFINE s == JogTimes(lines)
<1> DEFINE t == JogTimes(Tail(lines))
<1>3. /\ s \in Seq(Nat) /\ Len(s) = Len(lines) /\ \A i \in 1 .. Len(lines) : s[i] = JogTime(lines[i])
      /\ WireTime(lines) = Total(s)
  BY JogTimesAre
<1>4. /\ t \in Seq(Nat) /\ Len(t) = Len(lines) - 1
      /\ \A i \in 1 .. Len(lines) - 1 : t[i] = JogTime(Tail(lines)[i])
      /\ WireTime(Tail(lines)) = Total(t)
  BY <1>1, JogTimesAre
<1> HIDE DEF s, t
<1>5. s # <<>> /\ s[1] = JogTime(Head(lines))
  BY <1>1, <1>3, EmptySeq
<1>6. Tail(s) \in Seq(Nat) /\ Len(Tail(s)) = Len(lines) - 1 /\ \A i \in 1 .. Len(lines) - 1 : Tail(s)[i] = s[i + 1]
  BY <1>1, <1>3, <1>5, HeadTailProperties
<1>7. \A i \in 1 .. Len(lines) - 1 : t[i] = Tail(s)[i]
  BY <1>1, <1>2, <1>3, <1>4, <1>6
<1>8. t = Tail(s)
  BY <1>4, <1>6, <1>7, SeqEqual
<1> QED BY <1>3, <1>4, <1>5, <1>8, TotalOfTail

LEMMA WireTimeOfForgotten ==
    ASSUME NEW lines \in Seq(Lines)
    PROVE  WireTime(Forgotten(lines)) = WireTime(lines)
<1> DEFINE f == Forgotten(lines)
<1>1. f \in Seq(Lines) /\ Len(f) = Len(lines) /\ DOMAIN lines = 1 .. Len(lines)
  BY ForgottenIs, LenProperties
<1>2. \A i \in 1 .. Len(lines) : JogTime(f[i]) = JogTime(lines[i])
  <2>1. \A i \in 1 .. Len(lines) : (f[i].op = "jog" <=> lines[i].op = "jog") /\ (lines[i].op = "jog" => f[i] = lines[i])
    BY <1>1, ForgottenIs
  <2> HIDE DEF f
  <2> QED BY <2>1 DEF JogTime
<1> HIDE DEF f
<1>3. /\ JogTimes(f) \in Seq(Nat) /\ Len(JogTimes(f)) = Len(lines)
      /\ \A i \in 1 .. Len(lines) : JogTimes(f)[i] = JogTime(f[i])
      /\ WireTime(f) = Total(JogTimes(f))
  BY <1>1, JogTimesAre
<1>4. /\ JogTimes(lines) \in Seq(Nat) /\ Len(JogTimes(lines)) = Len(lines)
      /\ \A i \in 1 .. Len(lines) : JogTimes(lines)[i] = JogTime(lines[i])
      /\ WireTime(lines) = Total(JogTimes(lines))
  BY JogTimesAre
<1>5. JogTimes(f) = JogTimes(lines)
  BY <1>2, <1>3, <1>4, SeqEqual
<1> QED BY <1>3, <1>4, <1>5 DEF f

Lefts(queue) == [i \in DOMAIN queue |-> queue[i].left]

LEMMA LeftsAre ==
    ASSUME NEW queue \in Seq(Moves)
    PROVE  /\ Lefts(queue) \in Seq(Nat) /\ Len(Lefts(queue)) = Len(queue)
           /\ \A i \in 1 .. Len(queue) : Lefts(queue)[i] = queue[i].left
           /\ QueueTime(queue) = Total(Lefts(queue))
<1>1. Len(queue) \in Nat /\ DOMAIN queue = 1 .. Len(queue) /\ \A i \in DOMAIN queue : queue[i] \in Moves
  BY LenProperties, ElementOfSeq
<1>2. \A i \in DOMAIN queue : queue[i].left \in Nat
  BY <1>1 DEF Moves
<1>3. Lefts(queue) \in [1 .. Len(queue) -> Nat]
  BY <1>1, <1>2 DEF Lefts
<1>4. Lefts(queue) \in Seq(Nat) /\ Len(Lefts(queue)) = Len(queue)
  BY <1>1, <1>3, SeqDef
<1>5. QueueTime(queue) = Total(Lefts(queue))
  BY DEF QueueTime, Lefts
<1> QED BY <1>1, <1>4, <1>5 DEF Lefts

LEMMA QueueTimeTyped ==
    ASSUME NEW queue \in Seq(Moves)
    PROVE  QueueTime(queue) \in Nat /\ (queue = <<>> => QueueTime(queue) = 0)
<1>1. Lefts(queue) \in Seq(Nat) /\ QueueTime(queue) = Total(Lefts(queue)) /\ Len(Lefts(queue)) = Len(queue)
  BY LeftsAre
<1>2. queue = <<>> => Lefts(queue) = <<>>
  BY <1>1, EmptySeq
<1> QED BY <1>1, <1>2, TotalTyped

LEMMA QueueTimeOfAppend ==
    ASSUME NEW queue \in Seq(Moves), NEW m \in Moves
    PROVE  QueueTime(Append(queue, m)) = QueueTime(queue) + m.left
<1>1. Append(queue, m) \in Seq(Moves) /\ Len(Append(queue, m)) = Len(queue) + 1 /\ Len(queue) \in Nat
  BY AppendProperties, LenProperties
<1>2. Append(queue, m)[Len(queue) + 1] = m /\ \A i \in 1 .. Len(queue) : Append(queue, m)[i] = queue[i]
  BY AppendProperties
<1>3. m.left \in Nat
  BY DEF Moves
<1> DEFINE s == Lefts(queue)
<1> DEFINE t == Lefts(Append(queue, m))
<1>4. /\ s \in Seq(Nat) /\ Len(s) = Len(queue) /\ \A i \in 1 .. Len(queue) : s[i] = queue[i].left
      /\ QueueTime(queue) = Total(s)
  BY LeftsAre
<1>5. /\ t \in Seq(Nat) /\ Len(t) = Len(queue) + 1
      /\ \A i \in 1 .. Len(queue) + 1 : t[i] = Append(queue, m)[i].left
      /\ QueueTime(Append(queue, m)) = Total(t)
  BY <1>1, LeftsAre
<1> HIDE DEF s, t
<1>6. /\ Append(s, m.left) \in Seq(Nat) /\ Len(Append(s, m.left)) = Len(queue) + 1
      /\ Append(s, m.left)[Len(queue) + 1] = m.left
      /\ \A i \in 1 .. Len(queue) : Append(s, m.left)[i] = s[i]
  BY <1>3, <1>4, AppendProperties
<1>7. \A i \in 1 .. Len(queue) + 1 : t[i] = Append(s, m.left)[i]
  <2>1. \A i \in 1 .. Len(queue) + 1 : i \in 1 .. Len(queue) \/ i = Len(queue) + 1
    BY <1>1
  <2>2. \A i \in 1 .. Len(queue) : i \in 1 .. Len(queue) + 1
    BY <1>1
  <2>3. Len(queue) + 1 \in 1 .. Len(queue) + 1
    BY <1>1
  <2> QED BY <1>2, <1>4, <1>5, <1>6, <2>1, <2>2, <2>3
<1>8. t = Append(s, m.left)
  BY <1>5, <1>6, <1>7, SeqEqual
<1> QED BY <1>3, <1>4, <1>5, <1>8, TotalOfAppend

LEMMA QueueTimeOfTail ==
    ASSUME NEW queue \in Seq(Moves), queue # <<>>
    PROVE  QueueTime(queue) = queue[1].left + QueueTime(Tail(queue))
<1>1. Tail(queue) \in Seq(Moves) /\ Len(Tail(queue)) = Len(queue) - 1 /\ Len(queue) \in Nat \ {0}
  BY EmptySeq, HeadTailProperties, LenProperties
<1>2. \A i \in 1 .. Len(queue) - 1 : Tail(queue)[i] = queue[i + 1]
  BY <1>1, HeadTailProperties
<1> DEFINE s == Lefts(queue)
<1> DEFINE t == Lefts(Tail(queue))
<1>3. /\ s \in Seq(Nat) /\ Len(s) = Len(queue) /\ \A i \in 1 .. Len(queue) : s[i] = queue[i].left
      /\ QueueTime(queue) = Total(s)
  BY LeftsAre
<1>4. /\ t \in Seq(Nat) /\ Len(t) = Len(queue) - 1
      /\ \A i \in 1 .. Len(queue) - 1 : t[i] = Tail(queue)[i].left
      /\ QueueTime(Tail(queue)) = Total(t)
  BY <1>1, LeftsAre
<1> HIDE DEF s, t
<1>5. s # <<>> /\ s[1] = queue[1].left
  BY <1>1, <1>3, EmptySeq
<1>6. Tail(s) \in Seq(Nat) /\ Len(Tail(s)) = Len(queue) - 1 /\ \A i \in 1 .. Len(queue) - 1 : Tail(s)[i] = s[i + 1]
  BY <1>1, <1>3, <1>5, HeadTailProperties
<1>7. \A i \in 1 .. Len(queue) - 1 : t[i] = Tail(s)[i]
  BY <1>1, <1>2, <1>3, <1>4, <1>6
<1>8. t = Tail(s)
  BY <1>4, <1>6, <1>7, SeqEqual
<1> QED BY <1>3, <1>4, <1>5, <1>8, TotalOfTail

\* A unit of time of the move that is executed.
Worked(m) == [m EXCEPT !.left = @ - 1]

LEMMA WorkedIs ==
    ASSUME NEW m \in Moves, m.left > 0
    PROVE  /\ Worked(m) \in Moves /\ Worked(m).to = m.to /\ Worked(m).dur = m.dur
           /\ m.left \in Nat /\ Worked(m).left = m.left - 1
<1>1. m.left \in Nat /\ m.left - 1 \in Nat
  BY DEF Moves
<1>2. Worked(m) = [to |-> m.to, left |-> m.left - 1, dur |-> m.dur]
  BY DEF Worked, Moves
<1> QED BY <1>1, <1>2 DEF Moves

LEMMA QueueTimePasses ==
    ASSUME NEW queue \in Seq(Moves), queue # <<>>, queue[1].left > 0,
           NEW q, q = [queue EXCEPT ![1] = Worked(@)]
    PROVE  /\ q \in Seq(Moves) /\ Len(q) = Len(queue) /\ q # <<>>
           /\ q[1] = Worked(queue[1]) /\ Tail(q) = Tail(queue)
           /\ \A i \in DOMAIN queue : i # 1 => q[i] = queue[i]
           /\ QueueTime(q) = QueueTime(queue) - 1
<1>1. Len(queue) \in Nat \ {0} /\ DOMAIN queue = 1 .. Len(queue) /\ \A i \in DOMAIN queue : queue[i] \in Moves
  BY EmptySeq, LenProperties, ElementOfSeq
<1>2. Worked(queue[1]) \in Moves /\ Worked(queue[1]).left = queue[1].left - 1 /\ queue[1].left \in Nat
  BY <1>1, WorkedIs
<1>3. q \in [1 .. Len(queue) -> Moves] /\ q[1] = Worked(queue[1])
  BY <1>1, <1>2
<1>4. \A i \in DOMAIN queue : i # 1 => q[i] = queue[i]
  BY <1>1
<1>5. q \in Seq(Moves) /\ Len(q) = Len(queue)
  BY <1>1, <1>3, SeqDef
<1>6. q # <<>>
  BY <1>1, <1>5, EmptySeq
<1>7. Tail(q) = Tail(queue)
  <2>1. Tail(q) \in Seq(Moves) /\ Len(Tail(q)) = Len(queue) - 1 /\ \A i \in 1 .. Len(queue) - 1 : Tail(q)[i] = q[i + 1]
    BY <1>5, <1>6, HeadTailProperties
  <2>2. /\ Tail(queue) \in Seq(Moves) /\ Len(Tail(queue)) = Len(queue) - 1
        /\ \A i \in 1 .. Len(queue) - 1 : Tail(queue)[i] = queue[i + 1]
    BY HeadTailProperties
  <2>3. \A i \in 1 .. Len(queue) - 1 : i + 1 \in DOMAIN queue /\ i + 1 # 1
    BY <1>1
  <2>4. \A i \in 1 .. Len(queue) - 1 : Tail(q)[i] = Tail(queue)[i]
    BY <1>4, <2>1, <2>2, <2>3
  <2> QED BY <2>1, <2>2, <2>4, SeqEqual
<1>8. QueueTime(queue) = queue[1].left + QueueTime(Tail(queue)) /\ QueueTime(Tail(queue)) \in Nat
  BY <1>1, HeadTailProperties, QueueTimeOfTail, QueueTimeTyped
<1>9. QueueTime(q) = q[1].left + QueueTime(Tail(q))
  BY <1>5, <1>6, QueueTimeOfTail
<1>10. QueueTime(q) = QueueTime(queue) - 1
  <2> DEFINE t == QueueTime(Tail(queue))
  <2>1. t \in Nat /\ QueueTime(queue) = queue[1].left + t /\ QueueTime(q) = (queue[1].left - 1) + t
    BY <1>2, <1>3, <1>7, <1>8, <1>9
  <2> HIDE DEF t
  <2> QED BY <1>2, <2>1
<1> QED BY <1>3, <1>4, <1>5, <1>6, <1>7, <1>10

-----------------------------------------------------------------------------
(* Types.                                                                   *)

LEMMA PointsAre ==
    /\ Origin \in Points
    /\ \A p \in Points : DOMAIN p = Axes /\ \A a \in Axes : p[a] \in Int
    /\ \A p, q \in Points : Sum(p, q) \in Points /\ axesDelta(p, q) \in Points
                            /\ moveDuration(axesDelta(p, q)) \in Nat \ {0}
    /\ \A in \in Int : MotionDelta(in) \in Points
<1>1. Origin \in Points
  BY DEF Origin, Points, Axes
<1>2. \A p \in Points : DOMAIN p = Axes /\ \A a \in Axes : p[a] \in Int
  BY DEF Points
<1>3. \A p, q \in Points : Sum(p, q) \in Points /\ axesDelta(p, q) \in Points
  BY DEF Points, Sum, axesDelta
<1>4. ASSUME NEW d \in Points PROVE moveDuration(d) \in Nat \ {0}
  BY TimeAssumption DEF Points, Axes, moveDuration, Max2, Abs
<1>5. \A in \in Int : MotionDelta(in) \in Points
  BY DEF Points, MotionDelta
<1> QED BY <1>1, <1>2, <1>3, <1>4, <1>5

LEMMA ClampTyped ==
    ASSUME TypeOK, NEW from \in Points, NEW to \in Points
    PROVE  /\ clampJogTarget(from, to) \in Points
           /\ Inside(from) => Inside(clampJogTarget(from, to))
<1>1. \A a \in Axes : LimitOf(a) \in Nat /\ from[a] \in Int /\ to[a] \in Int
  BY SceneIs, PointsAre
<1>2. ASSUME NEW a \in Axes
      PROVE  /\ clampJogTarget(from, to)[a] \in Int
             /\ from[a] \in 0 .. LimitOf(a) => clampJogTarget(from, to)[a] \in 0 .. LimitOf(a)
  BY <1>1 DEF clampJogTarget, Max2, Min2
<1>3. clampJogTarget(from, to) = [a \in Axes |-> clampJogTarget(from, to)[a]]
  BY DEF clampJogTarget
<1>4. clampJogTarget(from, to) \in Points
  BY <1>2, <1>3 DEF Points
<1> QED BY <1>2, <1>4 DEF Inside

\* A part B / D of a way A
LEMMA PartOf ==
    ASSUME NEW A \in Nat, NEW B \in Nat, NEW D \in Nat \ {0}, B <= D
    PROVE  (A * B) \div D \in 0 .. A
<1> DEFINE q == (A * B) \div D
<1>1. A * B \in Nat /\ A * B <= D * A
  OBVIOUS
<1>2. q \in Nat /\ D * q <= A * B
  BY <1>1
<1> HIDE DEF q
<1>3. D * q <= D * A
  BY <1>1, <1>2
<1>4. q <= A
  BY <1>2, <1>3
<1> QED BY <1>2, <1>4 DEF q

LEMMA PositionTyped ==
    ASSUME TypeOK, BaseInv
    PROVE  /\ Position \in Points
           /\ Tracked /\ LimitInv => Inside(Position)
           /\ mach.queue = <<>> => Position = mach.pos
<1>1. mach.pos \in Points /\ mach.queue \in Seq(Moves) /\ Len(mach.queue) \in Nat
  BY LenProperties DEF TypeOK, Machines
<1>2. CASE mach.queue = <<>>
  BY <1>1, <1>2 DEF Position, LimitInv
<1>3. CASE mach.queue # <<>>
  <2> DEFINE m == Head(mach.queue)
  <2>1. m \in Moves /\ m = mach.queue[1] /\ 1 \in DOMAIN mach.queue
    BY <1>1, <1>3, EmptySeq, HeadTailProperties, LenProperties
  <2>2. m.to \in Points /\ m.left \in 1 .. m.dur /\ m.dur \in Nat
    BY <2>1 DEF BaseInv, QueueTimed, Moves
  <2>3. Tracked /\ LimitInv => Inside(mach.pos) /\ Inside(m.to)
    BY <2>1 DEF LimitInv
  <2> DEFINE way(a) == m.to[a] - mach.pos[a]
  <2> DEFINE part(a) == (Abs(way(a)) * (m.dur - m.left)) \div m.dur
  <2>4. Position = [a \in Axes |-> mach.pos[a] + Sign(way(a)) * part(a)]
    BY <1>3 DEF Position
  <2> HIDE DEF m
  <2>5. ASSUME NEW a \in Axes
        PROVE  /\ Position[a] \in Int
               /\ mach.pos[a] \in 0 .. LimitOf(a) /\ m.to[a] \in 0 .. LimitOf(a) =>
                    Position[a] \in 0 .. LimitOf(a)
    <3>1. mach.pos[a] \in Int /\ m.to[a] \in Int /\ LimitOf(a) \in Nat
      BY <1>1, <2>2, PointsAre, SceneIs
    <3>2. way(a) \in Int /\ Abs(way(a)) \in Nat /\ m.dur - m.left \in Nat /\ m.dur \in Nat \ {0}
          /\ m.dur - m.left <= m.dur
      BY <2>2, <3>1 DEF Abs
    <3> HIDE DEF way
    <3>3. part(a) \in 0 .. Abs(way(a))
      BY <3>2, PartOf
    <3> HIDE DEF part
    <3>4. Sign(way(a)) * part(a) = IF way(a) < 0 THEN 0 - part(a) ELSE part(a)
      BY <3>2, <3>3 DEF Sign
    <3>5. Position[a] = mach.pos[a] + (IF way(a) < 0 THEN 0 - part(a) ELSE part(a))
      BY <2>4, <3>4
    <3> HIDE DEF part
    <3>6. way(a) = m.to[a] - mach.pos[a]
      BY DEF way
    <3> QED BY <3>1, <3>2, <3>3, <3>5, <3>6 DEF Abs
  <2>6. Position \in Points
    <3> HIDE DEF part, way
    <3>1. Position = [a \in Axes |-> Position[a]]
      BY <2>4
    <3> QED BY <2>5, <3>1 DEF Points
  <2> QED BY <1>3, <2>3, <2>5, <2>6 DEF Inside
<1> QED BY <1>2, <1>3

LEMMA RequestStatusTyped ==
    ASSUME TypeOK, RequestStatus
    PROVE  /\ query' \in Queries /\ query'.at = "asked"
           /\ wire' = Append(wire, [op |-> "ask"]) /\ wire' \in Seq(Lines)
<1>1. [op |-> "ask"] \in Lines /\ [at |-> "asked"] \in Queries
  BY DEF Lines, Queries
<1> QED BY <1>1, AppendProperties DEF TypeOK, RequestStatus

LEMMA DisarmedTyped ==
    /\ Disarmed \in Sessions /\ AtLoop \in Loops /\ NoQuery \in Queries
    /\ ~Disarmed.armed /\ Disarmed.lead = 0 /\ Disarmed.pending = Nothing /\ Disarmed.done = Nothing
    /\ Disarmed.after /\ Disarmed.st.state = "Idle" /\ AtLoop.kind = "tick"
    /\ Disarmed.planned = Origin /\ Disarmed.st.pos = Origin
    /\ AtLoop.at = "loop" /\ NoQuery.at = "none"
<1>1. Origin \in Points /\ 0 \in 0 .. MaxAge + 1 /\ 0 \in 0 .. MaxPerTick /\ 0 \in Inputs /\ MaxAge \in Nat
  BY PointsAre, TimeAssumption DEF Inputs
<1>2. Nothing \in Seq([target : Points, verify : Int])
      /\ Nothing \in Seq([what : {"complete", "short"}, target : Points]) /\ <<>> \in Seq(Points)
  BY EmptySeq DEF Nothing
<1>3. [pos |-> Origin, state |-> "Idle"] \in Samples
  BY <1>1 DEF Samples, States
<1>4. Disarmed \in Sessions
  BY <1>1, <1>2, <1>3 DEF Disarmed, Sessions
<1>5. AtLoop \in Loops
  BY <1>1, <1>2 DEF AtLoop, Loops
<1> QED BY <1>4, <1>5 DEF Disarmed, AtLoop, NoQuery, Queries

LEMMA ReleaseTyped ==
    ASSUME TypeOK, Release
    PROVE  /\ sess' = Disarmed /\ loop' = AtLoop /\ query' = NoQuery /\ input' = 0
           /\ sess' \in Sessions /\ loop' \in Loops /\ query' \in Queries /\ input' \in Inputs
           /\ wire' = Forgotten(wire) /\ wire' \in Seq(Lines)
<1>1. wire \in Seq(Lines)
  BY DEF TypeOK
<1>2. 0 \in Inputs
  BY DEF Inputs
<1> QED BY <1>1, <1>2, DisarmedTyped, ForgottenIs DEF Release

\* The parts of a session, a loop and a line about to be written
LEMMA PartsAre ==
    ASSUME TypeOK
    PROVE  /\ mach.pos \in Points /\ mach.queue \in Seq(Moves) /\ mach.refused \in BOOLEAN
           /\ sess.planned \in Points /\ sess.st.pos \in Points /\ sess.lead \in Nat
           /\ sess.armed \in BOOLEAN /\ sess.after \in BOOLEAN /\ loop.plan \in Points
           /\ loop.todo \in Seq(Points)
           /\ loop.todo # <<>> => Head(loop.todo) \in Points
           /\ query.at \in {"none", "asked", "answered"}
           /\ query.at = "answered" => query.pos \in Points /\ query.state \in States /\ query.old \in Nat
           /\ EndOf(mach.pos, mach.queue) \in Points
<1>1. /\ mach.pos \in Points /\ mach.queue \in Seq(Moves) /\ mach.refused \in BOOLEAN
  BY DEF TypeOK, Machines
<1>2. /\ sess.planned \in Points /\ sess.st \in Samples /\ sess.lead \in Nat
      /\ sess.armed \in BOOLEAN /\ sess.after \in BOOLEAN
  BY DEF TypeOK, Sessions
<1>3. sess.st.pos \in Points
  BY <1>2 DEF Samples
<1>4. loop.plan \in Points /\ loop.todo \in Seq(Points)
  BY DEF TypeOK, Loops
<1>5. loop.todo # <<>> => Head(loop.todo) \in Points
  BY <1>4, EmptySeq, HeadTailProperties
<1>6. /\ query.at \in {"none", "asked", "answered"}
      /\ query.at = "answered" => query.pos \in Points /\ query.state \in States /\ query.old \in Nat
  BY DEF TypeOK, Queries
<1>7. EndOf(mach.pos, mach.queue) \in Points
  <2>1. mach.queue # <<>> => mach.queue[Len(mach.queue)] \in Moves
    BY <1>1, EmptySeq, LenProperties, ElementOfSeq
  <2> QED BY <1>1, <2>1 DEF EndOf, Moves
<1> QED BY <1>1, <1>2, <1>3, <1>4, <1>5, <1>6, <1>7

LEMMA StateIs ==
    ASSUME TypeOK
    PROVE  State = "Idle" <=> mach.stop = "no" /\ mach.queue = <<>>
  BY DEF TypeOK, Machines, State

LEMMA TakeLineTyped ==
    ASSUME TypeOK, BaseInv, TakeLine
    PROVE  mach' \in Machines /\ wire' \in Seq(Lines) /\ query' \in Queries
<1> DEFINE l == Head(wire)
<1>1. wire \in Seq(Lines) /\ wire # <<>> /\ l \in Lines /\ wire' = Tail(wire) /\ wire' \in Seq(Lines)
  BY HeadTailProperties, EmptySeq DEF TypeOK, TakeLine
<1>2. mach \in Machines /\ query \in Queries
  BY DEF TypeOK
<1>3. CASE /\ l.op = "jog"
           /\ mach' = [mach EXCEPT !.queue = Append(@,
                 [to |-> LineEnd(EndOf(mach.pos, @), l), left |-> l.dur, dur |-> l.dur])]
           /\ UNCHANGED query
  <2> DEFINE m == [to |-> LineEnd(EndOf(mach.pos, mach.queue), l), left |-> l.dur, dur |-> l.dur]
  <2>1. l \in JogLines
    BY <1>1, <1>3, JogLinesAre
  <2>2. LineEnd(EndOf(mach.pos, mach.queue), l) \in Points /\ l.dur \in Nat
    BY <2>1, PartsAre, LineEndTyped DEF JogLines
  <2>3. m \in Moves
    BY <2>2 DEF Moves
  <2>4. mach' = [mach EXCEPT !.queue = Append(mach.queue, m)]
    BY <1>3
  <2> HIDE DEF m
  <2>5. Append(mach.queue, m) \in Seq(Moves)
    BY <2>3, PartsAre, AppendProperties
  <2> QED BY <1>1, <1>2, <1>3, <2>4, <2>5 DEF Machines
<1>4. CASE mach' = [mach EXCEPT !.refused = TRUE] /\ UNCHANGED query
  BY <1>1, <1>2, <1>4 DEF Machines
<1>5. CASE UNCHANGED <<mach, query>>
  BY <1>1, <1>2, <1>5
<1>6. CASE /\ query' = [at |-> "answered", pos |-> Position, state |-> State, old |-> 0]
           /\ UNCHANGED mach
  BY <1>2, PositionTyped, <1>1, <1>6 DEF State, States, Machines, Queries
<1> QED BY <1>3, <1>4, <1>5, <1>6 DEF TakeLine

LEMMA ExecutesTyped ==
    ASSUME TypeOK, BaseInv
    PROVE  Executes \in Machines /\ Executes.refused = mach.refused /\ Executes.stop = mach.stop
<1>1. mach \in Machines /\ mach.queue \in Seq(Moves)
  BY PartsAre DEF TypeOK
<1>2. CASE mach.stop # "no" \/ mach.queue = <<>>
  BY <1>1, <1>2 DEF Executes
<1>3. CASE mach.stop = "no" /\ mach.queue # <<>> /\ Head(mach.queue).left > 1
  <2> DEFINE q == [mach.queue EXCEPT ![1] = Worked(@)]
  <2>1. Executes = [mach EXCEPT !.queue = q]
    BY <1>3 DEF Executes, Worked
  <2>2. Head(mach.queue) = mach.queue[1] /\ Head(mach.queue) \in Moves
    BY <1>1, <1>3, EmptySeq, HeadTailProperties
  <2>3. mach.queue[1].left > 0
    BY <1>3, <2>2 DEF Moves
  <2>4. q \in Seq(Moves)
    BY <1>1, <1>3, <2>3, QueueTimePasses
  <2> HIDE DEF q
  <2> QED BY <1>1, <2>1, <2>4 DEF Machines
<1>4. CASE mach.stop = "no" /\ mach.queue # <<>> /\ ~(Head(mach.queue).left > 1)
  <2>1. Executes = [mach EXCEPT !.pos = Head(mach.queue).to, !.queue = Tail(mach.queue)]
    BY <1>4 DEF Executes
  <2>2. Head(mach.queue) \in Moves /\ Tail(mach.queue) \in Seq(Moves)
    BY <1>1, <1>4, EmptySeq, HeadTailProperties
  <2>3. Head(mach.queue).to \in Points
    BY <2>2 DEF Moves
  <2> QED BY <1>1, <2>1, <2>2, <2>3 DEF Machines
<1> QED BY <1>2, <1>3, <1>4

\* How a session ages in a unit of time
Aged ==
    [sess EXCEPT !.lead = Less(@), !.wait = FALSE, !.age = Min2(@ + 1, MaxAge + 1),
                 !.pending = Awaited(@)]

SameLoop == loop'.at = loop.at /\ loop'.kind = loop.kind /\ loop'.plan = loop.plan /\ loop'.todo = loop.todo
            /\ loop'.basis = loop.basis

\* The loop stays where it is while time passes.
LEMMA PassLoop ==
    ASSUME TypeOK, BaseInv, NEW stalls \in BOOLEAN, Pass(stalls)
    PROVE  /\ loop' \in Loops /\ SameLoop
           /\ loop.kind # "tick" => Here.slow
           /\ loop.kind = "tick" => loop' = loop
           /\ Tracked \/ Paced => loop' = loop
<1> DEFINE n == Max2(loop.due - 1, -MaxLate)
<1>1. loop' = IF loop.kind = "tick" THEN loop ELSE [loop EXCEPT !.due = n]
  BY DEF Pass
<1>2. loop \in Loops /\ n \in Int
  BY TimeAssumption DEF TypeOK, Loops, Max2
<1>3. loop.kind # "tick" => Here.slow
  BY DEF Pass, BaseInv, DueInv
<1>4. ~Here.steps /\ ~Here.targets => loop.kind = "tick"
  BY DEF BaseInv, LeaseInv, DueInv
<1> HIDE DEF n
<1>5. loop' \in Loops /\ SameLoop
  BY <1>1, <1>2 DEF Loops, SameLoop
<1> QED BY <1>1, <1>3, <1>4, <1>5 DEF Tracked, Sticks, Prompt, Paced

LEMMA PassTyped ==
    ASSUME TypeOK, BaseInv, NEW stalls \in BOOLEAN, Pass(stalls)
    PROVE  mach' \in Machines /\ query' \in Queries /\ sess' \in Sessions /\ loop' \in Loops
<1>1. mach \in Machines /\ query \in Queries /\ sess \in Sessions
  BY DEF TypeOK
<1>2. mach' \in Machines
  BY <1>1, ExecutesTyped DEF Pass
<1>3. query' \in Queries
  <2>1. CASE query.at = "answered"
    BY <1>1, <2>1 DEF Queries, Pass
  <2>2. CASE query.at # "answered"
    BY <1>1, <2>2 DEF Pass
  <2> QED BY <2>1, <2>2
<1>4. Aged \in Sessions
  <2> DEFINE Pending == [target : Points, verify : Int]
  <2>1. sess.lead \in Nat /\ sess.age \in 0 .. MaxAge + 1 /\ sess.pending \in Seq(Pending)
    BY <1>1 DEF Sessions
  <2>2. Less(sess.lead) \in Nat
    BY <2>1 DEF Less
  <2>3. Min2(sess.age + 1, MaxAge + 1) \in 0 .. MaxAge + 1
    BY <2>1, TimeAssumption DEF Min2
  <2>4. Awaited(sess.pending) \in Seq(Pending)
    <3>1. CASE sess.pending = Nothing
      BY <2>1, <3>1 DEF Awaited
    <3>2. CASE sess.pending # Nothing
      <4> DEFINE v == Max2(sess.pending[1].verify - 1, -QueryTimeout)
      <4>1. sess.pending[1] \in Pending
        <5> HIDE DEF Pending
        <5>1. sess.pending # << >>
          BY <3>2 DEF Nothing
        <5>2. Head(sess.pending) \in Pending /\ Head(sess.pending) = sess.pending[1]
          BY <2>1, <5>1, EmptySeq, HeadTailProperties
        <5> QED BY <5>2
      <4>2. v \in Int
        BY <4>1, TimeAssumption DEF Max2
      <4>3. [sess.pending[1] EXCEPT !.verify = v] \in Pending
        BY <4>1, <4>2
      <4>4. Awaited(sess.pending) = <<[sess.pending[1] EXCEPT !.verify = v]>>
        BY <3>2 DEF Awaited
      <4> HIDE DEF v, Pending
      <4> QED BY <4>3, <4>4
    <3> QED BY <3>1, <3>2
  <2>6. Aged = [sess EXCEPT !.lead = Less(sess.lead), !.wait = FALSE,
                            !.age = Min2(sess.age + 1, MaxAge + 1), !.pending = Awaited(sess.pending)]
    BY DEF Aged
  <2> QED BY <1>1, <2>2, <2>3, <2>4, <2>6 DEF Sessions
<1>5. sess' = IF sess.armed THEN Aged ELSE sess
  BY DEF Pass, Aged
<1> QED BY <1>1, <1>2, <1>3, <1>4, <1>5, PassLoop

LEMMA PendingTyped ==
    ASSUME TypeOK, sess.pending # Nothing
    PROVE  sess.pending[1].target \in Points
<1> DEFINE Pending == [target : Points, verify : Int]
<1>1. sess.pending \in Seq(Pending) /\ sess.pending # << >>
  BY DEF TypeOK, Sessions, Nothing
<1>2. sess.pending[1] \in Pending
  <2> HIDE DEF Pending
  <2>1. Head(sess.pending) \in Pending /\ Head(sess.pending) = sess.pending[1]
    BY <1>1, EmptySeq, HeadTailProperties
  <2> QED BY <2>1
<1> QED BY <1>2

LEMMA EndTargetTyped ==
    ASSUME TypeOK, sess.pending # Nothing, NEW s \in Sessions, s.pending = sess.pending,
           NEW what \in {"complete", "short"}, NEW p \in Points
    PROVE  EndTarget(s, what, p) \in Sessions
<1> DEFINE Pending == [target : Points, verify : Int]
<1> DEFINE Done == [what : {"complete", "short"}, target : Points]
<1>1. s.pending[1].target \in Points
  BY PendingTyped
<1> DEFINE d == [what |-> what, target |-> s.pending[1].target]
<1>2. <<d>> \in Seq(Done)
  <2>1. d \in Done
    BY <1>1
  <2> HIDE DEF d, Done
  <2> QED BY <2>1
<1>3. Nothing \in Seq(Pending)
  BY DEF Nothing
<1> DEFINE e == [s EXCEPT !.done = <<d>>, !.pending = Nothing]
<1>4. EndTarget(s, what, p) = [e EXCEPT !.planned = p, !.lead = 0, !.after = TRUE]
  BY DEF EndTarget
<1> HIDE DEF d
<1>5. e \in Sessions
  BY <1>2, <1>3 DEF Sessions
<1> HIDE DEF e
<1>6. [e EXCEPT !.planned = p, !.lead = 0, !.after = TRUE] \in Sessions
  BY <1>5 DEF Sessions
<1> QED BY <1>4, <1>6

\* What a session makes of a status
Sample == [pos |-> query.pos, state |-> query.state]
Seen == [sess EXCEPT !.st = Sample, !.age = 0, !.retry = FALSE, !.after = (sess.lead = 0)]
Ended == AfterTarget(Seen, Sample)
Answered == IF Settled(Ended, Sample) THEN [Ended EXCEPT !.planned = Sample.pos] ELSE Ended

LEMMA AnsweredTyped ==
    ASSUME TypeOK, query.at = "answered"
    PROVE  Answered \in Sessions /\ Ended \in Sessions /\ Seen \in Sessions /\ Sample \in Samples
<1>1. sess \in Sessions /\ Sample \in Samples /\ Sample.pos \in Points /\ 0 \in 0 .. MaxAge + 1
  BY PartsAre, TimeAssumption DEF TypeOK, Sample, Samples
<1>2. Seen \in Sessions /\ Seen.pending = sess.pending
  BY <1>1 DEF Seen, Sessions
<1>3. Ended \in Sessions
  <2>1. CASE sess.pending = Nothing
    BY <1>2, <2>1 DEF Ended, AfterTarget
  <2>2. CASE sess.pending # Nothing
    BY <1>1, <1>2, <2>2, EndTargetTyped DEF Ended, AfterTarget
  <2> QED BY <2>1, <2>2
<1>4. [Ended EXCEPT !.planned = Sample.pos] \in Sessions
  BY <1>1, <1>3 DEF Sessions
<1> QED BY <1>1, <1>2, <1>3, <1>4 DEF Answered

LEMMA TakeStatusIs ==
    ASSUME TypeOK, TakeStatus
    PROVE  /\ loop.at = "loop" /\ query.at = "answered" /\ sess.armed
           /\ UNCHANGED <<scene, capture, captured, stale, acts>>
           /\ \/ /\ canContinueJog(Sample.state)
                 /\ sess' = Answered /\ query' = NoQuery
                 /\ mach' = [mach EXCEPT !.refused = @ /\ ~Settled(Ended, Sample)]
                 /\ UNCHANGED <<wire, loop, input>>
              \/ Release /\ UNCHANGED mach
  BY DEF TakeStatus, Sample, Seen, Ended, Answered

LEMMA TakeStatusTyped ==
    ASSUME TypeOK, TakeStatus
    PROVE  /\ mach' \in Machines /\ wire' \in Seq(Lines) /\ query' \in Queries
           /\ sess' \in Sessions /\ loop' \in Loops /\ input' \in Inputs
<1>1. /\ mach \in Machines /\ wire \in Seq(Lines) /\ loop \in Loops /\ input \in Inputs
  BY DEF TypeOK
<1>2. CASE /\ sess' = Answered /\ query' = NoQuery
           /\ mach' = [mach EXCEPT !.refused = @ /\ ~Settled(Ended, Sample)]
           /\ UNCHANGED <<wire, loop, input>>
  BY <1>2, TakeStatusIs, AnsweredTyped, DisarmedTyped, <1>1 DEF Machines
<1>3. CASE Release /\ UNCHANGED mach
  BY <1>1, <1>3, ReleaseTyped
<1> QED BY <1>2, <1>3, TakeStatusIs

LEMMA CommittedTyped ==
    ASSUME TypeOK, BaseInv, Writing
    PROVE  /\ Head(loop.todo) \in Points /\ Tail(loop.todo) \in Seq(Points)
           /\ moveDuration(axesDelta(loop.plan, Head(loop.todo))) \in Nat \ {0}
           /\ Committed \in Sessions /\ QueuedUntil \in Int
           /\ loop.kind = "tick" \/ ~Here.slow =>
                Committed.lead = sess.lead + moveDuration(axesDelta(loop.plan, Head(loop.todo)))
           /\ Committed.planned = Head(loop.todo) /\ Committed.armed = sess.armed
           /\ ~Committed.after /\ Committed.st = sess.st /\ Committed.pending = sess.pending
           /\ Committed.done = Nothing
<1>1. loop.todo \in Seq(Points) /\ loop.todo # <<>> /\ loop.plan \in Points
  BY PartsAre DEF BaseInv, LeaseInv
<1>2. Head(loop.todo) \in Points /\ Tail(loop.todo) \in Seq(Points)
  BY <1>1, EmptySeq, HeadTailProperties
<1> DEFINE d == moveDuration(axesDelta(loop.plan, Head(loop.todo)))
<1>3. d \in Nat \ {0}
  BY <1>1, <1>2, PointsAre
<1> DEFINE n == Max2(0, QueuedUntil)
<1>4. Committed = [sess EXCEPT !.planned = Head(loop.todo), !.after = FALSE, !.done = Nothing,
                               !.lead = n]
  BY DEF Committed
<1>9. QueuedUntil = (IF loop.kind = "tick" THEN sess.lead ELSE loop.due) + d
  BY DEF QueuedUntil
<1> HIDE DEF d
<1>10. sess \in Sessions /\ sess.lead \in Nat /\ loop.due \in Int
  BY PartsAre DEF TypeOK, Loops
<1>5. QueuedUntil \in Int /\ n \in Nat
  BY <1>3, <1>9, <1>10 DEF Max2
<1>11. loop.kind = "tick" \/ ~Here.slow => n = sess.lead + d
  BY <1>3, <1>9, <1>10 DEF Max2, BaseInv, DueInv
<1> HIDE DEF n
<1>6. Nothing \in Seq([what : {"complete", "short"}, target : Points])
  BY DEF Nothing
<1>7. Committed \in Sessions
  BY <1>2, <1>4, <1>5, <1>6, <1>10 DEF Sessions
<1>8. /\ Committed.lead = n
      /\ Committed.planned = Head(loop.todo) /\ Committed.armed = sess.armed
      /\ ~Committed.after /\ Committed.st = sess.st /\ Committed.pending = sess.pending
      /\ Committed.done = Nothing
  BY <1>4, <1>10 DEF Sessions
<1> QED BY <1>2, <1>3, <1>5, <1>7, <1>8, <1>11 DEF d

LEMMA SendLineTyped ==
    ASSUME TypeOK, BaseInv, SendLine
    PROVE  /\ jogCommand(loop.plan, Head(loop.todo),
                         moveDuration(axesDelta(loop.plan, Head(loop.todo)))) \in JogLines
           /\ wire' = Append(wire, jogCommand(loop.plan, Head(loop.todo),
                                moveDuration(axesDelta(loop.plan, Head(loop.todo)))))
           /\ wire' \in Seq(Lines) /\ loop' \in Loops /\ captured' \in Seq(Points) /\ stale' \in Nat
<1> DEFINE l == jogCommand(loop.plan, Head(loop.todo), moveDuration(axesDelta(loop.plan, Head(loop.todo))))
<1>1. loop.at = "write" /\ wire' = Append(wire, l)
  BY DEF SendLine
<1>2. Head(loop.todo) \in Points /\ moveDuration(axesDelta(loop.plan, Head(loop.todo))) \in Nat
      /\ loop.plan \in Points
  BY <1>1, CommittedTyped, PartsAre DEF Writing
<1>3. l \in JogLines
  BY <1>2, PointsAre DEF jogCommand, JogLines
<1>4. l \in Lines
  BY <1>3 DEF Lines
<1> HIDE DEF l
<1>5. wire' \in Seq(Lines)
  BY <1>1, <1>4, AppendProperties DEF TypeOK
<1>6. loop' \in Loops
  BY DEF SendLine, TypeOK, Loops
<1>7. captured' \in Seq(Points) /\ stale' \in Nat
  BY DEF SendLine, TypeOK, Nothing
<1> QED BY <1>1, <1>3, <1>5, <1>6, <1>7 DEF l

LEMMA WriteReturnsTyped ==
    ASSUME TypeOK, BaseInv, WriteReturns
    PROVE  /\ sess' \in Sessions /\ loop' \in Loops /\ wire' \in Seq(Lines)
           /\ query' \in Queries /\ input' \in Inputs
<1> DEFINE next == [loop EXCEPT !.plan = Head(loop.todo), !.todo = Tail(loop.todo),
                                !.sent = (@ + 1) % (MaxPerTick + 1)]
<1>1. loop.at = "sent" /\ loop \in Loops /\ wire \in Seq(Lines) /\ query \in Queries /\ input \in Inputs
  BY DEF WriteReturns, TypeOK
<1>2. Head(loop.todo) \in Points /\ Tail(loop.todo) \in Seq(Points) /\ Committed \in Sessions
      /\ QueuedUntil \in Int
  BY <1>1, CommittedTyped DEF Writing
<1>3. next \in Loops
  <2>1. (loop.sent + 1) % (MaxPerTick + 1) \in 0 .. MaxPerTick
    BY <1>1, TimeAssumption DEF Loops
  <2> QED BY <1>1, <1>2, <2>1 DEF Loops
<1> HIDE DEF next
<1>4. [next EXCEPT !.at = "admit"] \in Loops /\ AtLoop \in Loops
  BY <1>3, DisarmedTyped DEF Loops
<1>5. [next EXCEPT !.at = "write", !.sent = 0, !.due = QueuedUntil] \in Loops
  <2>1. 0 \in 0 .. MaxPerTick
    BY TimeAssumption
  <2> QED BY <1>2, <1>3, <2>1 DEF Loops
<1>6. CASE /\ sess' = Committed
           /\ loop' \in {[next EXCEPT !.at = "admit"], AtLoop, [next EXCEPT !.at = "write", !.sent = 0, !.due = QueuedUntil]}
           /\ UNCHANGED <<wire, query, input>>
  BY <1>1, <1>2, <1>4, <1>5, <1>6
<1>7. CASE /\ sess' = [Committed EXCEPT !.pending =
                 <<[target |-> Head(loop.todo), verify |-> QueuedUntil + Grace]>>]
           /\ loop' = AtLoop /\ input' = 0 /\ RequestStatus
  <2> DEFINE Pending == [target : Points, verify : Int]
  <2> DEFINE p == [target |-> Head(loop.todo), verify |-> QueuedUntil + Grace]
  <2>1. p \in Pending
    BY <1>2, TimeAssumption DEF Sessions
  <2>2. sess' = [Committed EXCEPT !.pending = <<p>>]
    BY <1>7
  <2>3. <<p>> \in Seq(Pending)
    <3> HIDE DEF p, Pending
    <3> QED BY <2>1
  <2> HIDE DEF p
  <2>4. [Committed EXCEPT !.pending = <<p>>] \in Sessions
    BY <1>2, <2>3 DEF Sessions
  <2>5. 0 \in Inputs
    BY DEF Inputs
  <2> QED BY <1>4, <1>7, <2>2, <2>4, <2>5, RequestStatusTyped
<1>8. \/ /\ sess' = Committed
         /\ loop' \in {[next EXCEPT !.at = "admit"], AtLoop, [next EXCEPT !.at = "write", !.sent = 0, !.due = QueuedUntil]}
         /\ UNCHANGED <<wire, query, input>>
      \/ /\ sess' = [Committed EXCEPT !.pending =
                 <<[target |-> Head(loop.todo), verify |-> QueuedUntil + Grace]>>]
         /\ loop' = AtLoop /\ input' = 0 /\ RequestStatus
  BY DEF WriteReturns, next
<1> QED BY <1>6, <1>7, <1>8

LEMMA MotionTickTyped ==
    ASSUME TypeOK, MotionTick
    PROVE  query' \in Queries /\ wire' \in Seq(Lines) /\ loop' \in Loops
<1>1. sess.planned \in Points /\ sess.st.pos \in Points /\ input \in Inputs /\ AtLoop \in Loops /\ loop \in Loops
      /\ query \in Queries /\ wire \in Seq(Lines)
  BY PartsAre, DisarmedTyped DEF TypeOK
<1>2. TickAnchor(sess) \in Points
  BY <1>1 DEF TickAnchor
<1>3. [AtLoop EXCEPT !.at = "admit", !.plan = TickAnchor(sess), !.basis = input] \in Loops
  BY <1>1, <1>2 DEF Loops
<1>4. loop' \in Loops
  BY <1>1, <1>3 DEF MotionTick
<1>5. RequestStatus \/ UNCHANGED <<query, wire>>
  BY DEF MotionTick
<1> QED BY <1>1, <1>4, <1>5, RequestStatusTyped

LEMMA AdmitTyped ==
    ASSUME TypeOK, Admit
    PROVE  loop' \in Loops /\ (loop.plan \in Points => NextTarget \in Points)
<1>1. input \in Inputs /\ input \in Int /\ loop.plan \in Points /\ loop \in Loops /\ AtLoop \in Loops
  BY PartsAre, DisarmedTyped, TimeAssumption DEF TypeOK, Inputs
<1>2. NextTarget \in Points
  BY <1>1, PointsAre, ClampTyped DEF NextTarget, Admitted
<1>3. <<NextTarget>> \in Seq(Points)
  BY <1>2
<1>4. [loop EXCEPT !.at = "write", !.todo = <<NextTarget>>, !.basis = input] \in Loops
  BY <1>1, <1>3 DEF Loops
<1> QED BY <1>1, <1>2, <1>4 DEF Admit, Admitted

LEMMA TargetTickTyped ==
    ASSUME TypeOK, TargetTick
    PROVE  /\ mach' \in Machines /\ wire' \in Seq(Lines) /\ query' \in Queries
           /\ sess' \in Sessions /\ loop' \in Loops /\ input' \in Inputs
<1>1. /\ mach \in Machines /\ wire \in Seq(Lines) /\ query \in Queries /\ loop \in Loops /\ input \in Inputs
      /\ sess \in Sessions /\ sess.st.pos \in Points /\ sess.pending # Nothing
  BY PartsAre DEF TypeOK, TargetTick
<1>2. EndTarget(sess, "short", sess.st.pos) \in Sessions
  BY <1>1, EndTargetTyped
<1>3. [mach EXCEPT !.refused = FALSE] \in Machines
  BY <1>1 DEF Machines
<1> QED BY <1>1, <1>2, <1>3, ReleaseTyped DEF TargetTick

LEMMA LegsTyped ==
    ASSUME TypeOK, NEW from \in Points, NEW to \in Points, NEW z
    PROVE  Legs(from, to, z) \in Seq(Points)
<1> DEFINE lifts == Here.safe /\ from["x"] # to["x"]
<1> DEFINE up == IF lifts THEN [from EXCEPT !["z"] = Max2(@, Min2(SafeZ, ZMax))] ELSE from
<1> DEFINE across == IF lifts THEN [up EXCEPT !["x"] = to["x"]] ELSE from
<1> DEFINE last == [across EXCEPT !["x"] = to["x"], !["z"] = IF z = Nothing THEN @ ELSE to["z"]]
<1>1. from["x"] \in Int /\ from["z"] \in Int /\ to["x"] \in Int /\ to["z"] \in Int
  BY PointsAre DEF Axes
<1>2. ASSUME NEW p \in Points, NEW a \in Axes, NEW n \in Int PROVE [p EXCEPT ![a] = n] \in Points
  BY DEF Points
<1>3. up \in Points
  BY <1>1, TimeAssumption, <1>2 DEF Max2, Min2, Axes
<1>4. across \in Points
  <2>1. "x" \in Axes
    BY DEF Axes
  <2> HIDE DEF up
  <2> QED BY <1>1, <1>2, <1>3, <2>1
<1>5. last \in Points
  <2> HIDE DEF across
  <2> DEFINE l == [across EXCEPT !["x"] = to["x"]]
  <2>1. "x" \in Axes /\ "z" \in Axes
    BY DEF Axes
  <2>2. l \in Points
    BY <1>1, <1>2, <1>4, <2>1
  <2>3. l["z"] \in Int
    BY <2>1, <2>2, PointsAre
  <2>4. last = [l EXCEPT !["z"] = IF z = Nothing THEN l["z"] ELSE to["z"]]
    OBVIOUS
  <2> HIDE DEF l
  <2> QED BY <1>1, <1>2, <2>1, <2>2, <2>3, <2>4
<1> HIDE DEF up, across, last
<1>6. ASSUME NEW p \in Points, NEW q \in Points PROVE Leg(p, q) \in Seq(Points)
  BY DEF Leg
<1>7. Leg(from, up) \in Seq(Points) /\ Leg(up, across) \in Seq(Points) /\ Leg(across, last) \in Seq(Points)
  BY <1>3, <1>4, <1>5, <1>6
<1>8. Leg(from, up) \o Leg(up, across) \o Leg(across, last) \in Seq(Points)
  BY <1>7, ConcatProperties
<1> QED BY <1>8 DEF Legs, up, across, last

LEMMA StepTyped ==
    ASSUME TypeOK, NEW d \in Inputs \ {0}, Step(d)
    PROVE  loop' \in Loops /\ query' \in Queries /\ wire' \in Seq(Lines)
<1>1. query \in Queries /\ wire \in Seq(Lines) /\ loop \in Loops /\ AtLoop \in Loops /\ d \in Int
  BY DisarmedTyped, TimeAssumption DEF TypeOK, Inputs
<1> DEFINE to == clampJogTarget(CommandAnchor, Sum(CommandAnchor, MotionDelta(d)))
<1>2. CommandAnchor \in Points
  BY PartsAre DEF CommandAnchor
<1>3. to \in Points
  BY <1>1, <1>2, PointsAre, ClampTyped
<1>4. \/ RequestStatus /\ UNCHANGED loop
      \/ /\ loop' = [AtLoop EXCEPT !.at = "write", !.kind = "step",
                                   !.plan = CommandAnchor, !.todo = <<to>>, !.due = sess.lead]
         /\ UNCHANGED <<query, wire>>
  BY DEF Step
<1> HIDE DEF to
<1>5. <<to>> \in Seq(Points)
  BY <1>3
<1>6. [AtLoop EXCEPT !.at = "write", !.kind = "step", !.plan = CommandAnchor, !.todo = <<to>>, !.due = sess.lead] \in Loops
  <2>1. sess.lead \in Int
    BY PartsAre
  <2> QED BY <1>1, <1>2, <1>5, <2>1 DEF Loops
<1> QED BY <1>1, <1>4, <1>6, RequestStatusTyped

LEMMA TargetTyped ==
    ASSUME TypeOK, NEW x \in 0 .. Here.xmax + 1,
           NEW z \in {Nothing} \cup {<<n>> : n \in 0 .. ZMax}, Target(x, z)
    PROVE  loop' \in Loops /\ query' \in Queries /\ wire' \in Seq(Lines)
<1>1. query \in Queries /\ wire \in Seq(Lines) /\ loop \in Loops /\ AtLoop \in Loops /\ x \in Int
  BY DisarmedTyped, SceneIs DEF TypeOK
<1> DEFINE from == CommandAnchor
<1> DEFINE there == [a \in Axes |-> IF a = "x" THEN x ELSE IF z = Nothing THEN from[a] ELSE z[1]]
<1> DEFINE legs == Legs(from, clampJogTarget(from, there), z)
<1>2. from \in Points
  BY PartsAre DEF CommandAnchor
<1>3. z # Nothing => z[1] \in Int
  BY TimeAssumption
<1>4. there \in Points
  <2> HIDE DEF from
  <2>1. \A a \in Axes : from[a] \in Int
    BY <1>2, PointsAre
  <2> QED BY <1>1, <1>3, <2>1 DEF Points
<1>5. legs \in Seq(Points)
  <2> HIDE DEF from, there
  <2> QED BY <1>2, <1>4, ClampTyped, LegsTyped
<1>6. \/ RequestStatus /\ UNCHANGED loop
      \/ /\ loop' = [AtLoop EXCEPT !.at = "write", !.kind = "target", !.plan = from, !.todo = legs, !.due = sess.lead]
         /\ UNCHANGED <<query, wire>>
  BY DEF Target
<1> HIDE DEF from, legs
<1>7. [AtLoop EXCEPT !.at = "write", !.kind = "target", !.plan = from, !.todo = legs, !.due = sess.lead] \in Loops
  <2>1. sess.lead \in Int
    BY PartsAre
  <2> QED BY <1>1, <1>2, <1>5, <2>1 DEF Loops
<1> QED BY <1>1, <1>6, <1>7, RequestStatusTyped

LEMMA SetOriginTyped ==
    ASSUME TypeOK, SetOrigin
    PROVE  /\ [op |-> "ask"] \in Lines /\ [op |-> "origin", seen |-> sess.st.pos] \in Lines
           /\ wire' \in {Append(wire, [op |-> "ask"]),
                         Append(Append(wire, [op |-> "origin", seen |-> sess.st.pos]), [op |-> "ask"])}
           /\ query' \in Queries /\ wire' \in Seq(Lines)
<1>1. wire \in Seq(Lines) /\ sess.st.pos \in Points /\ [at |-> "asked"] \in Queries
  BY PartsAre DEF TypeOK, Queries
<1> DEFINE ask == [op |-> "ask"]
<1> DEFINE zero == [op |-> "origin", seen |-> sess.st.pos]
<1>2. ask \in Lines /\ zero \in Lines
  BY <1>1 DEF Lines
<1>3. query' = [at |-> "asked"] /\ (wire' = wire \o <<zero, ask>> \/ wire' = Append(wire, ask))
  BY DEF SetOrigin
<1> HIDE DEF ask, zero
<1>4. wire \o <<zero, ask>> = Append(Append(wire, zero), ask)
  BY <1>1, <1>2
<1>5. Append(wire, ask) \in Seq(Lines) /\ Append(Append(wire, zero), ask) \in Seq(Lines)
  BY <1>1, <1>2, AppendProperties
<1> QED BY <1>1, <1>2, <1>3, <1>4, <1>5 DEF ask, zero

LEMMA ArmTyped ==
    ASSUME TypeOK, Arm
    PROVE  /\ sess' \in Sessions /\ mach' \in Machines /\ input' \in Inputs /\ captured' \in Seq(Points)
           /\ sess'.planned = mach.pos /\ sess'.st.pos = mach.pos /\ sess'.lead = 0 /\ sess'.armed
           /\ sess'.st.state = "Idle" /\ sess'.pending = Nothing
           /\ sess'.done = Nothing
<1>1. mach \in Machines /\ mach.pos \in Points /\ Disarmed \in Sessions /\ Disarmed.lead = 0
      /\ Disarmed.pending = Nothing /\ Disarmed.done = Nothing
  BY PartsAre, DisarmedTyped DEF TypeOK
<1> DEFINE here == [pos |-> mach.pos, state |-> "Idle"]
<1>2. here \in Samples /\ here.pos = mach.pos /\ here.state = "Idle"
  BY <1>1 DEF Samples, States
<1>3. sess' = [Disarmed EXCEPT !.armed = TRUE, !.planned = mach.pos, !.st = here]
  BY DEF Arm
<1> HIDE DEF here
<1>4. /\ sess' \in Sessions /\ sess'.planned = mach.pos /\ sess'.st = here /\ sess'.lead = 0 /\ sess'.armed
      /\ sess'.pending = Nothing /\ sess'.done = Nothing
  BY <1>1, <1>2, <1>3 DEF Sessions
<1>5. mach' \in Machines
  BY <1>1 DEF Arm, Machines
<1>6. input' \in Inputs /\ captured' \in Seq(Points)
  BY DEF Arm, Inputs, Nothing
<1> QED BY <1>2, <1>4, <1>5, <1>6

LEMMA StopsTyped ==
    ASSUME TypeOK, BaseInv, NEW why \in {"Hold", "Alarm"}, Stops(why)
    PROVE  mach' \in Machines /\ captured' \in Seq(Points)
<1>1. mach \in Machines /\ Position \in Points
  BY PositionTyped DEF TypeOK
<1> DEFINE q == IF why = "Alarm" THEN <<>> ELSE mach.queue
<1> DEFINE p == IF why = "Alarm" THEN Position ELSE mach.pos
<1>2. q \in Seq(Moves) /\ p \in Points
  BY <1>1, PartsAre
<1>3. mach' = [mach EXCEPT !.stop = why, !.refused = mach.refused \/ why = "Alarm", !.queue = q, !.pos = p]
  BY DEF Stops
<1>4. captured' \in Seq(Points)
  BY DEF Stops, Nothing
<1> HIDE DEF q, p
<1>5. (mach.refused \/ why = "Alarm") \in BOOLEAN
  BY <1>1 DEF Machines
<1> QED BY <1>1, <1>2, <1>3, <1>4, <1>5 DEF Machines

LEMMA ActTyped ==
    ASSUME TypeOK, Act
    PROVE  acts' \in Nat
  BY DEF TypeOK, Act

LEMMA TypeKept ==
    ASSUME TypeOK, BaseInv, [Next]_vars
    PROVE  TypeOK'
<1> USE DEF TypeOK
<1>1. CASE TakeLine
  BY <1>1, TakeLineTyped DEF TakeLine
<1>2. ASSUME NEW why \in {"Hold", "Alarm"}, Stops(why) PROVE TypeOK'
  BY <1>2, StopsTyped, ActTyped DEF Stops
<1>3. CASE Recovers
  BY <1>3 DEF Recovers, Machines
<1>4. ASSUME NEW stalls \in BOOLEAN, Pass(stalls) PROVE TypeOK'
  BY <1>4, PassTyped DEF Pass
<1>5. CASE Arm
  BY <1>5, ArmTyped DEF Arm, Act
<1>6. CASE Disarm
  BY <1>6, ReleaseTyped DEF Disarm, Act
<1>7. ASSUME NEW in \in Here.inputs, SetInput(in) PROVE TypeOK'
  BY <1>7, SceneIs DEF SetInput, Act
<1>8. CASE CapturePosition
  <2>1. 0 \in Inputs /\ <<sess.planned>> \in Seq(Points)
    BY PartsAre DEF Inputs
  <2>2. acts' \in Nat /\ UNCHANGED <<scene, mach, wire, query, sess, loop>>
    BY <1>8, ActTyped DEF CapturePosition
  <2>3. input' = 0 /\ stale' \in {stale, 0}
    BY <1>8 DEF CapturePosition
  <2>4. \/ capture' = TRUE /\ UNCHANGED captured
        \/ captured' = <<sess.planned>> /\ UNCHANGED capture
    BY <1>8 DEF CapturePosition
  <2>5. capture' \in BOOLEAN
    BY <2>4
  <2>6. captured' \in Seq(Points)
    BY <2>1, <2>4
  <2> QED BY <2>1, <2>2, <2>3, <2>5, <2>6
<1>9. CASE CaptureEnds
  <2>1. <<sess.planned>> \in Seq(Points)
    BY PartsAre
  <2> QED BY <1>9, <2>1 DEF CaptureEnds
<1>10. CASE StatusTick
  BY <1>10, RequestStatusTyped DEF StatusTick
<1>11. CASE TakeStatus
  BY <1>11, TakeStatusTyped DEF TakeStatus
<1>12. CASE StatusFails
  <2>1. [sess EXCEPT !.retry = TRUE, !.wait = TRUE] \in Sessions
    BY DEF Sessions
  <2> QED BY <1>12, <2>1, ReleaseTyped, DisarmedTyped, ForgottenIs DEF StatusFails
<1>13. CASE SendLine
  BY <1>13, SendLineTyped DEF SendLine
<1>14. CASE WriteReturns
  BY <1>14, WriteReturnsTyped DEF WriteReturns
<1>15. CASE WriteFails
  BY <1>15, ReleaseTyped DEF WriteFails
<1>16. CASE MotionTick
  BY <1>16, MotionTickTyped DEF MotionTick
<1>17. CASE Admit
  BY <1>17, AdmitTyped DEF Admit
<1>18. CASE TargetTick
  BY <1>18, TargetTickTyped DEF TargetTick
<1>19. CASE TargetRetry
  BY <1>19, RequestStatusTyped DEF TargetRetry
<1>20. ASSUME NEW d \in Inputs \ {0}, Step(d) PROVE TypeOK'
  BY <1>20, StepTyped, ActTyped DEF Step
<1>21. ASSUME NEW x \in 0 .. Here.xmax + 1, NEW z \in {Nothing} \cup {<<n>> : n \in 0 .. ZMax}, Target(x, z)
       PROVE  TypeOK'
  BY <1>21, TargetTyped, ActTyped DEF Target
<1>22. CASE SetOrigin
  BY <1>22, SetOriginTyped DEF SetOrigin, Act
<1>23. CASE UNCHANGED vars
  BY <1>23 DEF vars
<1> QED BY <1>1, <1>2, <1>3, <1>4, <1>5, <1>6, <1>7, <1>8, <1>9, <1>10, <1>11, <1>12, <1>13, <1>14,
           <1>15, <1>16, <1>17, <1>18, <1>19, <1>20, <1>21, <1>22, <1>23 DEF Next

-----------------------------------------------------------------------------
(* The machine and the wire.                                                *)

\* What a step does to the lines written
LEMMA WireWays ==
    ASSUME TypeOK, BaseInv, [Next]_vars
    PROVE  \/ wire' = wire
           \/ wire' = Append(wire, [op |-> "ask"])
           \/ wire' = Forgotten(wire)
           \/ TakeLine
           \/ SendLine
           \/ SetOrigin
<1>1. RequestStatus => wire' = Append(wire, [op |-> "ask"])
  BY DEF RequestStatus
<1>2. Release => wire' = Forgotten(wire)
  BY DEF Release
<1>3. ASSUME NEW why \in {"Hold", "Alarm"}, Stops(why) PROVE wire' = wire
  BY <1>3 DEF Stops
<1>4. Recovers => wire' = wire
  BY DEF Recovers
<1>5. ASSUME NEW stalls \in BOOLEAN, Pass(stalls) PROVE wire' = wire
  BY <1>5 DEF Pass
<1>6. Arm => wire' = wire
  BY DEF Arm
<1>7. Disarm => wire' = Forgotten(wire)
  BY <1>2 DEF Disarm
<1>8. ASSUME NEW in \in Here.inputs, SetInput(in) PROVE wire' = wire
  BY <1>8 DEF SetInput
<1>9. CapturePosition \/ CaptureEnds \/ Admit => wire' = wire
  BY DEF CapturePosition, CaptureEnds, Admit
<1>10. StatusTick \/ TargetRetry => wire' = Append(wire, [op |-> "ask"])
  BY <1>1 DEF StatusTick, TargetRetry
<1>11. TakeStatus \/ TargetTick => wire' = wire \/ wire' = Forgotten(wire)
  BY <1>2 DEF TakeStatus, TargetTick
<1>12. StatusFails \/ WriteFails => wire' = Forgotten(wire)
  BY <1>2 DEF StatusFails, WriteFails
<1>13. WriteReturns \/ MotionTick => wire' = wire \/ wire' = Append(wire, [op |-> "ask"])
  BY <1>1 DEF WriteReturns, MotionTick
<1>14. ASSUME NEW d \in Inputs \ {0}, Step(d) PROVE wire' = wire \/ wire' = Append(wire, [op |-> "ask"])
  BY <1>1, <1>14 DEF Step
<1>15. ASSUME NEW x \in 0 .. Here.xmax + 1, NEW z \in {Nothing} \cup {<<n>> : n \in 0 .. ZMax}, Target(x, z)
       PROVE  wire' = wire \/ wire' = Append(wire, [op |-> "ask"])
  BY <1>1, <1>15 DEF Target
<1>16. UNCHANGED vars => wire' = wire
  BY DEF vars
<1> QED BY <1>3, <1>4, <1>5, <1>6, <1>7, <1>8, <1>9, <1>10, <1>11, <1>12, <1>13, <1>14, <1>15, <1>16 DEF Next

\* What a step does to the machine
SameMotion == mach'.pos = mach.pos /\ mach'.queue = mach.queue

LEMMA MachineWays ==
    ASSUME TypeOK, BaseInv, [Next]_vars
    PROVE  \/ SameMotion
           \/ TakeLine /\ wire[1].op = "jog" /\ wire # <<>>
           \/ \E why \in {"Hold", "Alarm"} : Stops(why)
           \/ \E stalls \in BOOLEAN : Pass(stalls)
<1>1. mach \in Machines
  BY DEF TypeOK
<1>2. ASSUME NEW b \in BOOLEAN, mach' = [mach EXCEPT !.refused = b] PROVE SameMotion
  BY <1>1, <1>2 DEF SameMotion, Machines
<1>3. TakeLine => UNCHANGED mach \/ (wire[1].op = "jog" /\ wire # <<>>)
  BY DEF TakeLine
<1>4. Recovers => SameMotion
  BY <1>1 DEF Recovers, SameMotion, Machines
<1>5. Arm => SameMotion
  BY <1>2 DEF Arm
<1>6. TakeStatus => SameMotion
  BY <1>2, TakeStatusIs DEF Settled, SameMotion
<1>7. TargetTick => SameMotion
  BY <1>2 DEF TargetTick, SameMotion
<1>8. mach' = mach => SameMotion
  BY DEF SameMotion
<1>9. Disarm \/ CapturePosition \/ CaptureEnds \/ StatusTick \/ StatusFails => mach' = mach
  BY DEF Disarm, CapturePosition, CaptureEnds, StatusTick, StatusFails
<1>10. SendLine \/ WriteReturns \/ WriteFails \/ MotionTick \/ Admit \/ TargetRetry \/ SetOrigin => mach' = mach
  BY DEF SendLine, WriteReturns, WriteFails, MotionTick, Admit, TargetRetry, SetOrigin
<1>11. ASSUME NEW in \in Here.inputs, SetInput(in) PROVE mach' = mach
  BY <1>11 DEF SetInput
<1>12. ASSUME NEW d \in Inputs \ {0}, Step(d) PROVE mach' = mach
  BY <1>12 DEF Step
<1>13. ASSUME NEW x \in 0 .. Here.xmax + 1, NEW z \in {Nothing} \cup {<<n>> : n \in 0 .. ZMax}, Target(x, z)
       PROVE  mach' = mach
  BY <1>13 DEF Target
<1>14. UNCHANGED vars => mach' = mach
  BY DEF vars
<1> QED BY <1>3, <1>4, <1>5, <1>6, <1>7, <1>8, <1>9, <1>10, <1>11, <1>12, <1>13, <1>14 DEF Next

LEMMA SceneKept ==
    ASSUME [Next]_vars
    PROVE  scene' = scene
<1>1. ASSUME NEW why \in {"Hold", "Alarm"}, Stops(why) PROVE scene' = scene
  BY <1>1 DEF Stops
<1>2. ASSUME NEW stalls \in BOOLEAN, Pass(stalls) PROVE scene' = scene
  BY <1>2 DEF Pass
<1>3. ASSUME NEW in \in Here.inputs, SetInput(in) PROVE scene' = scene
  BY <1>3 DEF SetInput
<1>4. ASSUME NEW d \in Inputs \ {0}, Step(d) PROVE scene' = scene
  BY <1>4 DEF Step
<1>5. ASSUME NEW x \in 0 .. Here.xmax + 1, NEW z \in {Nothing} \cup {<<n>> : n \in 0 .. ZMax}, Target(x, z)
      PROVE  scene' = scene
  BY <1>5 DEF Target
<1>6. TakeLine \/ Recovers \/ Arm \/ Disarm \/ CapturePosition \/ CaptureEnds \/ StatusTick => scene' = scene
  BY DEF TakeLine, Recovers, Arm, Disarm, CapturePosition, CaptureEnds, StatusTick
<1>7. TakeStatus \/ StatusFails \/ SendLine \/ WriteReturns \/ WriteFails \/ MotionTick => scene' = scene
  BY DEF TakeStatus, StatusFails, SendLine, WriteReturns, WriteFails, MotionTick
<1>8. Admit \/ TargetTick \/ TargetRetry \/ SetOrigin \/ UNCHANGED vars => scene' = scene
  BY DEF Admit, TargetTick, TargetRetry, SetOrigin, vars
<1> QED BY <1>1, <1>2, <1>3, <1>4, <1>5, <1>6, <1>7, <1>8 DEF Next

\* What is the same in every state of a behaviour
LEMMA SceneSays ==
    ASSUME [Next]_vars
    PROVE  /\ Here' = Here /\ Sticks' = Sticks /\ Paced' = Paced
           /\ Prompt' = Prompt /\ Tracked' = Tracked /\ Careful' = Careful
           /\ \A a : LimitOf(a)' = LimitOf(a)
           /\ \A p : Inside(p)' = Inside(p)
<1>1. Here' = Here
  BY SceneKept DEF Here
<1>2. Sticks' = Sticks /\ Paced' = Paced /\ Prompt' = Prompt /\ Careful' = Careful
  BY <1>1 DEF Sticks, Paced, Prompt, Careful
<1>3. \A a : LimitOf(a)' = LimitOf(a)
  BY <1>1 DEF LimitOf
<1>4. \A p : Inside(p)' = Inside(p)
  BY <1>3 DEF Inside
<1> QED BY <1>1, <1>2, <1>3, <1>4 DEF Tracked

LEMMA ExecutesIs ==
    ASSUME TypeOK, BaseInv
    PROVE  \/ Executes = mach /\ (mach.stop # "no" \/ mach.queue = <<>>)
           \/ /\ mach.queue # <<>> /\ mach.stop = "no" /\ mach.queue[1].left > 1
              /\ Executes.pos = mach.pos
              /\ Executes.queue = [mach.queue EXCEPT ![1] = Worked(@)]
           \/ /\ mach.queue # <<>> /\ mach.stop = "no" /\ mach.queue[1].left = 1
              /\ Executes.pos = mach.queue[1].to /\ Executes.queue = Tail(mach.queue)
<1>1. mach \in Machines /\ mach.queue \in Seq(Moves)
  BY PartsAre DEF TypeOK
<1>2. ASSUME mach.stop = "no", mach.queue # <<>>
      PROVE  Head(mach.queue) = mach.queue[1] /\ mach.queue[1].left \in Nat \ {0}
  BY <1>1, <1>2, EmptySeq, HeadTailProperties, LenProperties DEF Moves, BaseInv, QueueTimed
<1>3. CASE mach.stop # "no" \/ mach.queue = <<>>
  BY <1>3 DEF Executes
<1>4. CASE mach.stop = "no" /\ mach.queue # <<>> /\ Head(mach.queue).left > 1
  BY <1>4, <1>1, <1>2 DEF Executes, Worked, Machines
<1>5. CASE mach.stop = "no" /\ mach.queue # <<>> /\ ~(Head(mach.queue).left > 1)
  BY <1>5, <1>2, <1>1 DEF Executes, Machines
<1> QED BY <1>3, <1>4, <1>5

\* The line that TakeLine reads, and what it makes of a jog line
NewMove == [to |-> LineEnd(EndOf(mach.pos, mach.queue), wire[1]), left |-> wire[1].dur, dur |-> wire[1].dur]

LEMMA TakeLineIs ==
    ASSUME TypeOK, TakeLine
    PROVE  /\ wire # <<>> /\ wire \in Seq(Lines) /\ wire[1] \in Lines /\ 1 \in DOMAIN wire
           /\ wire' = Tail(wire) /\ wire' \in Seq(Lines) /\ Len(wire) \in Nat /\ Len(wire') = Len(wire) - 1
           /\ \A i \in DOMAIN wire' : wire'[i] = wire[i + 1] /\ i + 1 \in DOMAIN wire
           /\ UNCHANGED <<scene, sess, loop, input, capture, captured, stale, acts>>
           /\ \/ /\ wire[1] \in JogLines /\ wire[1].op = "jog" /\ NewMove \in Moves
                 /\ mach.stop # "Alarm" /\ ~mach.refused
                 /\ mach'.pos = mach.pos /\ mach'.queue = Append(mach.queue, NewMove)
                 /\ mach'.stop = mach.stop /\ ~mach'.refused
                 /\ UNCHANGED query
              \/ /\ wire[1].op = "jog" /\ (Here.refuses \/ mach.refused \/ mach.stop = "Alarm")
                 /\ mach' = [mach EXCEPT !.refused = TRUE]
                 /\ UNCHANGED query
              \/ wire[1].op \in {"origin", "forgotten"} /\ UNCHANGED <<mach, query>>
              \/ /\ wire[1].op = "ask"
                 /\ query' = [at |-> "answered", pos |-> Position, state |-> State, old |-> 0]
                 /\ UNCHANGED mach
<1>1. /\ wire # <<>> /\ wire \in Seq(Lines) /\ wire[1] \in Lines /\ Head(wire) = wire[1] /\ 1 \in DOMAIN wire
      /\ wire' = Tail(wire) /\ wire' \in Seq(Lines) /\ Len(wire) \in Nat /\ Len(wire') = Len(wire) - 1
      /\ DOMAIN wire = 1 .. Len(wire)
  BY HeadTailProperties, EmptySeq, LenProperties DEF TypeOK, TakeLine
<1>2. \A i \in DOMAIN wire' : wire'[i] = wire[i + 1] /\ i + 1 \in DOMAIN wire
  BY <1>1, LenProperties, HeadTailProperties
<1>3. UNCHANGED <<scene, sess, loop, input, capture, captured, stale, acts>>
  BY DEF TakeLine
<1>4. CASE /\ wire[1].op = "jog" /\ mach.stop # "Alarm" /\ ~mach.refused
           /\ mach' = [mach EXCEPT !.queue = Append(@, NewMove)]
           /\ UNCHANGED query
  <2>1. wire[1] \in JogLines /\ wire[1].dur \in Nat
    BY <1>1, <1>4, JogLinesAre DEF JogLines
  <2>2. NewMove \in Moves
    BY <2>1, PartsAre, LineEndTyped DEF NewMove, Moves
  <2>3. mach' = [mach EXCEPT !.queue = Append(mach.queue, NewMove)] /\ mach \in Machines
    BY <1>4 DEF TypeOK
  <2>4. /\ mach'.pos = mach.pos /\ mach'.queue = Append(mach.queue, NewMove)
        /\ mach'.stop = mach.stop /\ mach'.refused = mach.refused
    BY <2>3 DEF Machines
  <2> QED BY <1>1, <1>2, <1>3, <1>4, <2>1, <2>2, <2>4
<1>5. \/ /\ wire[1].op = "jog" /\ mach.stop # "Alarm" /\ ~mach.refused
         /\ mach' = [mach EXCEPT !.queue = Append(@, NewMove)]
         /\ UNCHANGED query
      \/ /\ wire[1].op = "jog" /\ (Here.refuses \/ mach.refused \/ mach.stop = "Alarm")
         /\ mach' = [mach EXCEPT !.refused = TRUE]
         /\ UNCHANGED query
      \/ wire[1].op \in {"origin", "forgotten"} /\ UNCHANGED <<mach, query>>
      \/ /\ wire[1].op = "ask"
         /\ query' = [at |-> "answered", pos |-> Position, state |-> State, old |-> 0]
         /\ UNCHANGED mach
  BY <1>1 DEF TakeLine, NewMove
<1> QED BY <1>1, <1>2, <1>3, <1>4, <1>5

LEMMA QueueTimedKept ==
    ASSUME TypeOK, BaseInv, [Next]_vars
    PROVE  QueueTimed'
<1>1. QueueTimed /\ mach.queue \in Seq(Moves) /\ DOMAIN mach.queue = 1 .. Len(mach.queue) /\ Len(mach.queue) \in Nat
  BY PartsAre, LenProperties DEF BaseInv
<1>2. CASE SameMotion
  BY <1>1, <1>2 DEF QueueTimed, SameMotion
<1>3. CASE TakeLine /\ wire[1].op = "jog" /\ wire # <<>>
  <2>1. CASE NewMove \in Moves /\ mach'.queue = Append(mach.queue, NewMove)
    <3>1. NewMove.left = wire[1].dur /\ NewMove.dur = wire[1].dur /\ wire[1].dur > 0 /\ wire[1].dur \in Nat
      BY <1>3, TakeLineIs, <2>1 DEF NewMove, BaseInv, WireTimed, Moves
    <3>2. /\ DOMAIN mach'.queue = 1 .. Len(mach.queue) + 1
          /\ \A i \in 1 .. Len(mach.queue) : mach'.queue[i] = mach.queue[i]
          /\ mach'.queue[Len(mach.queue) + 1] = NewMove
      BY <1>1, <2>1, AppendProperties, LenProperties
    <3>3. \A i \in 1 .. Len(mach.queue) + 1 : i \in 1 .. Len(mach.queue) \/ i = Len(mach.queue) + 1
      BY <1>1
    <3>4. NewMove.left \in 1 .. NewMove.dur
      BY <3>1
    <3>5. \A i \in 1 .. Len(mach.queue) : mach'.queue[i].left \in 1 .. mach'.queue[i].dur
      BY <1>1, <3>2 DEF QueueTimed
    <3> QED BY <3>2, <3>3, <3>4, <3>5 DEF QueueTimed
  <2>2. CASE mach' = [mach EXCEPT !.refused = TRUE]
    BY <1>1, <2>2 DEF QueueTimed, TypeOK, Machines
  <2> QED BY <1>3, <2>1, <2>2, TakeLineIs
<1>4. ASSUME NEW why \in {"Hold", "Alarm"}, Stops(why) PROVE QueueTimed'
  BY <1>4, <1>1 DEF Stops, TypeOK, Machines, QueueTimed
<1>5. ASSUME NEW stalls \in BOOLEAN, Pass(stalls) PROVE QueueTimed'
  <2>1. mach' = mach \/ mach' = Executes
    BY <1>5 DEF Pass
  <2>2. CASE mach' = mach
    BY <1>1, <2>2 DEF QueueTimed
  <2>3. CASE mach.queue # <<>> /\ mach.queue[1].left > 1 /\ mach'.queue = [mach.queue EXCEPT ![1] = Worked(@)]
    <3>1. 1 \in DOMAIN mach.queue /\ mach.queue[1] \in Moves /\ mach.queue[1].left > 0
      <4>1. 1 \in DOMAIN mach.queue /\ mach.queue[1] \in Moves
        BY <1>1, <2>3, EmptySeq, ElementOfSeq
      <4> QED BY <2>3, <4>1 DEF Moves
    <3>2. /\ mach'.queue \in Seq(Moves) /\ Len(mach'.queue) = Len(mach.queue)
          /\ mach'.queue[1] = Worked(mach.queue[1])
          /\ \A i \in DOMAIN mach.queue : i # 1 => mach'.queue[i] = mach.queue[i]
      BY <1>1, <2>3, <3>1, QueueTimePasses
    <3>3. Worked(mach.queue[1]).left \in 1 .. Worked(mach.queue[1]).dur
      BY <1>1, <3>1, <2>3, WorkedIs DEF QueueTimed, Moves
    <3>4. DOMAIN mach'.queue = DOMAIN mach.queue
      BY <1>1, <3>2, LenProperties
    <3> QED BY <1>1, <3>2, <3>3, <3>4 DEF QueueTimed
  <2>4. CASE mach.queue # <<>> /\ mach'.queue = Tail(mach.queue)
    <3>1. /\ mach'.queue \in Seq(Moves) /\ Len(mach'.queue) = Len(mach.queue) - 1
          /\ \A i \in 1 .. Len(mach'.queue) : mach'.queue[i] = mach.queue[i + 1]
      BY <1>1, <2>4, HeadTailProperties
    <3>2. \A i \in DOMAIN mach'.queue : i + 1 \in DOMAIN mach.queue /\ mach'.queue[i] = mach.queue[i + 1]
      BY <3>1, LenProperties, <1>1
    <3> QED BY <1>1, <3>2 DEF QueueTimed
  <2> QED BY <2>1, <2>2, <2>3, <2>4, ExecutesIs
<1> QED BY <1>2, <1>3, <1>4, <1>5, MachineWays

LEMMA WireTimedKept ==
    ASSUME TypeOK, BaseInv, [Next]_vars
    PROVE  WireTimed'
<1>1. WireTimed /\ wire \in Seq(Lines) /\ DOMAIN wire = 1 .. Len(wire) /\ Len(wire) \in Nat
  BY LenProperties DEF BaseInv, TypeOK
<1>2. ASSUME NEW lines \in Seq(Lines), NEW l \in Lines,
             \A i \in DOMAIN lines : lines[i].op = "jog" => lines[i].dur > 0, l.op = "jog" => l.dur > 0
      PROVE  \A i \in DOMAIN Append(lines, l) : Append(lines, l)[i].op = "jog" => Append(lines, l)[i].dur > 0
  <2>1. /\ DOMAIN Append(lines, l) = 1 .. Len(lines) + 1 /\ Len(lines) \in Nat
        /\ DOMAIN lines = 1 .. Len(lines)
        /\ \A i \in 1 .. Len(lines) : Append(lines, l)[i] = lines[i]
        /\ Append(lines, l)[Len(lines) + 1] = l
    BY AppendProperties, LenProperties
  <2>2. \A i \in 1 .. Len(lines) + 1 : i \in 1 .. Len(lines) \/ i = Len(lines) + 1
    BY <2>1
  <2> QED BY <1>2, <2>1, <2>2
<1>3. CASE wire' = wire
  BY <1>1, <1>3 DEF WireTimed
<1>4. CASE wire' = Append(wire, [op |-> "ask"])
  BY <1>1, <1>2, <1>4 DEF Lines, WireTimed
<1>5. CASE wire' = Forgotten(wire)
  BY <1>1, <1>5, ForgottenIs DEF WireTimed
<1>6. CASE TakeLine
  BY <1>1, <1>6, TakeLineIs DEF WireTimed
<1>7. CASE SendLine
  <2> DEFINE l == jogCommand(loop.plan, Head(loop.todo), moveDuration(axesDelta(loop.plan, Head(loop.todo))))
  <2>1. wire' = Append(wire, l) /\ l \in JogLines
    BY <1>7, SendLineTyped
  <2>2. l.dur > 0
    BY <1>7, CommittedTyped DEF SendLine, Writing, jogCommand
  <2>3. l \in Lines
    BY <2>1 DEF Lines
  <2> HIDE DEF l
  <2> QED BY <1>1, <1>2, <2>1, <2>2, <2>3 DEF WireTimed
<1>8. CASE SetOrigin
  <2> DEFINE ask == [op |-> "ask"]
  <2> DEFINE zero == [op |-> "origin", seen |-> sess.st.pos]
  <2>1. ask \in Lines /\ zero \in Lines /\ wire' \in {Append(wire, ask), Append(Append(wire, zero), ask)}
    BY <1>8, SetOriginTyped
  <2>2. ask.op # "jog" /\ zero.op # "jog"
    OBVIOUS
  <2>3. Append(wire, zero) \in Seq(Lines)
    BY <1>1, <2>1, AppendProperties
  <2> HIDE DEF ask, zero
  <2>4. \A i \in DOMAIN Append(wire, zero) : Append(wire, zero)[i].op = "jog" => Append(wire, zero)[i].dur > 0
    BY <1>1, <1>2, <2>1, <2>2 DEF WireTimed
  <2>5. \A i \in DOMAIN Append(wire, ask) : Append(wire, ask)[i].op = "jog" => Append(wire, ask)[i].dur > 0
    BY <1>1, <1>2, <2>1, <2>2 DEF WireTimed
  <2> DEFINE w == Append(wire, zero)
  <2> HIDE DEF w
  <2>6. \A i \in DOMAIN Append(w, ask) : Append(w, ask)[i].op = "jog" => Append(w, ask)[i].dur > 0
    BY <1>2, <2>1, <2>2, <2>3, <2>4 DEF w
  <2> QED BY <2>1, <2>5, <2>6 DEF WireTimed, w
<1> QED BY <1>3, <1>4, <1>5, <1>6, <1>7, <1>8, WireWays

\* A target that is somewhere else takes at least one leg.
LEMMA LegsGo ==
    ASSUME TypeOK, NEW from \in Points, NEW to \in Points, NEW z, from # to,
           z = Nothing => to["z"] = from["z"]
    PROVE  Legs(from, to, z) # <<>>
<1> DEFINE lifts == Here.safe /\ from["x"] # to["x"]
<1> DEFINE up == IF lifts THEN [from EXCEPT !["z"] = Max2(@, Min2(SafeZ, ZMax))] ELSE from
<1> DEFINE across == IF lifts THEN [up EXCEPT !["x"] = to["x"]] ELSE from
<1> DEFINE last == [across EXCEPT !["x"] = to["x"], !["z"] = IF z = Nothing THEN @ ELSE to["z"]]
<1>1. Legs(from, to, z) = Leg(from, up) \o Leg(up, across) \o Leg(across, last)
  BY DEF Legs
<1>2. ASSUME NEW S, NEW p, NEW q \in S
      PROVE  Leg(p, q) \in Seq(S) /\ (p # q => Len(Leg(p, q)) = 1) /\ Len(Leg(p, q)) \in Nat
  <2>1. <<>> \in Seq(S) /\ <<q>> \in Seq(S) /\ Len(<<q>>) = 1 /\ Len(<<>>) = 0
    OBVIOUS
  <2>2. CASE p = q
    BY <2>1, <2>2 DEF Leg
  <2>3. CASE p # q
    BY <2>1, <2>3 DEF Leg
  <2> QED BY <2>2, <2>3
<1>3. up # across \/ across # last
  <2>1. DOMAIN from = Axes /\ DOMAIN to = Axes /\ "x" \in Axes /\ "z" \in Axes
    BY DEF Points, Axes
  <2>2. CASE lifts
    BY <2>1, <2>2
  <2>3. CASE ~lifts
    <3>1. across = from
      BY <2>3
    <3>2. last["x"] = to["x"] /\ last["z"] = to["z"]
      BY <2>1, <3>1
    <3>3. from["x"] # to["x"] \/ from["z"] # to["z"]
      BY DEF Points, Axes
    <3> HIDE DEF across, last
    <3> QED BY <3>1, <3>2, <3>3
  <2> QED BY <2>2, <2>3
<1> HIDE DEF up, across, last
<1> DEFINE a == Leg(from, up)
<1> DEFINE b == Leg(up, across)
<1> DEFINE c == Leg(across, last)
<1>4. /\ a \in Seq({up, across, last}) /\ b \in Seq({up, across, last}) /\ c \in Seq({up, across, last})
      /\ Len(a) \in Nat /\ Len(b) \in Nat /\ Len(c) \in Nat /\ (Len(b) = 1 \/ Len(c) = 1)
  <2> DEFINE S == {up, across, last}
  <2>1. up \in S /\ across \in S /\ last \in S
    OBVIOUS
  <2> HIDE DEF S
  <2>2. a \in Seq(S) /\ b \in Seq(S) /\ c \in Seq(S) /\ Len(a) \in Nat /\ Len(b) \in Nat /\ Len(c) \in Nat
    BY <1>2, <2>1
  <2>3. Len(b) = 1 \/ Len(c) = 1
    BY <1>2, <1>3, <2>1
  <2> QED BY <2>2, <2>3 DEF S
<1> HIDE DEF a, b, c
<1>5. a \o b \in Seq({up, across, last}) /\ Len(a \o b) = Len(a) + Len(b)
  BY <1>4, ConcatProperties
<1>6. Len((a \o b) \o c) = Len(a) + Len(b) + Len(c)
  BY <1>4, <1>5, ConcatProperties
<1>7. Len(<<>>) = 0
  OBVIOUS
<1>8. (a \o b) \o c # <<>>
  BY <1>4, <1>6, <1>7
<1> QED BY <1>1, <1>8 DEF a, b, c

\* A target asks for a status, or leads somewhere else.
LEMMA TargetLegs ==
    ASSUME TypeOK, NEW x \in 0 .. Here.xmax + 1,
           NEW z \in {Nothing} \cup {<<n>> : n \in 0 .. ZMax}, Target(x, z)
    PROVE  \/ loop' = loop /\ RequestStatus
           \/ /\ sess.after /\ UNCHANGED <<query, wire>>
              /\ \E to \in Points :
                   /\ to # CommandAnchor /\ (z = Nothing => to["z"] = CommandAnchor["z"])
                   /\ Inside(CommandAnchor) => Inside(to)
                   /\ loop' = [AtLoop EXCEPT !.at = "write", !.kind = "target", !.plan = CommandAnchor,
                                             !.todo = Legs(CommandAnchor, to, z), !.due = sess.lead]
<1> DEFINE from == CommandAnchor
<1> DEFINE there == [a \in Axes |-> IF a = "x" THEN x ELSE IF z = Nothing THEN from[a] ELSE z[1]]
<1> DEFINE to == clampJogTarget(from, there)
<1>1. \/ loop' = loop /\ RequestStatus
      \/ /\ sess.after /\ UNCHANGED <<query, wire>> /\ to # from
         /\ loop' = [AtLoop EXCEPT !.at = "write", !.kind = "target",
                                   !.plan = from, !.todo = Legs(from, to, z), !.due = sess.lead]
  BY DEF Target
<1>2. from \in Points
  BY PartsAre DEF CommandAnchor
<1> HIDE DEF from
<1>3. there \in Points
  BY <1>2, PointsAre, SceneIs, TimeAssumption DEF Points
<1>4. to \in Points /\ (Inside(from) => Inside(to))
  <2> HIDE DEF there
  <2> QED BY <1>2, <1>3, ClampTyped
<1>5. z = Nothing => to["z"] = from["z"]
  <2>1. z = Nothing => there["z"] = from["z"]
    BY DEF Axes
  <2>2. "z" \in Axes /\ from["z"] \in Int /\ LimitOf("z") \in Nat
    BY <1>2, PointsAre, SceneIs DEF Axes
  <2> HIDE DEF there
  <2> QED BY <2>1, <2>2 DEF clampJogTarget, Max2, Min2
<1> HIDE DEF to
<1> QED BY <1>1, <1>4, <1>5 DEF from

LEMMA TargetWrites ==
    ASSUME TypeOK, NEW x \in 0 .. Here.xmax + 1,
           NEW z \in {Nothing} \cup {<<n>> : n \in 0 .. ZMax}, Target(x, z)
    PROVE  loop' = loop \/ loop'.todo # <<>>
<1>1. CASE loop' = loop
  BY <1>1
<1>2. CASE loop' # loop
  <2>1. PICK to \in Points :
          /\ to # CommandAnchor /\ (z = Nothing => to["z"] = CommandAnchor["z"])
          /\ loop' = [AtLoop EXCEPT !.at = "write", !.kind = "target", !.plan = CommandAnchor,
                                    !.todo = Legs(CommandAnchor, to, z), !.due = sess.lead]
    BY <1>2, TargetLegs
  <2>2. CommandAnchor \in Points
    BY PartsAre DEF CommandAnchor
  <2>3. Legs(CommandAnchor, to, z) # <<>>
    BY <2>1, <2>2, LegsGo
  <2>4. loop'.todo = Legs(CommandAnchor, to, z)
    BY <2>1 DEF AtLoop
  <2> QED BY <2>3, <2>4
<1> QED BY <1>1, <1>2

LEMMA LeaseKept ==
    ASSUME TypeOK, BaseInv, [Next]_vars
    PROVE  LeaseInv'
<1> USE DEF Writing
<1>1. LeaseInv /\ Here' = Here /\ mach \in Machines /\ sess \in Sessions /\ loop \in Loops
  BY SceneSays DEF BaseInv, TypeOK
<1>2. CASE TakeLine
  <2>1. mach'.stop = mach.stop
    BY <1>1, <1>2, TakeLineIs DEF Machines
  <2>2. ~Here.stops /\ ~Here.refuses => ~mach'.refused
    BY <1>1, <1>2, TakeLineIs DEF LeaseInv
  <2>3. query' = query \/ (query'.at = "answered" /\ query'.old = 0 /\ sess.armed)
    BY <1>2, TakeLineIs DEF BaseInv, AsksInv
  <2>4. UNCHANGED <<sess, loop, input>> /\ Here.delay \in Nat
    BY <1>2, TakeLineIs, SceneIs
  <2> QED BY <1>1, <2>1, <2>2, <2>3, <2>4 DEF LeaseInv
<1>3. ASSUME NEW why \in {"Hold", "Alarm"}, Stops(why) PROVE LeaseInv'
  BY <1>1, <1>3 DEF LeaseInv, Stops
<1>4. CASE Recovers
  BY <1>1, <1>4 DEF Recovers, Machines, LeaseInv
<1>5. ASSUME NEW stalls \in BOOLEAN, Pass(stalls) PROVE LeaseInv'
  <2>1. mach'.stop = mach.stop /\ mach'.refused = mach.refused
    BY <1>5, ExecutesTyped DEF Pass
  <2>2. /\ query'.at = query.at
        /\ query.at = "answered" => query'.old <= Here.delay
    <3>1. CASE query.at = "answered"
      BY <1>5, <3>1, SceneIs DEF Pass, TypeOK, Queries
    <3>2. CASE query.at # "answered"
      BY <1>5, <3>2 DEF Pass
    <3> QED BY <3>1, <3>2
  <2>3. sess'.armed = sess.armed /\ (sess.pending = Nothing => sess'.pending = Nothing)
    BY <1>1, <1>5 DEF Pass, Sessions, Awaited
  <2>4. UNCHANGED input /\ SameLoop
    BY <1>5, PassLoop DEF Pass
  <2> QED BY <1>1, <2>1, <2>2, <2>3, <2>4 DEF LeaseInv, SameLoop
<1>6. CASE Arm
  BY <1>1, <1>6, ArmTyped DEF Arm, Machines, LeaseInv
<1>7. ASSUME Release, mach' = mach PROVE LeaseInv'
  BY <1>1, <1>7, ReleaseTyped, DisarmedTyped DEF LeaseInv
<1>8. CASE Disarm
  BY <1>7, <1>8 DEF Disarm
<1>9. ASSUME NEW in \in Here.inputs, SetInput(in) PROVE LeaseInv'
  BY <1>1, <1>9 DEF LeaseInv, SetInput
<1>10. CASE CapturePosition \/ CaptureEnds
  BY <1>1, <1>10 DEF LeaseInv, CapturePosition, CaptureEnds
<1>11. ASSUME RequestStatus, sess.armed, UNCHANGED <<mach, sess, loop, input>> PROVE LeaseInv'
  BY <1>1, <1>11, RequestStatusTyped DEF LeaseInv
<1>12. CASE StatusTick
  BY <1>11, <1>12 DEF StatusTick
<1>13. CASE TakeStatus
  <2>1. CASE /\ sess' = Answered /\ query' = NoQuery
             /\ mach' = [mach EXCEPT !.refused = @ /\ ~Settled(Ended, Sample)]
             /\ UNCHANGED <<wire, loop, input>>
    <3>1. mach'.stop = mach.stop /\ (mach'.refused => mach.refused)
      BY <1>1, <2>1 DEF Machines
    <3>2. Answered.armed = sess.armed /\ (sess.pending = Nothing => Answered.pending = Nothing)
      <4>1. Seen.armed = sess.armed /\ Seen.pending = sess.pending /\ Seen \in Sessions /\ Ended \in Sessions
        BY <1>1, <1>13, TakeStatusIs, AnsweredTyped DEF Seen, Sessions
      <4>2. Ended.armed = sess.armed /\ (sess.pending = Nothing => Ended.pending = Nothing)
        BY <4>1 DEF Ended, AfterTarget, EndTarget, Sessions
      <4> QED BY <4>1, <4>2 DEF Answered, Sessions
    <3>3. query'.at = "none"
      BY <2>1, DisarmedTyped
    <3> QED BY <1>1, <1>13, <2>1, <3>1, <3>2, <3>3, TakeStatusIs DEF LeaseInv
  <2>2. CASE Release /\ UNCHANGED mach
    BY <1>7, <2>2
  <2> QED BY <1>13, <2>1, <2>2, TakeStatusIs
<1>14. CASE StatusFails
  <2>1. CASE /\ sess' = [sess EXCEPT !.retry = TRUE, !.wait = TRUE] /\ query' = NoQuery
             /\ UNCHANGED <<mach, loop, input>>
    BY <1>1, <2>1, DisarmedTyped DEF Sessions, LeaseInv
  <2> QED BY <1>7, <1>14, <2>1 DEF StatusFails
<1>15. CASE SendLine
  BY <1>1, <1>15 DEF SendLine, Loops, LeaseInv
<1>16. CASE WriteReturns
  <2>1. loop.at = "sent" /\ sess.armed /\ Committed.armed /\ Committed.pending = sess.pending /\ Committed \in Sessions
    BY <1>1, <1>16, CommittedTyped DEF WriteReturns, LeaseInv
  <2>2. AtLoop.at = "loop"
    BY DisarmedTyped
  <2> DEFINE next == [loop EXCEPT !.plan = Head(loop.todo), !.todo = Tail(loop.todo),
                                  !.sent = (@ + 1) % (MaxPerTick + 1)]
  <2>3. /\ UNCHANGED mach
        /\ \/ /\ loop.kind = "tick" /\ sess' = Committed
              /\ loop' = [next EXCEPT !.at = "admit"] \/ loop' = AtLoop
              /\ UNCHANGED <<query, input>>
           \/ /\ loop.kind # "tick" /\ Tail(loop.todo) # <<>> /\ sess' = Committed
              /\ loop' = [next EXCEPT !.at = "write", !.sent = 0, !.due = QueuedUntil]
              /\ UNCHANGED <<query, input>>
           \/ /\ loop.kind # "tick" /\ sess' = Committed /\ loop' = AtLoop
              /\ UNCHANGED <<query, input>>
           \/ /\ loop.kind # "tick"
              /\ sess' = [Committed EXCEPT !.pending =
                   <<[target |-> Head(loop.todo), verify |-> QueuedUntil + Grace]>>]
              /\ loop' = AtLoop /\ RequestStatus
    BY <1>16 DEF WriteReturns
  <2>4. [next EXCEPT !.at = "admit"].at = "admit" /\ [next EXCEPT !.at = "admit"].kind = loop.kind
        /\ [next EXCEPT !.at = "write", !.sent = 0, !.due = QueuedUntil].todo = Tail(loop.todo)
    BY <1>1 DEF Loops
  <2>5. sess'.armed /\ (loop.kind = "tick" => sess'.pending = sess.pending)
    BY <2>1, <2>3 DEF Sessions
  <2> HIDE DEF next
  <2>6. query'.at # "answered" \/ query' = query
    BY <2>3, RequestStatusTyped
  <2> QED BY <1>1, <2>1, <2>2, <2>3, <2>4, <2>5, <2>6 DEF LeaseInv
<1>17. CASE WriteFails
  BY <1>7, <1>17 DEF WriteFails
<1>18. CASE MotionTick
  <2>1. sess.armed /\ UNCHANGED <<mach, sess, input>> /\ (RequestStatus \/ UNCHANGED query)
        /\ (loop' = loop \/ loop' = [AtLoop EXCEPT !.at = "admit", !.plan = TickAnchor(sess), !.basis = input])
    BY <1>18 DEF MotionTick
  <2>2. [AtLoop EXCEPT !.at = "admit", !.plan = TickAnchor(sess), !.basis = input].kind = "tick"
        /\ [AtLoop EXCEPT !.at = "admit", !.plan = TickAnchor(sess), !.basis = input].at = "admit"
    BY DEF AtLoop
  <2>3. query'.at # "answered" \/ query' = query
    BY <2>1, RequestStatusTyped
  <2> QED BY <1>1, <2>1, <2>2, <2>3 DEF LeaseInv
<1>19. CASE Admit
  BY DisarmedTyped, <1>1, <1>19 DEF Admit, Loops, LeaseInv
<1>20. CASE TargetTick
  <2>1. CASE /\ sess' = EndTarget(sess, "short", sess.st.pos) /\ mach' = [mach EXCEPT !.refused = FALSE]
             /\ UNCHANGED <<query, wire, loop, input>>
    BY <1>1, <2>1 DEF Machines, EndTarget, Sessions, LeaseInv
  <2> QED BY <1>7, <1>20, <2>1 DEF TargetTick
<1>21. CASE TargetRetry
  BY <1>11, <1>21 DEF TargetRetry
<1>22. ASSUME NEW d \in Inputs \ {0}, Step(d) PROVE LeaseInv'
  <2>1. Here.steps /\ sess.armed /\ UNCHANGED <<mach, sess, input>> /\ (RequestStatus \/ UNCHANGED query)
    BY <1>22 DEF Step, Commanded
  <2>2. loop' = loop \/ loop'.todo # <<>>
    <3> DEFINE to == clampJogTarget(CommandAnchor, Sum(CommandAnchor, MotionDelta(d)))
    <3>1. loop' = loop \/ loop' = [AtLoop EXCEPT !.at = "write", !.kind = "step",
                                                 !.plan = CommandAnchor, !.todo = <<to>>, !.due = sess.lead]
      BY <1>22 DEF Step
    <3> HIDE DEF to
    <3>2. [AtLoop EXCEPT !.at = "write", !.kind = "step", !.plan = CommandAnchor, !.todo = <<to>>, !.due = sess.lead].todo = <<to>>
      BY DEF AtLoop
    <3>3. <<to>> # <<>>
      OBVIOUS
    <3> QED BY <3>1, <3>2, <3>3, Zenon
  <2>3. query'.at # "answered" \/ query' = query
    BY <2>1, RequestStatusTyped
  <2> QED BY <1>1, <2>1, <2>2, <2>3 DEF LeaseInv
<1>23. ASSUME NEW x \in 0 .. Here.xmax + 1, NEW z \in {Nothing} \cup {<<n>> : n \in 0 .. ZMax}, Target(x, z)
       PROVE  LeaseInv'
  <2>1. Here.targets /\ sess.armed /\ UNCHANGED <<mach, sess, input>> /\ (RequestStatus \/ UNCHANGED query)
    BY <1>23 DEF Target, Commanded
  <2>2. loop' = loop \/ loop'.todo # <<>>
    BY <1>23, TargetWrites
  <2>3. query'.at # "answered" \/ query' = query
    BY <2>1, RequestStatusTyped
  <2> QED BY <1>1, <2>1, <2>2, <2>3 DEF LeaseInv
<1>24. CASE SetOrigin
  BY <1>24, <1>1 DEF SetOrigin, Commanded, LeaseInv
<1>25. CASE UNCHANGED vars
  BY <1>1, <1>25 DEF LeaseInv, vars
<1> QED BY <1>2, <1>3, <1>4, <1>5, <1>6, <1>8, <1>9, <1>10, <1>12, <1>13, <1>14, <1>15, <1>16, <1>17, <1>18,
           <1>19, <1>20, <1>21, <1>22, <1>23, <1>24, <1>25 DEF Next

\* What a step without a lease does to the wire, and how a lease ends.
LEMMA UnarmedWays ==
    ASSUME TypeOK, BaseInv, [Next]_vars, ~sess.armed
    PROVE  wire' = wire \/ wire' = Forgotten(wire) \/ TakeLine
<1>1. loop.at = "loop" /\ query.at = "none"
  BY DEF BaseInv, LeaseInv
<1>2. ~StatusTick /\ ~TakeStatus /\ ~StatusFails /\ ~MotionTick /\ ~TargetTick /\ ~TargetRetry
  BY DEF StatusTick, TakeStatus, StatusFails, MotionTick, TargetTick, TargetRetry
<1>3. ~SendLine /\ ~WriteReturns /\ ~WriteFails /\ ~Admit
  BY <1>1 DEF SendLine, WriteReturns, WriteFails, Admit
<1>4. ~SetOrigin /\ (\A d \in Inputs \ {0} : ~Step(d))
      /\ (\A x \in 0 .. Here.xmax + 1, z \in {Nothing} \cup {<<n>> : n \in 0 .. ZMax} : ~Target(x, z))
  BY DEF SetOrigin, Step, Target, Commanded
<1>5. ASSUME NEW why \in {"Hold", "Alarm"}, Stops(why) PROVE wire' = wire
  BY <1>5 DEF Stops
<1>6. ASSUME NEW stalls \in BOOLEAN, Pass(stalls) PROVE wire' = wire
  BY <1>6 DEF Pass
<1>7. ASSUME NEW in \in Here.inputs, SetInput(in) PROVE wire' = wire
  BY <1>7 DEF SetInput
<1>8. Recovers \/ Arm \/ CapturePosition \/ CaptureEnds \/ UNCHANGED vars => wire' = wire
  BY DEF Recovers, Arm, CapturePosition, CaptureEnds, vars
<1>9. ~Disarm
  BY DEF Disarm
<1> QED BY <1>2, <1>3, <1>4, <1>5, <1>6, <1>7, <1>8, <1>9 DEF Next

LEMMA LeaseEnds ==
    ASSUME TypeOK, BaseInv, [Next]_vars, sess.armed
    PROVE  sess'.armed \/ (Release /\ mach' = mach)
<1>1. sess \in Sessions
  BY DEF TypeOK
<1>2. sess' = sess => sess'.armed
  OBVIOUS
<1>3. ASSUME NEW why \in {"Hold", "Alarm"}, Stops(why) PROVE sess' = sess
  BY <1>3 DEF Stops
<1>4. ASSUME NEW stalls \in BOOLEAN, Pass(stalls) PROVE sess'.armed
  BY <1>1, <1>4 DEF Pass, Sessions
<1>5. ASSUME NEW in \in Here.inputs, SetInput(in) PROVE sess' = sess
  BY <1>5 DEF SetInput
<1>6. ASSUME NEW d \in Inputs \ {0}, Step(d) PROVE sess' = sess
  BY <1>6 DEF Step
<1>7. ASSUME NEW x \in 0 .. Here.xmax + 1, NEW z \in {Nothing} \cup {<<n>> : n \in 0 .. ZMax}, Target(x, z)
      PROVE  sess' = sess
  BY <1>7 DEF Target
<1>8. TakeLine \/ Recovers \/ CapturePosition \/ CaptureEnds \/ StatusTick \/ SendLine => sess' = sess
  BY DEF TakeLine, Recovers, CapturePosition, CaptureEnds, StatusTick, SendLine
<1>9. MotionTick \/ Admit \/ TargetRetry \/ SetOrigin \/ UNCHANGED vars => sess' = sess
  BY DEF MotionTick, Admit, TargetRetry, SetOrigin, vars
<1>10. Arm => sess'.armed
  BY ArmTyped
<1>11. Disarm \/ WriteFails => Release /\ mach' = mach
  BY DEF Disarm, WriteFails
<1>12. TakeStatus => sess'.armed \/ (Release /\ mach' = mach)
  <2> SUFFICES ASSUME TakeStatus, sess' = Answered PROVE sess'.armed
    BY TakeStatusIs
  <2>1. Seen.armed = sess.armed /\ Seen \in Sessions /\ Ended \in Sessions
    BY <1>1, TakeStatusIs, AnsweredTyped DEF Seen, Sessions
  <2>2. Ended.armed = sess.armed
    BY <2>1 DEF Ended, AfterTarget, EndTarget, Sessions
  <2> QED BY <2>1, <2>2 DEF Answered, Sessions
<1>13. StatusFails => sess'.armed \/ (Release /\ mach' = mach)
  BY <1>1 DEF StatusFails, Sessions
<1>14. TargetTick => sess'.armed \/ (Release /\ mach' = mach)
  BY <1>1 DEF TargetTick, EndTarget, Sessions
<1>15. WriteReturns => sess'.armed
  <2> SUFFICES ASSUME WriteReturns PROVE sess'.armed
    OBVIOUS
  <2>1. Committed.armed /\ Committed \in Sessions
    BY CommittedTyped DEF WriteReturns, Writing
  <2> QED BY <2>1 DEF WriteReturns, Sessions
<1> QED BY <1>2, <1>3, <1>4, <1>5, <1>6, <1>7, <1>8, <1>9, <1>10, <1>11, <1>12, <1>13, <1>14, <1>15 DEF Next

LEMMA AsksKept ==
    ASSUME TypeOK, BaseInv, [Next]_vars
    PROVE  AsksInv'
<1>1. wire \in Seq(Lines)
  BY DEF TypeOK
<1>2. \A i \in DOMAIN Forgotten(wire) : Forgotten(wire)[i].op # "ask"
  BY <1>1, ForgottenIs
<1>3. CASE sess.armed
  BY <1>2, <1>3, LeaseEnds DEF AsksInv, Release
<1>4. CASE ~sess.armed
  <2>1. \A i \in DOMAIN wire : wire[i].op # "ask"
    BY <1>4 DEF BaseInv, AsksInv
  <2>2. CASE wire' = wire
    BY <2>1, <2>2 DEF AsksInv
  <2>3. CASE TakeLine
    BY <2>1, <2>3, TakeLineIs DEF AsksInv
  <2> QED BY <1>2, <1>4, <2>2, <2>3, UnarmedWays DEF AsksInv
<1> QED BY <1>3, <1>4

LEMMA DueKept ==
    ASSUME TypeOK, BaseInv, [Next]_vars
    PROVE  DueInv'
<1>1. DueInv /\ Here' = Here /\ sess \in Sessions /\ loop \in Loops
  BY SceneSays DEF BaseInv, TypeOK
<1>2. ASSUME loop'.kind = "tick" PROVE DueInv'
  BY <1>2 DEF DueInv
<1>3. ASSUME loop' = loop, sess'.lead = sess.lead \/ loop.at = "loop" PROVE DueInv'
  BY <1>1, <1>3 DEF DueInv
<1>4. Release => loop'.kind = "tick"
  BY DisarmedTyped DEF Release
<1>5. Disarm \/ WriteFails => loop'.kind = "tick"
  BY <1>4 DEF Disarm, WriteFails
<1>6. TakeLine \/ Recovers \/ Arm \/ CapturePosition \/ CaptureEnds \/ StatusTick =>
        loop' = loop /\ (sess'.lead = sess.lead \/ loop.at = "loop")
  BY DEF TakeLine, Recovers, Arm, CapturePosition, CaptureEnds, StatusTick
<1>7. TargetRetry \/ SetOrigin \/ UNCHANGED vars => loop' = loop /\ sess' = sess
  BY DEF TargetRetry, SetOrigin, vars
<1>8. TakeStatus \/ StatusFails \/ TargetTick => (loop' = loop /\ loop.at = "loop") \/ loop'.kind = "tick"
  BY <1>4 DEF TakeStatus, StatusFails, TargetTick
<1>9. ASSUME NEW why \in {"Hold", "Alarm"}, Stops(why) PROVE loop' = loop /\ sess' = sess
  BY <1>9 DEF Stops
<1>10. ASSUME NEW in \in Here.inputs, SetInput(in) PROVE loop' = loop /\ sess' = sess
  BY <1>10 DEF SetInput
<1>11. ASSUME NEW stalls \in BOOLEAN, Pass(stalls) PROVE DueInv'
  BY <1>1, <1>11, PassLoop DEF SameLoop, DueInv
<1>12. SendLine => DueInv'
  BY <1>1 DEF SendLine, Loops, DueInv
<1>13. CASE WriteReturns
  <2> DEFINE next == [loop EXCEPT !.plan = Head(loop.todo), !.todo = Tail(loop.todo),
                                  !.sent = (@ + 1) % (MaxPerTick + 1)]
  <2>1. \/ loop' = AtLoop
        \/ loop.kind = "tick" /\ loop' = [next EXCEPT !.at = "admit"]
        \/ loop' = [next EXCEPT !.at = "write", !.sent = 0, !.due = QueuedUntil] /\ sess' = Committed
    BY <1>13 DEF WriteReturns
  <2>2. [next EXCEPT !.at = "admit"].kind = loop.kind
    BY <1>1 DEF Loops
  <2>3. CASE loop' = [next EXCEPT !.at = "write", !.sent = 0, !.due = QueuedUntil] /\ sess' = Committed
    <3>1. loop'.at = "write" /\ loop'.kind = loop.kind /\ loop'.due = QueuedUntil
      BY <1>1, <2>3 DEF Loops
    <3>2. loop.at = "sent" /\ moveDuration(axesDelta(loop.plan, Head(loop.todo))) \in Nat /\ sess.lead \in Nat
      BY <1>13, CommittedTyped, PartsAre DEF WriteReturns, Writing
    <3>3. loop.kind # "tick" /\ ~Here.slow => QueuedUntil = sess.lead + moveDuration(axesDelta(loop.plan, Head(loop.todo)))
      BY <1>1 DEF QueuedUntil, DueInv
    <3>4. loop.kind # "tick" /\ ~Here.slow => Committed.lead = sess.lead + moveDuration(axesDelta(loop.plan, Head(loop.todo)))
      BY <3>2, CommittedTyped DEF Writing
    <3> QED BY <1>1, <2>3, <3>1, <3>3, <3>4 DEF DueInv
  <2> HIDE DEF next
  <2> QED BY <1>2, <2>1, <2>2, <2>3, DisarmedTyped
<1>14. CASE MotionTick
  BY <1>2, <1>3, <1>14 DEF MotionTick, AtLoop
<1>15. CASE Admit
  BY <1>1, <1>15, DisarmedTyped DEF Admit, Loops, DueInv
<1>16. ASSUME UNCHANGED sess, loop' = loop \/ (loop'.at = "write" /\ loop'.due = sess.lead)
       PROVE  DueInv'
  BY <1>1, <1>16 DEF DueInv
<1>17. ASSUME NEW d \in Inputs \ {0}, Step(d) PROVE DueInv'
  <2> DEFINE to == clampJogTarget(CommandAnchor, Sum(CommandAnchor, MotionDelta(d)))
  <2> DEFINE next == [AtLoop EXCEPT !.at = "write", !.kind = "step", !.plan = CommandAnchor, !.todo = <<to>>, !.due = sess.lead]
  <2>1. UNCHANGED sess /\ (loop' = loop \/ loop' = next)
    BY <1>17 DEF Step
  <2>2. next.at = "write" /\ next.due = sess.lead
    BY DEF AtLoop
  <2> HIDE DEF next
  <2> QED BY <1>16, <2>1, <2>2
<1>18. ASSUME NEW x \in 0 .. Here.xmax + 1, NEW z \in {Nothing} \cup {<<n>> : n \in 0 .. ZMax}, Target(x, z)
       PROVE  DueInv'
  <2>1. UNCHANGED sess
    BY <1>18 DEF Target
  <2>2. loop' = loop \/ (loop'.at = "write" /\ loop'.due = sess.lead)
    BY <1>18, TargetLegs DEF AtLoop
  <2> QED BY <1>16, <2>1, <2>2
<1> QED BY <1>2, <1>3, <1>5, <1>6, <1>7, <1>8, <1>9, <1>10, <1>11, <1>12, <1>13, <1>14, <1>15, <1>17, <1>18 DEF Next

LEMMA BaseKept ==
    ASSUME TypeOK, BaseInv, [Next]_vars
    PROVE  BaseInv'
<1>1. QueueTimed' /\ WireTimed' /\ LeaseInv' /\ AsksInv' /\ DueInv'
  BY QueueTimedKept, WireTimedKept, LeaseKept, AsksKept, DueKept
<1> QED BY <1>1 DEF BaseInv

-----------------------------------------------------------------------------
(* A segment of an old input.                                               *)

LEMMA StaleKept ==
    ASSUME TypeOK, BaseInv, StaleInv, [Next]_vars
    PROVE  StaleInv'
<1>1. loop \in Loops /\ stale \in Nat
  BY DEF TypeOK
<1>2. AtLoop.at = "loop" /\ AtLoop.kind = "tick" /\ AtLoop \in Loops
  BY DisarmedTyped DEF AtLoop
<1>3. ASSUME UNCHANGED <<loop, input, stale>> PROVE StaleInv'
  BY <1>3 DEF StaleInv
<1>4. ASSUME loop'.at # "write" \/ loop'.kind # "tick", stale' = stale PROVE StaleInv'
  BY <1>4 DEF StaleInv
<1>5. ASSUME stale' = 0 PROVE StaleInv'
  BY <1>5 DEF StaleInv
<1>6. ASSUME Release, stale' = stale PROVE StaleInv'
  BY <1>2, <1>4, <1>6 DEF Release
<1>7. ASSUME NEW why \in {"Hold", "Alarm"}, Stops(why) PROVE StaleInv'
  BY <1>3, <1>7 DEF Stops
<1>8. ASSUME NEW stalls \in BOOLEAN, Pass(stalls) PROVE StaleInv'
  BY <1>8, PassLoop DEF Pass, SameLoop, StaleInv
<1>9. ASSUME NEW in \in Here.inputs, SetInput(in) PROVE StaleInv'
  BY <1>5, <1>9 DEF SetInput
<1>10. CASE TakeLine \/ Recovers \/ CaptureEnds \/ StatusTick \/ TargetRetry \/ SetOrigin \/ UNCHANGED vars
  BY <1>3, <1>10 DEF TakeLine, Recovers, CaptureEnds, StatusTick, TargetRetry, SetOrigin, vars
<1>11. CASE Arm
  BY <1>5, <1>11 DEF Arm
<1>12. CASE Disarm \/ WriteFails
  BY <1>6, <1>12 DEF Disarm, WriteFails
<1>13. CASE CapturePosition
  BY <1>13 DEF CapturePosition, StaleInv
<1>14. CASE TakeStatus \/ StatusFails \/ TargetTick
  BY <1>3, <1>6, <1>14 DEF TakeStatus, StatusFails, TargetTick
<1>15. CASE SendLine
  BY <1>1, <1>15 DEF SendLine, Loops, StaleInv
<1>16. CASE WriteReturns
  <2> DEFINE next == [loop EXCEPT !.plan = Head(loop.todo), !.todo = Tail(loop.todo),
                                  !.sent = (@ + 1) % (MaxPerTick + 1)]
  <2>1. /\ stale' = stale
        /\ \/ loop' = [next EXCEPT !.at = "admit"]
           \/ loop' = AtLoop
           \/ loop.kind # "tick" /\ loop' = [next EXCEPT !.at = "write", !.sent = 0, !.due = QueuedUntil]
    BY <1>16 DEF WriteReturns
  <2>2. [next EXCEPT !.at = "admit"].at = "admit" /\ [next EXCEPT !.at = "write", !.sent = 0, !.due = QueuedUntil].kind = loop.kind
    BY <1>1 DEF Loops
  <2> HIDE DEF next
  <2> QED BY <1>2, <1>4, <2>1, <2>2
<1>17. CASE MotionTick
  BY <1>17, <1>3, <1>4 DEF MotionTick, AtLoop
<1>18. CASE Admit
  BY <1>1, <1>18, <1>2, <1>4 DEF Admit, Admitted, Loops, StaleInv
<1>19. ASSUME NEW d \in Inputs \ {0}, Step(d) PROVE StaleInv'
  <2> DEFINE to == clampJogTarget(CommandAnchor, Sum(CommandAnchor, MotionDelta(d)))
  <2>1. /\ UNCHANGED <<stale, input>>
        /\ loop' = loop \/ loop' = [AtLoop EXCEPT !.at = "write", !.kind = "step",
                                                  !.plan = CommandAnchor, !.todo = <<to>>, !.due = sess.lead]
    BY <1>19 DEF Step
  <2> HIDE DEF to
  <2>2. [AtLoop EXCEPT !.at = "write", !.kind = "step", !.plan = CommandAnchor, !.todo = <<to>>, !.due = sess.lead].kind = "step"
    BY DEF AtLoop
  <2> QED BY <1>3, <1>4, <2>1, <2>2
<1>20. ASSUME NEW x \in 0 .. Here.xmax + 1, NEW z \in {Nothing} \cup {<<n>> : n \in 0 .. ZMax}, Target(x, z)
       PROVE  StaleInv'
  <2> DEFINE to == clampJogTarget(CommandAnchor, [a \in Axes |-> IF a = "x" THEN x
                                      ELSE IF z = Nothing THEN CommandAnchor[a] ELSE z[1]])
  <2>1. /\ UNCHANGED <<stale, input>>
        /\ \/ loop' = loop
           \/ loop' = [AtLoop EXCEPT !.at = "write", !.kind = "target",
                                     !.plan = CommandAnchor, !.todo = Legs(CommandAnchor, to, z), !.due = sess.lead]
    BY <1>20 DEF Target
  <2> HIDE DEF to
  <2>2. [AtLoop EXCEPT !.at = "write", !.kind = "target",
                       !.plan = CommandAnchor, !.todo = Legs(CommandAnchor, to, z), !.due = sess.lead].kind = "target"
    BY DEF AtLoop
  <2> QED BY <1>3, <1>4, <2>1, <2>2
<1> QED BY <1>7, <1>8, <1>9, <1>10, <1>11, <1>12, <1>13, <1>14, <1>15, <1>16, <1>17, <1>18, <1>19, <1>20 DEF Next

-----------------------------------------------------------------------------
(* Lines that move nothing, and a unit of time.                             *)

\* Appending a line and reading one, as a step sees them
LEMMA AppendIs ==
    ASSUME NEW lines \in Seq(Lines), NEW l \in Lines
    PROVE  /\ Append(lines, l) \in Seq(Lines) /\ Len(Append(lines, l)) = Len(lines) + 1
           /\ DOMAIN Append(lines, l) = 1 .. Len(lines) + 1
           /\ DOMAIN lines = 1 .. Len(lines) /\ Len(lines) \in Nat
           /\ \A i \in 1 .. Len(lines) : Append(lines, l)[i] = lines[i]
           /\ Append(lines, l)[Len(lines) + 1] = l
           /\ \A i \in 1 .. Len(lines) + 1 : i \in 1 .. Len(lines) \/ i = Len(lines) + 1
<1>1. Append(lines, l) \in Seq(Lines) /\ Len(lines) \in Nat
  BY AppendProperties, LenProperties
<1>2. \A i \in 1 .. Len(lines) + 1 : i \in 1 .. Len(lines) \/ i = Len(lines) + 1
  BY <1>1
<1> QED BY <1>1, <1>2, AppendProperties, LenProperties

\* A query, an origin or a release moves nothing; a line read stays read.
Calm(lines) == \A i \in DOMAIN lines : lines[i].op # "jog"

LEMMA CalmIs ==
    ASSUME NEW lines \in Seq(Lines)
    PROVE  /\ \A l \in Lines : l.op # "jog" => (Calm(Append(lines, l)) <=> Calm(lines))
           /\ Calm(Forgotten(lines)) <=> Calm(lines)
<1>1. ASSUME NEW l \in Lines, l.op # "jog" PROVE Calm(Append(lines, l)) <=> Calm(lines)
  <2> DEFINE a == Append(lines, l)
  <2>1. /\ DOMAIN a = 1 .. Len(lines) + 1 /\ DOMAIN lines = 1 .. Len(lines) /\ Len(lines) \in Nat
        /\ \A i \in 1 .. Len(lines) : a[i] = lines[i]
        /\ a[Len(lines) + 1] = l
        /\ \A i \in 1 .. Len(lines) + 1 : i \in 1 .. Len(lines) \/ i = Len(lines) + 1
    BY AppendIs
  <2>2. 1 .. Len(lines) \subseteq 1 .. Len(lines) + 1
    BY <2>1
  <2> HIDE DEF a
  <2>3. Calm(a) <=> Calm(lines)
    BY <1>1, <2>1, <2>2 DEF Calm
  <2> QED BY <2>3 DEF a
<1>2. Calm(Forgotten(lines)) <=> Calm(lines)
  BY ForgottenIs DEF Calm
<1> QED BY <1>1, <1>2

LEMMA PassSays ==
    ASSUME TypeOK, BaseInv, NEW stalls \in BOOLEAN, Pass(stalls)
    PROVE  /\ wire = <<>> /\ UNCHANGED <<scene, wire, input, capture, captured>>
           /\ SameLoop /\ (Tracked => loop' = loop)
           /\ sess'.armed = sess.armed /\ sess'.planned = sess.planned
           /\ sess'.st = sess.st /\ sess'.after = sess.after
           /\ sess.armed => sess'.lead = Less(sess.lead)
           /\ query'.at = query.at
           /\ query.at = "answered" => /\ query'.pos = query.pos /\ query'.state = query.state
                                       /\ query'.old = query.old + 1 /\ query'.old <= Here.delay
           /\ mach.queue = <<>> => mach' = mach
           /\ mach' = mach \/ mach' = Executes
           /\ mach'.refused = mach.refused
<1>1. sess \in Sessions /\ query \in Queries
  BY DEF TypeOK
<1>2. /\ sess'.armed = sess.armed /\ sess'.planned = sess.planned
      /\ sess'.st = sess.st /\ sess'.after = sess.after
      /\ sess.armed => sess'.lead = Less(sess.lead)
  <2>1. CASE ~sess.armed
    BY <2>1 DEF Pass
  <2>2. CASE sess.armed
    <3> DEFINE aged == [sess EXCEPT !.lead = Less(@), !.wait = FALSE, !.age = Min2(@ + 1, MaxAge + 1),
                                    !.pending = Awaited(@)]
    <3>1. sess' = aged
      BY <2>2 DEF Pass
    <3>2. /\ aged.armed = sess.armed /\ aged.planned = sess.planned /\ aged.st = sess.st
          /\ aged.after = sess.after /\ aged.lead = Less(sess.lead)
      BY <1>1 DEF Sessions
    <3> QED BY <3>1, <3>2
  <2> QED BY <2>1, <2>2
<1>3. /\ query'.at = query.at
      /\ query.at = "answered" => /\ query'.pos = query.pos /\ query'.state = query.state
                                  /\ query'.old = query.old + 1 /\ query'.old <= Here.delay
  <2>1. CASE query.at = "answered"
    BY <2>1, <1>1, SceneIs DEF Pass, Queries
  <2>2. CASE query.at # "answered"
    BY <2>2 DEF Pass
  <2> QED BY <2>1, <2>2
<1>4. mach' = mach \/ mach' = Executes
  BY DEF Pass
<1>5. mach.queue = <<>> => mach' = mach
  BY DEF Pass, Executes
<1>6. mach'.refused = mach.refused
  BY <1>4, ExecutesTyped
<1>7. wire = <<>> /\ UNCHANGED <<scene, wire, input, capture, captured>>
  BY DEF Pass
<1> QED BY <1>2, <1>3, <1>4, <1>5, <1>6, <1>7, PassLoop

\* A pending target waits; its point and the last verdict stay.
LEMMA PassAwaits ==
    ASSUME TypeOK, BaseInv, NEW stalls \in BOOLEAN, Pass(stalls)
    PROVE  /\ sess'.done = sess.done
           /\ sess'.pending = Nothing <=> sess.pending = Nothing
           /\ sess.pending # Nothing => sess'.pending[1].target = sess.pending[1].target
<1> DEFINE Pending == [target : Points, verify : Int]
<1>1. sess \in Sessions /\ sess.pending \in Seq(Pending)
  BY DEF TypeOK, Sessions
<1>2. CASE sess' = sess
  BY <1>2
<1>3. CASE sess' = [sess EXCEPT !.lead = Less(@), !.wait = FALSE, !.age = Min2(@ + 1, MaxAge + 1),
                                !.pending = Awaited(@)]
  <2>1. sess'.done = sess.done /\ sess'.pending = Awaited(sess.pending)
    BY <1>1, <1>3 DEF Sessions
  <2>2. CASE sess.pending = Nothing
    BY <2>1, <2>2 DEF Awaited
  <2>3. CASE sess.pending # Nothing
    <3>1. sess.pending[1] \in Pending
      <4> HIDE DEF Pending
      <4>1. Head(sess.pending) \in Pending /\ Head(sess.pending) = sess.pending[1]
        BY <1>1, <2>3, EmptySeq, HeadTailProperties DEF Nothing
      <4> QED BY <4>1
    <3> DEFINE p == [sess.pending[1] EXCEPT !.verify = Max2(@ - 1, -QueryTimeout)]
    <3>2. p.target = sess.pending[1].target
      BY <3>1
    <3>3. sess'.pending = <<p>>
      BY <2>1, <2>3 DEF Awaited
    <3> HIDE DEF p
    <3>4. <<p>> # Nothing /\ <<p>>[1] = p
      BY DEF Nothing
    <3> QED BY <2>1, <2>3, <3>2, <3>3, <3>4
  <2> QED BY <2>2, <2>3
<1> QED BY <1>2, <1>3 DEF Pass

-----------------------------------------------------------------------------
(* The steps of a session that a stick moves.                               *)

SameSession ==
    /\ sess'.armed = sess.armed /\ sess'.planned = sess.planned /\ sess'.lead = sess.lead
    /\ sess'.after = sess.after /\ sess'.st = sess.st
    /\ sess'.pending = sess.pending /\ sess'.done = sess.done

Asks == query'.at = "asked" /\ wire' = Append(wire, [op |-> "ask"])

\* A segment or a leg is committed; the next leg follows, or the target is pending.
Returns ==
    /\ loop.at = "sent" /\ UNCHANGED <<mach, captured>>
    /\ sess'.armed = sess.armed /\ sess'.planned = Head(loop.todo) /\ ~sess'.after
    /\ sess'.st = sess.st /\ sess'.done = Nothing
    /\ Tracked \/ Paced =>
         sess'.lead = sess.lead + moveDuration(axesDelta(loop.plan, Head(loop.todo)))
    /\ \/ /\ sess'.pending = sess.pending /\ UNCHANGED <<wire, query>>
          /\ \/ loop' = AtLoop
             \/ loop'.at = "admit" /\ loop'.plan = Head(loop.todo)
             \/ /\ loop'.at = "write" /\ loop'.plan = Head(loop.todo) /\ loop'.todo = Tail(loop.todo)
                /\ Tail(loop.todo) # <<>> /\ loop'.kind = loop.kind /\ loop.kind # "tick"
       \/ /\ loop' = AtLoop /\ Asks
          /\ loop.kind = "target" /\ Tail(loop.todo) = <<>>
          /\ sess'.pending # Nothing /\ sess'.pending[1].target = Head(loop.todo)

\* A status tells where the machine is, and no target ends with it.
Hears ==
    /\ loop.at = "loop" /\ query.at = "answered" /\ sess.armed
    /\ sess'.armed /\ sess'.lead = sess.lead /\ sess'.st = Sample /\ sess'.after = (sess.lead = 0)
    /\ sess'.planned = IF sess.lead = 0 /\ query.state = "Idle" THEN query.pos ELSE sess.planned
    /\ sess'.pending = sess.pending /\ sess'.done = sess.done
    /\ sess.pending # Nothing => query.pos # sess.pending[1].target
    /\ query.state \in {"Idle", "Run"} /\ query'.at = "none"
    /\ SameMotion /\ (mach'.refused <=> mach.refused /\ ~(sess.lead = 0 /\ query.state = "Idle"))
    /\ mach'.stop = mach.stop
    /\ UNCHANGED <<wire, loop, captured>>

\* A target ends with the machine at rest.
Ends ==
    /\ loop.at = "loop" /\ sess.armed /\ sess.pending # Nothing
    /\ Resting(sess'.planned)
    /\ sess'.armed /\ sess'.lead = 0 /\ sess'.after /\ sess'.pending = Nothing
    /\ sess'.st.pos = sess'.planned /\ sess'.st.state = "Idle"
    /\ sess'.done[1].what = "complete" <=> sess'.planned = sess'.done[1].target
    /\ SameMotion /\ ~mach'.refused /\ mach'.stop = mach.stop
    /\ query'.at = "none" \/ (query' = query /\ sess.lead = 0)
    /\ UNCHANGED <<wire, loop, captured>>

LetsGo == Release /\ UNCHANGED <<mach, captured>>

\* A tick starts to admit segments.
Ticks ==
    /\ sess.armed /\ loop.at = "loop" /\ sess.pending = Nothing
    /\ loop'.at = "admit" /\ loop'.plan = TickAnchor(sess)
    /\ UNCHANGED <<mach, sess, captured>>
    /\ Asks \/ UNCHANGED <<query, wire>>

\* A step or a target is about to be written.
Legged(plan, todo) ==
    \A i \in DOMAIN todo :
      /\ Here.safe => Crosses(LegFrom(plan, todo, i), todo[i])
      /\ Nears(todo[Len(todo)], LegFrom(plan, todo, i), todo[i])
Starts ==
    /\ sess.armed /\ loop.at = "loop" /\ sess.pending = Nothing
    /\ Here.steps \/ Here.targets
    /\ UNCHANGED <<mach, wire, query, sess, captured>>
    /\ loop'.at = "write" /\ loop'.plan = CommandAnchor
    /\ Inside(CommandAnchor) => \A i \in DOMAIN loop'.todo : Inside(loop'.todo[i])
    /\ \/ loop'.kind = "step" /\ Here.steps
       \/ loop'.kind = "target" /\ sess.after /\ Legged(loop'.plan, loop'.todo)

Quiet ==
    /\ SameMotion /\ (mach'.refused <=> mach.refused) /\ SameSession /\ loop' = loop
    /\ mach'.stop = mach.stop \/ ~sess.armed
    /\ \/ captured' = captured
       \/ captured' = <<sess.planned>> /\ sess.armed /\ ~AdmissionInFlight
    /\ \/ UNCHANGED <<query, wire>>
       \/ Asks
       \/ query'.at = "none" /\ wire' = Forgotten(wire)

LEMMA HearsIs ==
    ASSUME TypeOK, BaseInv, TakeStatus, Ended = Seen,
           sess.pending # Nothing => query.pos # sess.pending[1].target
    PROVE  Hears \/ LetsGo
<1>1. sess \in Sessions /\ mach \in Machines /\ query.at = "answered"
  BY TakeStatusIs DEF TypeOK
<1>2. CASE Release /\ UNCHANGED mach
  BY <1>2, TakeStatusIs DEF LetsGo
<1>3. CASE /\ canContinueJog(Sample.state) /\ sess' = Answered /\ query' = NoQuery
           /\ mach' = [mach EXCEPT !.refused = @ /\ ~Settled(Ended, Sample)]
           /\ UNCHANGED <<wire, loop, input>>
  <2>1. /\ Seen \in Sessions /\ Seen.armed = sess.armed /\ Seen.lead = sess.lead /\ Seen.st = Sample
        /\ Seen.planned = sess.planned /\ Seen.pending = sess.pending /\ Seen.done = sess.done
        /\ Seen.after = (sess.lead = 0)
    BY <1>1, AnsweredTyped DEF Seen, Sessions
  <2>2. Ended = Seen
    OBVIOUS
  <2>3. Settled(Ended, Sample) <=> sess.lead = 0 /\ query.state = "Idle"
    BY <2>1, <2>2 DEF Settled, Sample
  <2>4. Sample.pos = query.pos /\ query.state \in {"Idle", "Run"}
    BY <1>3 DEF Sample, canContinueJog
  <2>5. /\ Answered.armed = sess.armed /\ Answered.lead = sess.lead /\ Answered.st = Sample
        /\ Answered.after = (sess.lead = 0)
        /\ Answered.pending = sess.pending /\ Answered.done = sess.done
        /\ Answered.planned = IF sess.lead = 0 /\ query.state = "Idle" THEN query.pos ELSE sess.planned
    <3>1. CASE Settled(Ended, Sample)
      BY <2>2, <2>4, <3>1, <2>1, <2>3 DEF Answered, Sessions
    <3>2. CASE ~Settled(Ended, Sample)
      BY <2>1, <2>2, <2>3, <3>2 DEF Answered
    <3> QED BY <3>1, <3>2
  <2>6. /\ SameMotion /\ (mach'.refused <=> mach.refused /\ ~(sess.lead = 0 /\ query.state = "Idle"))
        /\ mach'.stop = mach.stop
    BY <1>1, <1>3, <2>3 DEF SameMotion, Machines
  <2> QED BY <1>3, <2>4, <2>5, <2>6, TakeStatusIs, DisarmedTyped DEF Hears
<1> QED BY <1>2, <1>3, TakeStatusIs

\* What a returned write makes of the session
LEMMA ReturnsIs ==
    ASSUME TypeOK, BaseInv, WriteReturns
    PROVE  Returns
<1> DEFINE to == Head(loop.todo)
<1> DEFINE next == [loop EXCEPT !.plan = to, !.todo = Tail(loop.todo),
                                !.sent = (@ + 1) % (MaxPerTick + 1)]
<1> DEFINE pend == <<[target |-> to, verify |-> QueuedUntil + Grace]>>
<1>1. loop.at = "sent" /\ loop \in Loops /\ UNCHANGED <<mach, captured>>
  BY DEF WriteReturns, TypeOK
<1>2. /\ Committed \in Sessions /\ Committed.planned = to /\ ~Committed.after
      /\ Committed.armed = sess.armed /\ Committed.st = sess.st /\ Committed.done = Nothing
      /\ Tracked \/ Paced => Committed.lead = sess.lead + moveDuration(axesDelta(loop.plan, to))
      /\ Committed.pending = sess.pending
  <2>1. Tracked \/ Paced => loop.kind = "tick" \/ ~Here.slow
    BY <1>1 DEF Tracked, Sticks, Prompt, Paced, BaseInv, LeaseInv
  <2> QED BY <1>1, <2>1, CommittedTyped DEF Writing
<1>3. /\ [next EXCEPT !.at = "admit"].at = "admit" /\ [next EXCEPT !.at = "admit"].plan = to
      /\ [next EXCEPT !.at = "write", !.sent = 0, !.due = QueuedUntil].at = "write"
      /\ [next EXCEPT !.at = "write", !.sent = 0, !.due = QueuedUntil].plan = to
      /\ [next EXCEPT !.at = "write", !.sent = 0, !.due = QueuedUntil].todo = Tail(loop.todo)
      /\ [next EXCEPT !.at = "write", !.sent = 0, !.due = QueuedUntil].kind = loop.kind
  BY <1>1 DEF Loops
<1>4. \/ /\ sess' = Committed /\ UNCHANGED <<wire, query>>
         /\ \/ loop' = [next EXCEPT !.at = "admit"] \/ loop' = AtLoop
            \/ loop.kind # "tick" /\ Tail(loop.todo) # <<>> /\ loop' = [next EXCEPT !.at = "write", !.sent = 0, !.due = QueuedUntil]
      \/ /\ loop.kind = "target" /\ Tail(loop.todo) = <<>>
         /\ sess' = [Committed EXCEPT !.pending = pend]
         /\ loop' = AtLoop /\ RequestStatus
  BY DEF WriteReturns
<1>5. pend # Nothing /\ pend[1].target = to
  <2> HIDE DEF to
  <2> QED BY DEF Nothing
<1> HIDE DEF next, pend, to
<1>6. CASE /\ sess' = Committed /\ UNCHANGED <<wire, query>>
           /\ \/ loop' = [next EXCEPT !.at = "admit"] \/ loop' = AtLoop
              \/ loop.kind # "tick" /\ Tail(loop.todo) # <<>> /\ loop' = [next EXCEPT !.at = "write", !.sent = 0, !.due = QueuedUntil]
  BY <1>1, <1>2, <1>3, <1>6 DEF Returns, to
<1>7. CASE /\ loop.kind = "target" /\ Tail(loop.todo) = <<>>
           /\ sess' = [Committed EXCEPT !.pending = pend]
           /\ loop' = AtLoop /\ RequestStatus
  <2> DEFINE s == [Committed EXCEPT !.pending = pend]
  <2>1. /\ s.planned = to /\ ~s.after
        /\ s.armed = sess.armed /\ s.st = sess.st /\ s.done = Nothing
        /\ Tracked \/ Paced => s.lead = sess.lead + moveDuration(axesDelta(loop.plan, to))
        /\ s.pending = pend
    BY <1>2 DEF Sessions
  <2>2. Asks
    BY <1>7 DEF RequestStatus, Asks
  <2>3. sess' = s
    BY <1>7
  <2> HIDE DEF s
  <2> QED BY <1>1, <1>5, <1>7, <2>1, <2>2, <2>3 DEF Returns, to
<1> QED BY <1>4, <1>6, <1>7

\* Every step but those that begin or end a command
LEMMA SharedWays ==
    ASSUME TypeOK, BaseInv, [Next]_vars
    PROVE  \/ TakeLine \/ SendLine \/ Returns \/ Admit \/ Arm \/ LetsGo \/ Ticks \/ SetOrigin \/ Quiet
           \/ TakeStatus \/ TargetTick
           \/ \E d \in Inputs \ {0} : Step(d)
           \/ \E x \in 0 .. Here.xmax + 1, z \in {Nothing} \cup {<<n>> : n \in 0 .. ZMax} : Target(x, z)
           \/ \E stalls \in BOOLEAN : Pass(stalls)
           \/ \E why \in {"Hold", "Alarm"} : Stops(why)
<1>2. mach \in Machines /\ sess \in Sessions /\ loop \in Loops
  BY DEF TypeOK
<1>4. mach' = mach => SameMotion /\ (mach'.refused <=> mach.refused) /\ mach'.stop = mach.stop
  BY DEF SameMotion
<1>5. sess' = sess => SameSession
  BY DEF SameSession
<1>6. RequestStatus => Asks
  BY DEF RequestStatus, Asks
<1>7. Recovers => Quiet
  BY <1>2, <1>5 DEF Recovers, Quiet, SameMotion, Machines
<1>8. Disarm \/ WriteFails => LetsGo
  BY DEF Disarm, WriteFails, LetsGo
<1>9. ASSUME NEW in \in Here.inputs, SetInput(in) PROVE Quiet
  BY <1>4, <1>5, <1>9 DEF SetInput, Quiet
<1>10. CapturePosition => Quiet
  BY <1>4, <1>5 DEF CapturePosition, Quiet
<1>11. CaptureEnds => Quiet
  BY <1>4, <1>5 DEF CaptureEnds, Quiet
<1>12. StatusTick \/ TargetRetry => Quiet
  BY <1>4, <1>5, <1>6 DEF StatusTick, TargetRetry, Quiet
<1>14. StatusFails => Quiet \/ LetsGo
  BY <1>2, <1>4, DisarmedTyped DEF SameSession, Sessions, StatusFails, Quiet, LetsGo
<1>16. MotionTick => Quiet \/ Ticks
  <2> SUFFICES ASSUME MotionTick PROVE Quiet \/ Ticks
    OBVIOUS
  <2> DEFINE next == [AtLoop EXCEPT !.at = "admit", !.plan = TickAnchor(sess), !.basis = input]
  <2>1. /\ sess.armed /\ loop.at = "loop" /\ sess.pending = Nothing /\ UNCHANGED <<mach, sess, captured>>
        /\ RequestStatus \/ UNCHANGED <<query, wire>>
        /\ loop' = loop \/ loop' = next
    BY DEF MotionTick
  <2>2. next.at = "admit" /\ next.plan = TickAnchor(sess)
    BY DEF AtLoop
  <2> HIDE DEF next
  <2> QED BY <1>4, <1>5, <1>6, <2>1, <2>2 DEF Quiet, Ticks
<1>17. UNCHANGED vars => Quiet
  BY <1>4, <1>5 DEF vars, Quiet
<1> QED BY <1>7, <1>8, <1>9, <1>10, <1>11, <1>12, <1>14, <1>16, <1>17, ReturnsIs DEF Next

LEMMA StickWays ==
    ASSUME TypeOK, BaseInv, [Next]_vars, ~Here.steps, ~Here.targets
    PROVE  \/ TakeLine \/ SendLine \/ Returns \/ Admit \/ Arm \/ Hears \/ LetsGo \/ Ticks \/ SetOrigin \/ Quiet
           \/ \E stalls \in BOOLEAN : Pass(stalls)
           \/ \E why \in {"Hold", "Alarm"} : Stops(why)
<1>1. sess.pending = Nothing
  BY DEF BaseInv, LeaseInv
<1>2. ~TargetTick /\ (\A d \in Inputs \ {0} : ~Step(d))
      /\ (\A x \in 0 .. Here.xmax + 1, z \in {Nothing} \cup {<<n>> : n \in 0 .. ZMax} : ~Target(x, z))
  BY <1>1 DEF TargetTick, Step, Target
<1>3. TakeStatus => Hears \/ LetsGo
  <2> SUFFICES ASSUME TakeStatus PROVE Hears \/ LetsGo
    OBVIOUS
  <2>1. Seen.pending = sess.pending
    BY TakeStatusIs, AnsweredTyped DEF Seen, TypeOK, Sessions
  <2>2. Ended = Seen
    BY <1>1, <2>1 DEF Ended, AfterTarget
  <2> QED BY <1>1, <2>2, HearsIs
<1> QED BY <1>2, <1>3, SharedWays

\* A segment is SegDur long at most, and stays inside the limits.
LEMMA NextTargetIs ==
    ASSUME TypeOK
    PROVE  /\ NextTarget \in Points /\ loop.plan \in Points
           /\ moveDuration(axesDelta(loop.plan, NextTarget)) = SegDur
           /\ Inside(loop.plan) => Inside(NextTarget)
<1>1. input \in Inputs /\ SegDur \in Nat \ {0} /\ loop.plan \in Points
  BY PartsAre, TimeAssumption DEF TypeOK
<1>2. input \in Int /\ 0 - SegDur <= input /\ input <= SegDur
  BY <1>1 DEF Inputs
<1> DEFINE to == Sum(loop.plan, MotionDelta(input))
<1>3. to \in Points /\ NextTarget = clampJogTarget(loop.plan, to)
  BY <1>1, <1>2, PointsAre DEF NextTarget, Admitted
<1>4. \A a \in Axes : to[a] = loop.plan[a] + (IF a = "x" THEN input ELSE 0)
  BY DEF Sum, MotionDelta
<1> HIDE DEF to
<1>5. NextTarget \in Points /\ (Inside(loop.plan) => Inside(NextTarget))
  BY <1>1, <1>3, ClampTyped
<1>6. ASSUME NEW a \in Axes PROVE Abs(NextTarget[a] - loop.plan[a]) <= SegDur
  <2>1. loop.plan[a] \in Int /\ LimitOf(a) \in Nat
    BY <1>1, PointsAre, SceneIs
  <2>2. NextTarget[a] = IF loop.plan[a] \in 0 .. LimitOf(a) THEN Max2(0, Min2(to[a], LimitOf(a))) ELSE to[a]
    BY <1>3 DEF clampJogTarget
  <2>3. to[a] \in Int /\ to[a] - loop.plan[a] <= SegDur /\ loop.plan[a] - to[a] <= SegDur
    BY <1>1, <1>2, <1>4, <2>1
  <2> QED BY <1>1, <2>1, <2>2, <2>3 DEF Max2, Min2, Abs
<1> DEFINE d == axesDelta(loop.plan, NextTarget)
<1>7. /\ "x" \in Axes /\ "z" \in Axes
      /\ d["x"] = NextTarget["x"] - loop.plan["x"] /\ d["z"] = NextTarget["z"] - loop.plan["z"]
  BY DEF axesDelta, Axes
<1>8. d["x"] \in Int /\ d["z"] \in Int
  BY <1>1, <1>5, <1>7, PointsAre
<1> HIDE DEF d
<1>9. Abs(d["x"]) <= SegDur /\ Abs(d["z"]) <= SegDur
  BY <1>6, <1>7
<1>10. moveDuration(d) = SegDur
  BY <1>1, <1>8, <1>9 DEF moveDuration, Max2, Abs
<1> QED BY <1>1, <1>5, <1>10 DEF d

LEMMA AdmitIs ==
    ASSUME TypeOK, Admit
    PROVE  /\ loop.at = "admit" /\ UNCHANGED <<scene, mach, wire, query, sess, input, capture, captured, stale, acts>>
           /\ \/ loop' = AtLoop
              \/ /\ MayAdmit /\ loop'.at = "write" /\ loop'.plan = loop.plan
                 /\ loop'.todo = <<NextTarget>> /\ Head(loop'.todo) = NextTarget
<1>1. loop \in Loops
  BY DEF TypeOK
<1>2. /\ loop.at = "admit" /\ UNCHANGED <<scene, mach, wire, query, sess, input, capture, captured, stale, acts>>
      /\ \/ loop' = AtLoop
         \/ MayAdmit /\ loop' = [loop EXCEPT !.at = "write", !.todo = <<NextTarget>>, !.basis = Admitted]
  BY DEF Admit
<1>3. Head(<<NextTarget>>) = NextTarget
  OBVIOUS
<1> QED BY <1>1, <1>2, <1>3 DEF Loops

\* The time still to be worked off
LEMMA AheadTyped ==
    ASSUME TypeOK
    PROVE  /\ QueueTime(mach.queue) \in Nat /\ WireTime(wire) \in Nat /\ Ahead \in Nat
           /\ mach.queue = <<>> /\ wire = <<>> => Ahead = 0
<1>1. QueueTime(mach.queue) \in Nat /\ (mach.queue = <<>> => QueueTime(mach.queue) = 0)
  BY PartsAre, QueueTimeTyped
<1>2. WireTime(wire) \in Nat /\ (wire = <<>> => WireTime(wire) = 0)
  BY WireTimeTyped DEF TypeOK
<1> QED BY <1>1, <1>2 DEF Ahead

LEMMA WireTimeOfAsk ==
    ASSUME TypeOK
    PROVE  WireTime(Append(wire, [op |-> "ask"])) = WireTime(wire)
<1>1. [op |-> "ask"] \in Lines /\ JogTime([op |-> "ask"]) = 0 /\ wire \in Seq(Lines)
  BY DEF Lines, JogTime, TypeOK
<1>2. WireTime(Append(wire, [op |-> "ask"])) = WireTime(wire) + 0
  BY <1>1, WireTimeOfAppend
<1> QED BY <1>2, AheadTyped

LEMMA WireTimeOfOrigin ==
    ASSUME TypeOK, SetOrigin
    PROVE  WireTime(wire') = WireTime(wire)
<1> DEFINE zero == [op |-> "origin", seen |-> sess.st.pos]
<1> DEFINE ask == [op |-> "ask"]
<1>1. ask \in Lines /\ zero \in Lines /\ JogTime(ask) = 0 /\ JogTime(zero) = 0 /\ wire \in Seq(Lines)
      /\ wire' \in {Append(wire, ask), Append(Append(wire, zero), ask)}
  BY SetOriginTyped DEF JogTime, TypeOK
<1> HIDE DEF zero, ask
<1>2. Append(wire, zero) \in Seq(Lines)
  BY <1>1, AppendProperties
<1>3. /\ WireTime(Append(wire, ask)) = WireTime(wire) + 0
      /\ WireTime(Append(wire, zero)) = WireTime(wire) + 0
      /\ WireTime(Append(Append(wire, zero), ask)) = WireTime(Append(wire, zero)) + 0
  BY <1>1, <1>2, WireTimeOfAppend
<1>4. WireTime(wire) + 0 = WireTime(wire)
  BY AheadTyped
<1>5. CASE wire' = Append(wire, ask)
  BY <1>3, <1>4, <1>5
<1>6. CASE wire' = Append(Append(wire, zero), ask)
  BY <1>3, <1>4, <1>6
<1> QED BY <1>1, <1>5, <1>6

\* Lines that move nothing take no time; a queue takes some.
LEMMA WireTimeOfCalm ==
    ASSUME NEW lines \in Seq(Lines), Calm(lines)
    PROVE  WireTime(lines) = 0
<1> DEFINE s == JogTimes(lines)
<1>1. /\ s \in Seq(Nat) /\ Len(s) = Len(lines) /\ WireTime(lines) = Total(s)
      /\ \A i \in 1 .. Len(lines) : s[i] = JogTime(lines[i])
  BY JogTimesAre
<1>2. Len(lines) \in Nat /\ DOMAIN lines = 1 .. Len(lines)
  BY LenProperties
<1>3. \A i \in 1 .. Len(s) : s[i] = 0
  <2> HIDE DEF s
  <2> QED BY <1>1, <1>2 DEF Calm, JogTime
<1> HIDE DEF s
<1>4. PICK g \in [0 .. Len(s) -> Nat] :
        g[0] = 0 /\ (\A n \in 1 .. Len(s) : g[n] = g[n - 1] + s[n]) /\ Total(s) = g[Len(s)]
  BY <1>1, TotalDefined
<1> DEFINE Bad == {n \in 0 .. Len(s) : g[n] # 0}
<1>5. Bad = {}
  <2> SUFFICES ASSUME Bad # {} PROVE FALSE
    OBVIOUS
  <2>1. Bad \in SUBSET Nat
    BY <1>1, <1>2
  <2>2. PICK n \in Bad : \A k \in Bad : n <= k
    BY <2>1, Least
  <2>3. n \in 1 .. Len(s) /\ n - 1 \in 0 .. Len(s) /\ n - 1 \notin Bad
    BY <1>1, <1>2, <1>4, <2>2
  <2>4. g[n] = 0
    <3>1. g[n - 1] = 0
      BY <2>3
    <3>2. g[n] = g[n - 1] + s[n] /\ s[n] = 0
      BY <1>3, <1>4, <2>3
    <3> QED BY <3>1, <3>2
  <2> QED BY <2>2, <2>4
<1>6. Len(s) \in 0 .. Len(s)
  BY <1>1, <1>2
<1> QED BY <1>1, <1>4, <1>5, <1>6

LEMMA QueueGoes ==
    ASSUME TypeOK, BaseInv, mach.queue # <<>>
    PROVE  /\ QueueTime(mach.queue) > 0
           /\ 1 \in DOMAIN mach.queue /\ Head(mach.queue) = mach.queue[1] /\ mach.queue[1] \in Moves
           /\ mach.queue[1].dur \in Nat \ {0} /\ mach.queue[1].left \in 1 .. mach.queue[1].dur
<1> DEFINE q == mach.queue
<1>1. q \in Seq(Moves) /\ 1 \in DOMAIN q /\ Head(q) = q[1] /\ q[1] \in Moves
  <2>1. q \in Seq(Moves) /\ q # <<>>
    BY PartsAre
  <2> HIDE DEF q
  <2> QED BY <2>1, EmptySeq, LenProperties, ElementOfSeq, HeadTailProperties
<1>2. q[1].dur \in Nat \ {0} /\ q[1].left \in 1 .. q[1].dur
  BY <1>1 DEF BaseInv, QueueTimed, Moves
<1>3. QueueTime(q) = q[1].left + QueueTime(Tail(q)) /\ QueueTime(Tail(q)) \in Nat
  BY <1>1, HeadTailProperties, QueueTimeOfTail, QueueTimeTyped
<1>4. QueueTime(q) > 0
  <2> DEFINE t == QueueTime(Tail(q))
  <2>1. t \in Nat /\ QueueTime(q) = q[1].left + t
    BY <1>3
  <2> HIDE DEF t, q
  <2> QED BY <1>2, <2>1
<1> QED BY <1>1, <1>2, <1>4

LEMMA TakeLineAhead ==
    ASSUME TypeOK, TakeLine
    PROVE  Ahead' <= Ahead
<1> DEFINE q == QueueTime(mach.queue)
<1> DEFINE t == WireTime(Tail(wire))
<1> DEFINE d == JogTime(wire[1])
<1>1. mach.queue \in Seq(Moves) /\ q \in Nat /\ wire \in Seq(Lines) /\ wire # <<>> /\ Head(wire) = wire[1]
      /\ wire' = Tail(wire) /\ Tail(wire) \in Seq(Lines)
  BY PartsAre, QueueTimeTyped, TakeLineIs, HeadTailProperties
<1>2. d \in Nat /\ t \in Nat /\ WireTime(wire) = d + t
  <2>1. WireTime(wire) = JogTime(wire[1]) + WireTime(Tail(wire))
    BY <1>1, WireTimeOfTail
  <2>2. t \in Nat
    BY <1>1, WireTimeTyped
  <2>3. wire[1] \in Lines
    BY TakeLineIs
  <2>4. d \in Nat
    BY <2>3, JogLinesAre DEF JogTime, JogLines
  <2> QED BY <2>1, <2>2, <2>4
<1>3. QueueTime(mach'.queue) = q \/ QueueTime(mach'.queue) = q + d
  <2>1. CASE /\ wire[1].op = "jog" /\ NewMove \in Moves
             /\ mach'.queue = Append(mach.queue, NewMove)
    BY <1>1, <2>1, QueueTimeOfAppend DEF NewMove, JogTime
  <2>2. CASE mach' = [mach EXCEPT !.refused = TRUE]
    BY <2>2 DEF TypeOK, Machines
  <2>3. CASE mach' = mach
    BY <2>3
  <2> QED BY <2>1, <2>2, <2>3, TakeLineIs
<1>4. WireTime(wire') = t
  BY <1>1
<1>5. Ahead = q + (d + t)
  BY <1>2 DEF Ahead
<1>6. Ahead' = QueueTime(mach'.queue) + t
  BY <1>4 DEF Ahead
<1> HIDE DEF q, t, d
<1> QED BY <1>1, <1>2, <1>3, <1>5, <1>6

LEMMA PassAhead ==
    ASSUME TypeOK, BaseInv, ~Here.lags, mach.stop = "no", NEW stalls \in BOOLEAN, Pass(stalls)
    PROVE  Ahead' = Less(Ahead)
<1> DEFINE q == QueueTime(mach.queue)
<1>1. mach' = Executes /\ wire = <<>> /\ wire' = <<>>
  BY DEF Pass
<1>2. mach.stop = "no" /\ mach.queue \in Seq(Moves) /\ q \in Nat
  BY PartsAre, QueueTimeTyped
<1>3. Ahead = q /\ Ahead' = QueueTime(mach'.queue)
  <2>1. WireTime(wire) = 0 /\ WireTime(wire') = 0
    BY <1>1, WireTimeTyped DEF TypeOK
  <2>2. QueueTime(mach'.queue) \in Nat
    BY <1>1, ExecutesTyped, QueueTimeTyped DEF Machines
  <2> QED BY <1>2, <2>1, <2>2 DEF Ahead
<1>4. CASE mach.queue = <<>>
  <2>1. mach' = mach /\ q = 0
    BY <1>1, <1>2, <1>4, QueueTimeTyped DEF Executes
  <2>2. Ahead = 0 /\ Ahead' = 0
    BY <1>3, <2>1
  <2> QED BY <2>2 DEF Less
<1>5. CASE mach.queue # <<>>
  <2> DEFINE t == QueueTime(Tail(mach.queue))
  <2>1. mach.queue[1].left \in Nat \ {0} /\ mach.queue[1].left > 0
    BY <1>2, <1>5, EmptySeq, LenProperties, ElementOfSeq DEF BaseInv, QueueTimed, Moves
  <2>2. q = mach.queue[1].left + t /\ t \in Nat
    BY <1>2, <1>5, HeadTailProperties, QueueTimeOfTail, QueueTimeTyped
  <2>3. QueueTime(mach'.queue) = q - 1
    <3>1. CASE mach'.queue = [mach.queue EXCEPT ![1] = Worked(@)]
      BY <1>2, <1>5, <2>1, <3>1, QueueTimePasses
    <3>2. CASE mach.queue[1].left = 1 /\ mach'.queue = Tail(mach.queue)
      <4>1. QueueTime(mach'.queue) = t
        BY <3>2
      <4> HIDE DEF q, t
      <4> QED BY <2>1, <2>2, <3>2, <4>1
    <3> QED BY <1>1, <1>2, <1>5, <3>1, <3>2, ExecutesIs
  <2> HIDE DEF q, t
  <2>4. q > 0
    BY <1>2, <2>1, <2>2
  <2> QED BY <1>2, <1>3, <2>3, <2>4 DEF Less
<1> QED BY <1>4, <1>5

-----------------------------------------------------------------------------
(* The machine does not run ahead of the session.                           *)

\* PaceInv of a machine that keeps the pace
PaceParts ==
    /\ Ahead <= Lookahead + SegDur
    /\ sess.armed => Ahead <= sess.lead + (IF loop.at = "sent" THEN SegDur ELSE 0)
    /\ sess.lead <= Lookahead + SegDur
    /\ Writing => sess.lead < Lookahead
                  /\ moveDuration(axesDelta(loop.plan, Head(loop.todo))) = SegDur

LEMMA PaceKept ==
    ASSUME TypeOK, BaseInv, PaceInv, [Next]_vars
    PROVE  PaceInv'
<1> SUFFICES ASSUME Paced PROVE PaceParts'
  BY SceneSays DEF PaceInv, PaceParts
<1>1. PaceParts
  BY DEF PaceInv, PaceParts
<1>2. /\ Ahead \in Nat /\ sess.lead \in Nat /\ SegDur \in Nat \ {0} /\ Lookahead \in Nat
      /\ ~Here.steps /\ ~Here.targets
  BY AheadTyped, PartsAre, TimeAssumption DEF Paced
<1>3. TypeOK'
  BY TypeKept
<1>4. Ahead' \in Nat /\ sess'.lead \in Nat
  <2>1. mach'.queue \in Seq(Moves) /\ wire' \in Seq(Lines) /\ sess'.lead \in Nat
    BY <1>3 DEF TypeOK, Machines, Sessions
  <2>2. QueueTime(mach'.queue) \in Nat /\ WireTime(wire') \in Nat
    BY <2>1, QueueTimeTyped, WireTimeTyped
  <2> QED BY <2>1, <2>2 DEF Ahead
<1>5. SameMotion /\ WireTime(wire') = WireTime(wire) => Ahead' = Ahead
  BY DEF SameMotion, Ahead
<1>6. /\ Asks => WireTime(wire') = WireTime(wire)
      /\ wire' = Forgotten(wire) => WireTime(wire') = WireTime(wire)
      /\ wire' = wire => WireTime(wire') = WireTime(wire)
      /\ mach' = mach => SameMotion
  BY WireTimeOfAsk, WireTimeOfForgotten DEF Asks, TypeOK, SameMotion
<1>7. CASE TakeLine
  BY <1>1, <1>2, <1>4, <1>7, TakeLineAhead, TakeLineIs DEF PaceParts, Writing
<1>8. CASE SendLine
  <2> DEFINE d == moveDuration(axesDelta(loop.plan, Head(loop.todo)))
  <2> DEFINE l == jogCommand(loop.plan, Head(loop.todo), d)
  <2>1. /\ loop.at = "write" /\ loop'.at = "sent" /\ loop'.plan = loop.plan /\ loop'.todo = loop.todo
        /\ UNCHANGED <<mach, sess>>
    BY <1>8 DEF SendLine, TypeOK, Loops
  <2>2. wire' = Append(wire, l) /\ l \in Lines
    BY <1>8, SendLineTyped DEF Lines
  <2>3. d = SegDur /\ sess.lead < Lookahead
    BY <1>1, <2>1 DEF PaceParts, Writing
  <2>4. JogTime(l) = SegDur
    BY <2>3 DEF JogTime, jogCommand
  <2> HIDE DEF d, l
  <2>5. WireTime(wire') = WireTime(wire) + SegDur
    BY <2>2, <2>4, WireTimeOfAppend DEF TypeOK
  <2>6. Ahead' = Ahead + SegDur
    BY <1>2, <2>1, <2>5, AheadTyped DEF Ahead
  <2>7. sess.armed
    BY <2>1 DEF BaseInv, LeaseInv
  <2> QED BY <1>1, <1>2, <2>1, <2>3, <2>6, <2>7 DEF PaceParts, Writing, d
<1>9. CASE Returns
  <2>1. sess'.lead = sess.lead + SegDur /\ sess'.armed = sess.armed /\ sess.lead < Lookahead
    BY <1>1, <1>9 DEF Returns, PaceParts, Writing
  <2>2. Ahead' = Ahead
    BY <1>5, <1>6, <1>9 DEF Returns
  <2>3. loop'.at \notin {"write", "sent"}
    BY <1>2, <1>9, DisarmedTyped DEF Returns, BaseInv, LeaseInv
  <2> QED BY <1>1, <1>2, <2>1, <2>2, <2>3 DEF PaceParts, Writing
<1>10. CASE Admit
  <2>1. Ahead' = Ahead
    BY <1>5, <1>6, <1>10, AdmitIs
  <2>2. loop.at = "admit" /\ loop'.at # "sent" /\ UNCHANGED sess
    BY <1>10, AdmitIs, DisarmedTyped
  <2>3. CASE loop' = AtLoop
    BY <1>1, <2>1, <2>2, <2>3, DisarmedTyped DEF PaceParts, Writing
  <2>4. CASE MayAdmit /\ loop'.plan = loop.plan /\ Head(loop'.todo) = NextTarget
    BY <2>4, <1>1, <2>1, <2>2, NextTargetIs DEF MayAdmit, PaceParts, Writing
  <2> QED BY <1>10, <2>3, <2>4, AdmitIs
<1>11. CASE Arm
  <2>1. mach.queue = <<>> /\ wire = <<>> /\ wire' = wire
    BY <1>11, StateIs DEF Arm
  <2>2. SameMotion
    BY <1>11 DEF Arm, SameMotion, TypeOK, Machines
  <2>3. Ahead' = 0
    BY <1>5, <1>6, <2>1, <2>2, AheadTyped
  <2>4. sess'.lead = 0 /\ loop' = loop /\ loop.at = "loop"
    BY <1>11, ArmTyped DEF Arm
  <2> QED BY <1>2, <2>3, <2>4 DEF PaceParts, Writing
<1>12. CASE Hears
  BY <1>5, <1>6, <1>12, <1>1 DEF Hears, PaceParts, Writing
<1>13. CASE LetsGo
  BY <1>5, <1>6, <1>13, DisarmedTyped, <1>1, <1>2 DEF LetsGo, Release, PaceParts, Writing
<1>14. CASE Ticks
  BY <1>5, <1>6, <1>14, <1>1 DEF Ticks, PaceParts, Writing
<1>15. CASE SetOrigin
  <2>1. UNCHANGED <<mach, sess, loop>>
    BY <1>15 DEF SetOrigin
  <2>2. WireTime(wire') = WireTime(wire)
    BY <1>15, WireTimeOfOrigin
  <2>3. Ahead' = Ahead
    BY <1>5, <1>6, <2>1, <2>2
  <2> QED BY <1>1, <2>1, <2>3 DEF PaceParts, Writing
<1>16. CASE Quiet
  BY <1>5, <1>6, <1>16, <1>1 DEF Quiet, SameSession, PaceParts, Writing
<1>17. ASSUME NEW stalls \in BOOLEAN, Pass(stalls) PROVE PaceParts'
  <2>1. Ahead' = Less(Ahead)
    BY <1>17, PassAhead DEF Paced, BaseInv, LeaseInv
  <2>2. sess'.armed = sess.armed /\ sess'.lead = (IF sess.armed THEN Less(sess.lead) ELSE sess.lead)
    BY <1>17 DEF Pass, TypeOK, Sessions
  <2>3. loop' = loop
    BY <1>17, PassLoop
  <2>4. Writing => sess.armed
    BY DEF Writing, BaseInv, LeaseInv
  <2> QED BY <1>1, <1>2, <2>1, <2>2, <2>3, <2>4 DEF PaceParts, Writing, Less
<1>18. ASSUME NEW why \in {"Hold", "Alarm"}, Stops(why) PROVE FALSE
  BY <1>18 DEF Stops, Paced
<1> QED BY <1>2, <1>7, <1>8, <1>9, <1>10, <1>11, <1>12, <1>13, <1>14, <1>15, <1>16, <1>17, <1>18, StickWays

-----------------------------------------------------------------------------
(* One query at a time.                                                     *)

LEMMA QueryWays ==
    ASSUME TypeOK, BaseInv, QueryInv, [Next]_vars
    PROVE  \/ UNCHANGED <<query, wire>>
           \/ query.at = "none" /\ Asks /\ (loop.at = "loop" \/ loop'.at = "loop")
           \/ query'.at = "none" /\ wire' = Forgotten(wire)
           \/ query'.at = "none" /\ wire' = wire /\ query.at = "answered"
           \/ query'.at = query.at /\ wire' = wire /\ wire = <<>>
           \/ query.at = "none" /\ SetOrigin
           \/ TakeLine \/ SendLine
<1>1. RequestStatus => Asks
  BY DEF RequestStatus, Asks
<1>2. Release => query'.at = "none" /\ wire' = Forgotten(wire)
  BY DisarmedTyped DEF Release
<1>3. query' = NoQuery => query'.at = "none"
  BY DisarmedTyped
<1>4. ASSUME NEW why \in {"Hold", "Alarm"}, Stops(why) PROVE UNCHANGED <<query, wire>>
  BY <1>4 DEF Stops
<1>5. ASSUME NEW stalls \in BOOLEAN, Pass(stalls) PROVE query'.at = query.at /\ wire' = wire /\ wire = <<>>
  BY <1>5, PassSays
<1>6. ASSUME NEW in \in Here.inputs, SetInput(in) PROVE UNCHANGED <<query, wire>>
  BY <1>6 DEF SetInput
<1>7. Recovers \/ Arm \/ CapturePosition \/ CaptureEnds \/ Admit \/ UNCHANGED vars => UNCHANGED <<query, wire>>
  BY DEF Recovers, Arm, CapturePosition, CaptureEnds, Admit, vars
<1>8. Disarm \/ WriteFails => query'.at = "none" /\ wire' = Forgotten(wire)
  BY <1>2 DEF Disarm, WriteFails
<1>9. StatusTick \/ TargetRetry => query.at = "none" /\ Asks /\ loop.at = "loop"
  BY <1>1 DEF StatusTick, TargetRetry
<1>10. TakeStatus => \/ query'.at = "none" /\ wire' = wire /\ query.at = "answered"
                     \/ query'.at = "none" /\ wire' = Forgotten(wire)
  BY <1>2, <1>3 DEF TakeStatus
<1>11. StatusFails => query'.at = "none" /\ wire' = Forgotten(wire)
  BY <1>2, <1>3 DEF StatusFails
<1>12. WriteReturns => UNCHANGED <<query, wire>> \/ (query.at = "none" /\ Asks /\ loop'.at = "loop")
  BY <1>1, DisarmedTyped DEF WriteReturns, QueryInv
<1>13. MotionTick => UNCHANGED <<query, wire>> \/ (query.at = "none" /\ Asks /\ loop.at = "loop")
  BY <1>1 DEF MotionTick
<1>14. TargetTick => UNCHANGED <<query, wire>> \/ (query'.at = "none" /\ wire' = Forgotten(wire))
  BY <1>2 DEF TargetTick
<1>15. ASSUME NEW d \in Inputs \ {0}, Step(d) PROVE UNCHANGED <<query, wire>> \/ (query.at = "none" /\ Asks /\ loop.at = "loop")
  BY <1>1, <1>15 DEF Step, Commanded, Busy
<1>16. ASSUME NEW x \in 0 .. Here.xmax + 1, NEW z \in {Nothing} \cup {<<n>> : n \in 0 .. ZMax}, Target(x, z)
       PROVE  UNCHANGED <<query, wire>> \/ (query.at = "none" /\ Asks /\ loop.at = "loop")
  BY <1>1, <1>16 DEF Target, Commanded, Busy
<1>17. SetOrigin => query.at = "none"
  BY DEF SetOrigin, Commanded, Busy
<1> QED BY <1>4, <1>5, <1>6, <1>7, <1>8, <1>9, <1>10, <1>11, <1>12, <1>13, <1>14, <1>15, <1>16, <1>17 DEF Next

\* At most one query is among the lines, and only while one is asked.
Single(lines) == \A i, j \in DOMAIN lines : lines[i].op = "ask" /\ lines[j].op = "ask" => i = j
Unasked(lines) == \A i \in DOMAIN lines : lines[i].op # "ask"

LEMMA AskedOnce ==
    ASSUME NEW lines \in Seq(Lines), NEW l \in Lines
    PROVE  /\ Unasked(lines) => Single(Append(lines, l))
           /\ l.op # "ask" => /\ Single(lines) => Single(Append(lines, l))
                              /\ Unasked(lines) => Unasked(Append(lines, l))
<1> DEFINE a == Append(lines, l)
<1> DEFINE n == Len(lines)
<1>1. /\ DOMAIN a = 1 .. n + 1 /\ DOMAIN lines = 1 .. n /\ n \in Nat
      /\ \A i \in 1 .. n : a[i] = lines[i]
      /\ a[n + 1] = l
      /\ \A i \in 1 .. n + 1 : i \in 1 .. n \/ i = n + 1
  BY AppendIs
<1> HIDE DEF a, n
<1>2. Unasked(lines) => Single(a)
  BY <1>1 DEF Unasked, Single
<1>3. l.op # "ask" => (Single(lines) => Single(a)) /\ (Unasked(lines) => Unasked(a))
  BY <1>1 DEF Unasked, Single
<1> QED BY <1>2, <1>3 DEF a

LEMMA AskedOnceKept ==
    ASSUME TypeOK, BaseInv, QueryInv, [Next]_vars
    PROVE  Single(wire') /\ (query'.at # "asked" => Unasked(wire'))
<1>1. wire \in Seq(Lines) /\ Single(wire) /\ (query.at # "asked" => Unasked(wire))
  BY DEF TypeOK, QueryInv, NoAsks, Single, Unasked
<1>2. ASSUME query.at = "none", Asks PROVE Single(wire') /\ query'.at = "asked"
  <2> DEFINE ask == [op |-> "ask"]
  <2>1. ask \in Lines /\ Unasked(wire) /\ wire' = Append(wire, ask) /\ query'.at = "asked"
    BY <1>1, <1>2 DEF Asks, Lines
  <2> HIDE DEF ask
  <2> QED BY <1>1, <2>1, AskedOnce
<1>3. wire' = Forgotten(wire) => Single(wire') /\ Unasked(wire')
  BY <1>1, ForgottenIs DEF Single, Unasked
<1>4. CASE query.at = "none" /\ SetOrigin
  <2> DEFINE zero == [op |-> "origin", seen |-> sess.st.pos]
  <2> DEFINE ask == [op |-> "ask"]
  <2>1. ask \in Lines /\ zero \in Lines /\ zero.op # "ask"
        /\ wire' \in {Append(wire, ask), Append(Append(wire, zero), ask)}
    BY <1>4, SetOriginTyped
  <2>2. query'.at = "asked" /\ Unasked(wire)
    BY <1>1, <1>4 DEF SetOrigin
  <2> HIDE DEF zero, ask
  <2>3. Append(wire, zero) \in Seq(Lines) /\ Unasked(Append(wire, zero)) /\ Single(Append(wire, ask))
    BY <1>1, <2>1, <2>2, AskedOnce, AppendIs
  <2>4. Single(Append(Append(wire, zero), ask))
    BY <2>1, <2>3, AskedOnce
  <2> QED BY <2>1, <2>2, <2>3, <2>4
<1>5. CASE TakeLine
  <2>1. /\ 1 \in DOMAIN wire /\ DOMAIN wire' = 1 .. Len(wire) - 1 /\ DOMAIN wire = 1 .. Len(wire) /\ Len(wire) \in Nat
        /\ \A i \in DOMAIN wire' : wire'[i] = wire[i + 1] /\ i + 1 \in DOMAIN wire
        /\ wire[1].op = "ask" \/ query' = query
    BY <1>5, TakeLineIs, LenProperties
  <2>2. \A i, j \in 1 .. Len(wire) - 1 : (i + 1 = j + 1 => i = j) /\ i + 1 # 1
    BY <2>1
  <2>3. Single(wire')
    BY <1>1, <2>1, <2>2 DEF Single
  <2>4. CASE wire[1].op = "ask"
    BY <1>1, <2>1, <2>2, <2>3, <2>4 DEF Single, Unasked
  <2>5. CASE query' = query
    BY <1>1, <2>1, <2>3, <2>5 DEF Unasked
  <2> QED BY <2>1, <2>4, <2>5
<1>6. CASE SendLine
  <2> DEFINE l == jogCommand(loop.plan, Head(loop.todo), moveDuration(axesDelta(loop.plan, Head(loop.todo))))
  <2>1. wire' = Append(wire, l) /\ l \in Lines /\ l.op # "ask"
    BY <1>6, SendLineTyped DEF Lines, JogLines
  <2>2. query' = query
    BY <1>6 DEF SendLine
  <2> HIDE DEF l
  <2> QED BY <1>1, <2>1, <2>2, AskedOnce
<1> QED BY <1>1, <1>2, <1>3, <1>4, <1>5, <1>6, QueryWays

\* What the loop turns to
LEMMA LoopWays ==
    ASSUME TypeOK, BaseInv, QueryInv, [Next]_vars
    PROVE  \/ SameLoop /\ (sess.pending = Nothing => sess'.pending = Nothing)
           \/ loop'.at = "loop"
           \/ /\ loop'.at = "admit" /\ loop'.kind = "tick" /\ sess'.pending = Nothing
              /\ Active \/ (loop.at # "loop" /\ loop.kind = "tick")
           \/ /\ loop.at # "loop" /\ loop'.at # "admit" /\ loop'.kind = loop.kind
              /\ UNCHANGED query /\ sess'.pending = Nothing
           \/ /\ loop.at = "loop" /\ loop'.at # "admit" /\ loop'.kind # "tick" /\ query.at = "none"
              /\ (Here.steps /\ loop'.kind = "step") \/ (Here.targets /\ loop'.kind = "target")
              /\ UNCHANGED query /\ sess'.pending = Nothing
<1>1. sess \in Sessions /\ loop \in Loops /\ (loop.at # "loop" => sess.pending = Nothing)
  BY DEF TypeOK, QueryInv
<1>2. /\ sess' = sess => (sess.pending = Nothing => sess'.pending = Nothing)
      /\ loop' = loop => SameLoop
  BY DEF SameLoop
<1>3. AtLoop.at = "loop" /\ Disarmed.pending = Nothing
  BY DisarmedTyped
<1>4. ASSUME NEW why \in {"Hold", "Alarm"}, Stops(why) PROVE loop' = loop /\ sess' = sess
  BY <1>4 DEF Stops
<1>5. ASSUME NEW stalls \in BOOLEAN, Pass(stalls)
      PROVE  SameLoop /\ (sess.pending = Nothing => sess'.pending = Nothing)
  BY <1>1, <1>5, PassLoop DEF Pass, Sessions, Awaited
<1>6. ASSUME NEW in \in Here.inputs, SetInput(in) PROVE loop' = loop /\ sess' = sess
  BY <1>6 DEF SetInput
<1>7. Recovers \/ TakeLine \/ CapturePosition \/ CaptureEnds \/ UNCHANGED vars => loop' = loop /\ sess' = sess
  BY DEF Recovers, TakeLine, CapturePosition, CaptureEnds, vars
<1>8. StatusTick \/ TargetRetry \/ SetOrigin => loop' = loop /\ sess' = sess
  BY DEF StatusTick, TargetRetry, SetOrigin
<1>9. Release => loop'.at = "loop"
  BY <1>3 DEF Release
<1>10. Arm \/ Disarm \/ TakeStatus \/ TargetTick => loop'.at = "loop"
  BY <1>9 DEF Arm, Disarm, TakeStatus, TargetTick
<1>11. StatusFails \/ WriteFails => loop'.at = "loop"
  BY <1>9 DEF StatusFails, WriteFails
<1>12. SendLine => /\ loop.at # "loop" /\ loop'.at # "admit" /\ loop'.kind = loop.kind
                   /\ UNCHANGED query /\ sess'.pending = Nothing
  BY <1>1 DEF SendLine, Loops
<1>13. ASSUME WriteReturns
       PROVE  \/ loop'.at = "loop"
              \/ /\ loop'.at = "admit" /\ loop'.kind = "tick" /\ sess'.pending = Nothing
                 /\ Active \/ (loop.at # "loop" /\ loop.kind = "tick")
              \/ /\ loop.at # "loop" /\ loop'.at # "admit" /\ loop'.kind = loop.kind
                 /\ UNCHANGED query /\ sess'.pending = Nothing
  <2> DEFINE next == [loop EXCEPT !.plan = Head(loop.todo), !.todo = Tail(loop.todo),
                                  !.sent = (@ + 1) % (MaxPerTick + 1)]
  <2>1. loop.at = "sent"
    BY <1>13 DEF WriteReturns
  <2>2. Committed.pending = Nothing
    BY <1>1, <2>1, CommittedTyped DEF Writing
  <2>3. \/ loop.kind = "tick" /\ loop' = [next EXCEPT !.at = "admit"] /\ sess' = Committed
        \/ loop' = AtLoop
        \/ loop' = [next EXCEPT !.at = "write", !.sent = 0, !.due = QueuedUntil] /\ sess' = Committed /\ UNCHANGED query
    BY <1>13 DEF WriteReturns
  <2>4. /\ [next EXCEPT !.at = "admit"].at = "admit" /\ [next EXCEPT !.at = "admit"].kind = loop.kind
        /\ [next EXCEPT !.at = "write", !.sent = 0, !.due = QueuedUntil].at = "write"
        /\ [next EXCEPT !.at = "write", !.sent = 0, !.due = QueuedUntil].kind = loop.kind
    BY <1>1 DEF Loops
  <2> HIDE DEF next
  <2> QED BY <1>3, <2>1, <2>2, <2>3, <2>4
<1>14. MotionTick => \/ loop' = loop /\ sess' = sess
                     \/ /\ loop'.at = "admit" /\ loop'.kind = "tick" /\ sess'.pending = Nothing
                        /\ Active \/ (loop.at # "loop" /\ loop.kind = "tick")
  <2> DEFINE next == [AtLoop EXCEPT !.at = "admit", !.plan = TickAnchor(sess), !.basis = input]
  <2>1. MotionTick => (loop' = loop \/ (loop' = next /\ Active)) /\ sess' = sess /\ sess.pending = Nothing
    BY DEF MotionTick
  <2>2. next.at = "admit" /\ next.kind = "tick"
    BY DEF AtLoop
  <2> HIDE DEF next
  <2> QED BY <2>1, <2>2
<1>15. Admit => \/ loop'.at = "loop"
                \/ /\ loop.at # "loop" /\ loop'.at # "admit" /\ loop'.kind = loop.kind
                   /\ UNCHANGED query /\ sess'.pending = Nothing
  BY <1>1, <1>3 DEF Admit, Loops
<1>16. ASSUME NEW d \in Inputs \ {0}, Step(d)
       PROVE  \/ loop' = loop /\ sess' = sess
              \/ /\ loop.at = "loop" /\ loop'.at # "admit" /\ loop'.kind # "tick" /\ query.at = "none"
                 /\ (Here.steps /\ loop'.kind = "step") \/ (Here.targets /\ loop'.kind = "target")
                 /\ UNCHANGED query /\ sess'.pending = Nothing
  <2> DEFINE to == clampJogTarget(CommandAnchor, Sum(CommandAnchor, MotionDelta(d)))
  <2> DEFINE next == [AtLoop EXCEPT !.at = "write", !.kind = "step", !.plan = CommandAnchor, !.todo = <<to>>, !.due = sess.lead]
  <2>1. /\ loop.at = "loop" /\ query.at = "none" /\ sess.pending = Nothing /\ sess' = sess /\ Here.steps
        /\ loop' = loop \/ (loop' = next /\ UNCHANGED query)
    BY <1>16 DEF Step, Commanded, Busy
  <2>2. next.at = "write" /\ next.kind = "step"
    BY DEF AtLoop
  <2> HIDE DEF next
  <2> QED BY <2>1, <2>2
<1>17. ASSUME NEW x \in 0 .. Here.xmax + 1, NEW z \in {Nothing} \cup {<<n>> : n \in 0 .. ZMax}, Target(x, z)
       PROVE  \/ loop' = loop /\ sess' = sess
              \/ /\ loop.at = "loop" /\ loop'.at # "admit" /\ loop'.kind # "tick" /\ query.at = "none"
                 /\ (Here.steps /\ loop'.kind = "step") \/ (Here.targets /\ loop'.kind = "target")
                 /\ UNCHANGED query /\ sess'.pending = Nothing
  <2>1. /\ loop.at = "loop" /\ query.at = "none" /\ sess.pending = Nothing /\ sess' = sess /\ Here.targets
    BY <1>17 DEF Target, Commanded, Busy
  <2>2. loop' = loop \/ (loop'.at = "write" /\ loop'.kind = "target" /\ UNCHANGED query)
    <3>1. ASSUME NEW s
          PROVE  LET l == [AtLoop EXCEPT !.at = "write", !.kind = "target", !.plan = CommandAnchor, !.todo = s, !.due = sess.lead] IN
                 l.at = "write" /\ l.kind = "target"
      BY DEF AtLoop
    <3> QED BY <1>17, <3>1, TargetLegs
  <2> QED BY <2>1, <2>2
<1> QED BY <1>2, <1>4, <1>5, <1>6, <1>7, <1>8, <1>10, <1>11, <1>12, <1>13, <1>14, <1>15, <1>16, <1>17 DEF Next

LEMMA QueryKept ==
    ASSUME TypeOK, BaseInv, QueryInv, [Next]_vars
    PROVE  QueryInv'
<1>1. /\ \A i, j \in DOMAIN wire' : wire'[i].op = "ask" /\ wire'[j].op = "ask" => i = j
      /\ query'.at # "asked" => \A i \in DOMAIN wire' : wire'[i].op # "ask"
  BY AskedOnceKept DEF Single, Unasked
<1>2. SameLoop /\ loop.at # "loop" /\ loop.kind # "tick" => query'.at = "none"
  <2> SUFFICES ASSUME SameLoop, loop.at # "loop", loop.kind # "tick" PROVE query'.at = "none"
    OBVIOUS
  <2>1. query.at = "none" /\ \A i \in DOMAIN wire : wire[i].op # "ask"
    BY DEF QueryInv, NoAsks
  <2>2. SendLine => query' = query
    BY DEF SendLine
  <2>3. TakeLine => query' = query
    BY <2>1, TakeLineIs
  <2>4. ~SetOrigin
    BY DEF SetOrigin, Commanded
  <2> QED BY <2>1, <2>2, <2>3, <2>4, QueryWays DEF SameLoop
<1>3. /\ loop'.at # "loop" /\ loop'.kind # "tick" => query'.at = "none"
      /\ loop'.at = "admit" => loop'.kind = "tick"
      /\ sess'.pending # Nothing => loop'.at = "loop"
  <2>1. CASE SameLoop /\ (sess.pending = Nothing => sess'.pending = Nothing)
    BY <1>2, <2>1 DEF QueryInv, SameLoop
  <2>2. CASE loop'.at = "loop"
    BY <2>2
  <2>3. CASE ~SameLoop /\ loop'.at # "loop"
    BY <2>3, LoopWays DEF QueryInv
  <2> QED BY <2>1, <2>2, <2>3, LoopWays
<1> QED BY <1>1, <1>3 DEF QueryInv, NoAsks

LEMMA EndTargetIs ==
    ASSUME NEW s \in Sessions, NEW what \in {"complete", "short"}, NEW p \in Points
    PROVE  LET e == EndTarget(s, what, p) IN
           /\ e.armed = s.armed /\ e.planned = p /\ e.lead = 0 /\ e.after /\ e.pending = Nothing /\ e.st = s.st
           /\ e.done # Nothing /\ e.done[1].what = what /\ e.done[1].target = s.pending[1].target
<1> DEFINE d == [what |-> what, target |-> s.pending[1].target]
<1>1. d.what = what /\ d.target = s.pending[1].target
  OBVIOUS
<1> HIDE DEF d
<1>2. <<d>> # Nothing /\ <<d>>[1] = d
  BY DEF Nothing
<1>3. EndTarget(s, what, p) = [s EXCEPT !.done = <<d>>, !.pending = Nothing, !.planned = p, !.lead = 0, !.after = TRUE]
  BY DEF EndTarget, d
<1> QED BY <1>1, <1>2, <1>3 DEF Sessions

\* A status that counts as after the queue is one of a session with no lead.
LEMMA AfterKept ==
    ASSUME TypeOK, BaseInv, AfterInv, [Next]_vars
    PROVE  AfterInv'
<1> DEFINE Good(s) == (s.after => s.lead = 0) /\ (s.armed => s.st.state \in {"Idle", "Run"})
<1> SUFFICES Good(sess')
  BY DEF AfterInv
<1>1. Good(sess) /\ sess \in Sessions
  BY DEF AfterInv, TypeOK
<1>2. CASE sess' = sess
  BY <1>1, <1>2
<1>3. SameSession => Good(sess')
  BY <1>1 DEF SameSession
<1>4. Returns => Good(sess')
  BY <1>1 DEF Returns
<1>5. Arm \/ LetsGo => Good(sess')
  BY ArmTyped, DisarmedTyped DEF LetsGo, Release
<1>6. CASE TakeStatus
  <2>1. CASE canContinueJog(Sample.state) /\ sess' = Answered
    <3>1. /\ Seen \in Sessions /\ Seen.pending = sess.pending /\ Seen.st = Sample
          /\ Seen.lead = sess.lead /\ Seen.after = (sess.lead = 0) /\ Sample.pos \in Points
      BY <1>1, <1>6, TakeStatusIs, AnsweredTyped, PartsAre DEF Seen, Sample, Sessions
    <3>2. Sample.state \in {"Idle", "Run"}
      BY <2>1 DEF canContinueJog
    <3>3. Ended \in Sessions /\ Ended.st = Sample /\ (Ended.after => Ended.lead = 0)
      <4>1. Ended \in Sessions
        BY <1>6, TakeStatusIs, AnsweredTyped
      <4>2. \/ Ended = Seen \/ Ended = EndTarget(Seen, "complete", Sample.pos)
            \/ Ended = EndTarget(Seen, "short", Sample.pos)
        BY DEF Ended, AfterTarget
      <4>3. \A what \in {"complete", "short"} :
              EndTarget(Seen, what, Sample.pos).st = Sample /\ EndTarget(Seen, what, Sample.pos).lead = 0
        BY <3>1, EndTargetIs
      <4>4. Seen.st = Sample /\ (Seen.after => Seen.lead = 0)
        BY <3>1
      <4>5. CASE Ended = Seen
        BY <4>1, <4>4, <4>5
      <4>6. CASE Ended = EndTarget(Seen, "complete", Sample.pos) \/ Ended = EndTarget(Seen, "short", Sample.pos)
        BY <4>1, <4>3, <4>6
      <4> QED BY <4>2, <4>5, <4>6
    <3>4. Answered.st = Sample /\ (Answered.after => Answered.lead = 0)
      BY <3>3 DEF Answered, Sessions
    <3> QED BY <2>1, <3>2, <3>4
  <2>2. CASE Release /\ UNCHANGED mach
    BY <2>2, DisarmedTyped DEF Release
  <2> QED BY <1>6, <2>1, <2>2, TakeStatusIs
<1>7. CASE TargetTick
  <2>1. CASE sess' = EndTarget(sess, "short", sess.st.pos)
    BY <1>1, <2>1, EndTargetIs, PartsAre
  <2>2. CASE Release
    BY <2>2, DisarmedTyped DEF Release
  <2> QED BY <1>7, <2>1, <2>2 DEF TargetTick
<1>8. ASSUME NEW stalls \in BOOLEAN, Pass(stalls) PROVE Good(sess')
  BY <1>8, PassSays, <1>1 DEF Pass, Less
<1>9. ASSUME NEW why \in {"Hold", "Alarm"}, Stops(why) PROVE sess' = sess
  BY <1>9 DEF Stops
<1>10. ASSUME NEW d \in Inputs \ {0}, Step(d) PROVE sess' = sess
  BY <1>10 DEF Step
<1>11. ASSUME NEW x \in 0 .. Here.xmax + 1, NEW z \in {Nothing} \cup {<<n>> : n \in 0 .. ZMax}, Target(x, z)
       PROVE  sess' = sess
  BY <1>11 DEF Target
<1>12. TakeLine \/ SendLine \/ Admit \/ Ticks \/ SetOrigin => sess' = sess
  BY DEF TakeLine, SendLine, Admit, Ticks, SetOrigin
<1>13. Quiet => SameSession
  BY DEF Quiet
<1> HIDE DEF Good
<1> QED BY <1>2, <1>3, <1>4, <1>5, <1>6, <1>7, <1>8, <1>9, <1>10, <1>11, <1>12, <1>13, SharedWays

\* Who captures, and who moves a stick
LEMMA InputWays ==
    ASSUME TypeOK, BaseInv, [Next]_vars
    PROVE  /\ Here.captures \/ capture \/ (~capture' /\ captured' \in {captured, Nothing})
           /\ input' \in {0, input} \cup Here.inputs
<1>1. Release => input' = 0
  BY DEF Release
<1>2. CASE UNCHANGED capture /\ captured' \in {captured, Nothing} /\ input' \in {0, input}
  BY <1>2 DEF TypeOK
<1>3. ASSUME NEW why \in {"Hold", "Alarm"}, Stops(why)
      PROVE  UNCHANGED capture /\ captured' \in {captured, Nothing} /\ input' \in {0, input}
  BY <1>3 DEF Stops
<1>4. ASSUME NEW stalls \in BOOLEAN, Pass(stalls)
      PROVE  UNCHANGED capture /\ captured' \in {captured, Nothing} /\ input' \in {0, input}
  BY <1>4 DEF Pass
<1>5. ASSUME NEW d \in Inputs \ {0}, Step(d)
      PROVE  UNCHANGED capture /\ captured' \in {captured, Nothing} /\ input' \in {0, input}
  BY <1>5 DEF Step
<1>6. ASSUME NEW x \in 0 .. Here.xmax + 1, NEW z \in {Nothing} \cup {<<n>> : n \in 0 .. ZMax}, Target(x, z)
      PROVE  UNCHANGED capture /\ captured' \in {captured, Nothing} /\ input' \in {0, input}
  BY <1>6 DEF Target
<1>7. TakeLine \/ Recovers \/ Arm \/ Disarm \/ StatusTick \/ TakeStatus \/ StatusFails =>
        UNCHANGED capture /\ captured' \in {captured, Nothing} /\ input' \in {0, input}
  BY <1>1 DEF TakeLine, Recovers, Arm, Disarm, StatusTick, TakeStatus, StatusFails
<1>8. SendLine \/ WriteReturns \/ WriteFails \/ MotionTick \/ Admit =>
        UNCHANGED capture /\ captured' \in {captured, Nothing} /\ input' \in {0, input}
  BY <1>1 DEF SendLine, WriteReturns, WriteFails, MotionTick, Admit
<1>9. TargetTick \/ TargetRetry \/ SetOrigin \/ UNCHANGED vars =>
        UNCHANGED capture /\ captured' \in {captured, Nothing} /\ input' \in {0, input}
  BY <1>1 DEF TargetTick, TargetRetry, SetOrigin, vars
<1>10. ASSUME NEW in \in Here.inputs, SetInput(in)
       PROVE  UNCHANGED <<capture, captured>> /\ input' \in Here.inputs
  BY <1>10 DEF SetInput
<1>11. CapturePosition => Here.captures /\ input' = 0
  BY DEF CapturePosition
<1>12. CaptureEnds => capture /\ input' = input
  BY DEF CaptureEnds
<1> QED BY <1>2, <1>3, <1>4, <1>5, <1>6, <1>7, <1>8, <1>9, <1>10, <1>11, <1>12 DEF Next, TypeOK

LEMMA SceneInvKept ==
    ASSUME TypeOK, BaseInv, QueryInv, SceneInv, [Next]_vars
    PROVE  SceneInv'
<1>1. Here' = Here /\ Careful' = Careful
  BY SceneSays
<1>2. ~Here.captures => ~capture' /\ captured' = Nothing
  BY InputWays DEF SceneInv
<1>3. Careful => input' = 0
  BY InputWays DEF SceneInv, Careful
<1>4. Careful => (loop'.at # "loop" => loop'.kind = "target")
  <2> SUFFICES ASSUME Careful PROVE loop'.at # "loop" => loop'.kind = "target"
    OBVIOUS
  <2>1. ~Active /\ ~Here.steps /\ (loop.at # "loop" => loop.kind = "target")
    BY DEF SceneInv, Careful, Active
  <2> QED BY <2>1, LoopWays DEF SameLoop
<1> QED BY <1>1, <1>2, <1>3, <1>4 DEF SceneInv

LEMMA CommandKept ==
    ASSUME TypeOK, BaseInv, CommandInv, [Next]_vars
    PROVE  CommandInv'
<1>1. QueryInv' /\ AfterInv' /\ SceneInv'
  BY QueryKept, AfterKept, SceneInvKept DEF CommandInv
<1> QED BY <1>1 DEF CommandInv

-----------------------------------------------------------------------------
(* Commands: where a target leads, how it begins and how it ends.           *)

LEMMA SamePoint ==
    ASSUME NEW p \in Points, NEW q \in Points
    PROVE  p = q <=> p["x"] = q["x"] /\ p["z"] = q["z"]
  BY DEF Points, Axes

\* A point more at the end
LEMMA PointMore ==
    ASSUME NEW s \in Seq(Points), NEW t \in Seq(Points), NEW b \in Points,
           Len(t) = Len(s) + 1, \A i \in 1 .. Len(s) : t[i] = s[i], t[Len(t)] = b
    PROVE  Append(s, b) = t
<1> DEFINE u == Append(s, b)
<1>1. u \in Seq(Points) /\ Len(u) = Len(t) /\ Len(s) \in Nat
  OBVIOUS
<1>2. \A i \in 1 .. Len(s) : u[i] = s[i]
  BY AppendProperties
<1>3. u[Len(s) + 1] = b
  BY AppendProperties
<1> HIDE DEF u
<1>5. ASSUME NEW i \in 1 .. Len(u) PROVE u[i] = t[i]
  BY <1>1, <1>2, <1>3
<1>6. u = t
  BY <1>1, <1>5, SeqEqual
<1> QED BY <1>6 DEF u

LEMMA Joined ==
    ASSUME NEW a \in Points, NEW b \in Points, NEW c \in Points
    PROVE  <<a>> \o <<b>> = <<a, b>> /\ <<a, b>> \o <<c>> = <<a, b, c>>
<1> DEFINE one == <<a>>
<1> DEFINE two == <<a, b>>
<1> DEFINE three == <<a, b, c>>
<1>1. /\ one \in Seq(Points) /\ two \in Seq(Points) /\ three \in Seq(Points)
      /\ Len(one) = 1 /\ Len(two) = 2 /\ Len(three) = 3
      /\ one[1] = a /\ two[1] = a /\ two[2] = b /\ three[1] = a /\ three[2] = b /\ three[3] = c
  OBVIOUS
<1> HIDE DEF one, two, three
<1>2. \A i \in 1 .. 2 : i = 1 \/ i = 2
  OBVIOUS
<1>3. one \o <<b>> = two
  <2>1. Len(two) = Len(one) + 1 /\ (\A i \in 1 .. Len(one) : two[i] = one[i]) /\ two[Len(two)] = b
    BY <1>1
  <2>2. Append(one, b) = two
    BY <1>1, <2>1, PointMore
  <2>3. Append(one, b) = one \o <<b>>
    BY <1>1, AppendIsConcat
  <2> QED BY <2>2, <2>3
<1>4. two \o <<c>> = three
  <2>1. Len(three) = Len(two) + 1 /\ (\A i \in 1 .. Len(two) : three[i] = two[i]) /\ three[Len(three)] = c
    BY <1>1, <1>2
  <2>2. Append(two, c) = three
    BY <1>1, <2>1, PointMore
  <2>3. Append(two, c) = two \o <<c>>
    BY <1>1, AppendIsConcat
  <2> QED BY <2>2, <2>3
<1> QED BY <1>3, <1>4 DEF one, two, three

Lifts(from, to) == Here.safe /\ from["x"] # to["x"]
LegsVia(from, to, z, up, across, last) ==
    /\ Legs(from, to, z) = Leg(from, up) \o Leg(up, across) \o Leg(across, last)
    /\ Lifts(from, to) => up["x"] = from["x"] /\ up["z"] = Max2(from["z"], Min2(SafeZ, ZMax))
    /\ Lifts(from, to) => across["x"] = to["x"] /\ across["z"] = up["z"]
    /\ ~Lifts(from, to) => up = from /\ across = from
    /\ last["x"] = to["x"] /\ last["z"] = IF z = Nothing THEN across["z"] ELSE to["z"]

\* The points between the legs
LEMMA LegPoints ==
    ASSUME TypeOK, NEW from \in Points, NEW to \in Points, NEW z
    PROVE  \E up, across, last \in Points : LegsVia(from, to, z, up, across, last)
<1> DEFINE lifts == Lifts(from, to)
<1> DEFINE up == IF lifts THEN [from EXCEPT !["z"] = Max2(@, Min2(SafeZ, ZMax))] ELSE from
<1> DEFINE across == IF lifts THEN [up EXCEPT !["x"] = to["x"]] ELSE from
<1> DEFINE last == [across EXCEPT !["x"] = to["x"], !["z"] = IF z = Nothing THEN @ ELSE to["z"]]
<1>1. from["x"] \in Int /\ from["z"] \in Int /\ to["x"] \in Int /\ to["z"] \in Int
      /\ "x" \in Axes /\ "z" \in Axes
  BY PointsAre DEF Axes
<1>2. ASSUME NEW p \in Points, NEW a \in Axes, NEW n \in Int
      PROVE  /\ [p EXCEPT ![a] = n] \in Points /\ [p EXCEPT ![a] = n][a] = n
             /\ \A b \in Axes : b # a => [p EXCEPT ![a] = n][b] = p[b]
  BY DEF Points
<1>3. up \in Points /\ (lifts => up["x"] = from["x"] /\ up["z"] = Max2(from["z"], Min2(SafeZ, ZMax)))
  <2> DEFINE h == Max2(from["z"], Min2(SafeZ, ZMax))
  <2>1. h \in Int
    BY <1>1, TimeAssumption DEF Max2, Min2
  <2>2. up = IF lifts THEN [from EXCEPT !["z"] = h] ELSE from
    OBVIOUS
  <2> HIDE DEF h, up
  <2> QED BY <1>1, <1>2, <2>1, <2>2 DEF h
<1>4. across \in Points /\ (lifts => across["x"] = to["x"] /\ across["z"] = up["z"]) /\ (~lifts => across = from)
  <2> HIDE DEF up
  <2> QED BY <1>1, <1>2, <1>3
<1>5. ~lifts => up = from
  OBVIOUS
<1>6. last \in Points /\ last["x"] = to["x"] /\ last["z"] = IF z = Nothing THEN across["z"] ELSE to["z"]
  <2> HIDE DEF across
  <2> DEFINE l == [across EXCEPT !["x"] = to["x"]]
  <2>1. l \in Points /\ l["x"] = to["x"] /\ l["z"] = across["z"]
    BY <1>1, <1>2, <1>4
  <2>2. l["z"] \in Int
    BY <1>1, <2>1, PointsAre
  <2> DEFINE n == IF z = Nothing THEN l["z"] ELSE to["z"]
  <2>3. last = [l EXCEPT !["z"] = n]
    OBVIOUS
  <2>4. n \in Int /\ n = IF z = Nothing THEN across["z"] ELSE to["z"]
    BY <1>1, <2>1, <2>2
  <2> HIDE DEF l, last, n
  <2>5. /\ [l EXCEPT !["z"] = n] \in Points /\ [l EXCEPT !["z"] = n]["z"] = n
        /\ \A b \in Axes : b # "z" => [l EXCEPT !["z"] = n][b] = l[b]
    BY <1>1, <1>2, <2>1, <2>4
  <2> QED BY <1>1, <2>1, <2>3, <2>4, <2>5
<1>7. Legs(from, to, z) = Leg(from, up) \o Leg(up, across) \o Leg(across, last)
  BY DEF Legs, Lifts
<1> HIDE DEF up, across, last
<1>8. LegsVia(from, to, z, up, across, last)
  BY <1>3, <1>4, <1>5, <1>6, <1>7 DEF LegsVia
<1> QED BY <1>3, <1>4, <1>6, <1>8

\* A leg or two, or three
LEMMA LeggedOne ==
    ASSUME NEW p, NEW a, Here.safe => Crosses(p, a), Nears(a, p, a)
    PROVE  Legged(p, <<a>>)
<1>1. DOMAIN <<a>> = {1} /\ <<a>>[1] = a /\ Len(<<a>>) = 1
  OBVIOUS
<1> QED BY <1>1 DEF Legged, LegFrom

LEMMA LeggedTwo ==
    ASSUME NEW p, NEW a, NEW b, Here.safe => Crosses(p, a) /\ Crosses(a, b),
           Nears(b, p, a), Nears(b, a, b)
    PROVE  Legged(p, <<a, b>>)
<1>1. DOMAIN <<a, b>> = {1, 2} /\ <<a, b>>[1] = a /\ <<a, b>>[2] = b /\ Len(<<a, b>>) = 2
  OBVIOUS
<1>2. ASSUME NEW i \in {1, 2}
      PROVE  /\ Here.safe => Crosses(LegFrom(p, <<a, b>>, i), <<a, b>>[i])
             /\ Nears(b, LegFrom(p, <<a, b>>, i), <<a, b>>[i])
  <2>1. CASE i = 1
    BY <1>1, <2>1 DEF LegFrom
  <2>2. CASE i = 2
    BY <1>1, <2>2 DEF LegFrom
  <2> QED BY <2>1, <2>2
<1> QED BY <1>1, <1>2 DEF Legged

LEMMA LeggedThree ==
    ASSUME NEW p, NEW a, NEW b, NEW c, Here.safe => Crosses(p, a) /\ Crosses(a, b) /\ Crosses(b, c),
           Nears(c, p, a), Nears(c, a, b), Nears(c, b, c)
    PROVE  Legged(p, <<a, b, c>>)
<1> DEFINE s == <<a, b, c>>
<1>1. DOMAIN s = {1, 2, 3} /\ s[1] = a /\ s[2] = b /\ s[3] = c /\ Len(s) = 3
  OBVIOUS
<1> HIDE DEF s
<1>2. ASSUME NEW i \in {1, 2, 3}
      PROVE  /\ Here.safe => Crosses(LegFrom(p, s, i), s[i])
             /\ Nears(c, LegFrom(p, s, i), s[i])
  <2>1. CASE i = 1
    BY <1>1, <2>1 DEF LegFrom
  <2>2. CASE i = 2
    BY <1>1, <2>2 DEF LegFrom
  <2>3. CASE i = 3
    BY <1>1, <2>3 DEF LegFrom
  <2> QED BY <2>1, <2>2, <2>3
<1>3. Legged(p, s)
  BY <1>1, <1>2 DEF Legged
<1> QED BY <1>3 DEF s

\* The legs of a target come nearer to it, cross at the safe Z and stay inside
\* the limits.
LEMMA LegsAre ==
    ASSUME TypeOK, NEW from \in Points, NEW to \in Points, NEW z, from # to,
           z = Nothing => to["z"] = from["z"]
    PROVE  /\ Legged(from, Legs(from, to, z))
           /\ Inside(from) /\ Inside(to) =>
                \A i \in DOMAIN Legs(from, to, z) : Inside(Legs(from, to, z)[i])
<1>0. PICK up \in Points, across \in Points, last \in Points : LegsVia(from, to, z, up, across, last)
  BY LegPoints
<1>1. /\ Legs(from, to, z) = Leg(from, up) \o Leg(up, across) \o Leg(across, last)
      /\ Lifts(from, to) => up["x"] = from["x"] /\ up["z"] = Max2(from["z"], Min2(SafeZ, ZMax))
      /\ Lifts(from, to) => across["x"] = to["x"] /\ across["z"] = up["z"]
      /\ ~Lifts(from, to) => up = from /\ across = from
      /\ last["x"] = to["x"] /\ last["z"] = IF z = Nothing THEN across["z"] ELSE to["z"]
  BY <1>0 DEF LegsVia
<1>2. /\ from["x"] \in Int /\ from["z"] \in Int /\ to["x"] \in Int /\ to["z"] \in Int
      /\ "x" \in Axes /\ "z" \in Axes /\ Axes = {"x", "z"} /\ SafeZ \in Nat /\ ZMax \in Nat
  BY PointsAre, TimeAssumption DEF Axes
<1>3. from["x"] # to["x"] \/ from["z"] # to["z"]
  BY SamePoint
<1>4. Inside(from) /\ Inside(to) => Inside(up) /\ Inside(across) /\ Inside(last)
  <2> SUFFICES ASSUME Inside(from), Inside(to) PROVE Inside(up) /\ Inside(across) /\ Inside(last)
    OBVIOUS
  <2>1. LimitOf("z") = ZMax
    BY DEF LimitOf
  <2>2. \A p : Inside(p) <=> p["x"] \in 0 .. LimitOf("x") /\ p["z"] \in 0 .. ZMax
    BY <1>2, <2>1 DEF Inside
  <2>3. Max2(from["z"], Min2(SafeZ, ZMax)) \in 0 .. ZMax
    BY <1>2, <2>2 DEF Max2, Min2
  <2>4. CASE Lifts(from, to)
    BY <1>1, <2>2, <2>3, <2>4
  <2>5. CASE ~Lifts(from, to)
    BY <1>1, <2>2, <2>5
  <2> QED BY <2>4, <2>5
<1> DEFINE h == Min2(SafeZ, ZMax)
<1>5. CASE ~Lifts(from, to)
  <2>1. across # last
    BY <1>1, <1>5, <1>3
  <2>2. Legs(from, to, z) = <<last>>
    BY <1>1, <1>5, <2>1 DEF Leg
  <2>3. Nears(last, from, last)
    BY <1>1, <1>2, <1>5, <2>1, SamePoint DEF Nears
  <2>4. Here.safe => Crosses(from, last)
    BY <1>1, <1>5 DEF Crosses, Lifts
  <2>5. Legged(from, <<last>>)
    BY <2>3, <2>4, LeggedOne
  <2>6. \A i \in DOMAIN <<last>> : <<last>>[i] = last
    OBVIOUS
  <2> QED BY <1>4, <2>2, <2>5, <2>6
<1>6. CASE Lifts(from, to)
  <2>1. up # across /\ last["x"] = to["x"] /\ across["x"] = to["x"] /\ up["x"] = from["x"] /\ from["x"] # to["x"]
    BY <1>1, <1>6 DEF Lifts
  <2>2. up["z"] >= h /\ across["z"] >= h
    BY <1>1, <1>2, <1>6 DEF Max2, Min2
  <2>3. /\ Crosses(from, up) /\ Crosses(up, across) /\ Crosses(across, last)
        /\ up = from => Crosses(from, across)
    BY <2>2, <2>1 DEF Crosses
  <2>4. Nears(last, from, up) /\ Nears(last, from, across) /\ Nears(last, up, across)
    BY <1>2, <2>1 DEF Nears
  <2>5. across # last => Nears(last, across, last)
    BY <1>2, SamePoint DEF Nears
  <2> DEFINE In(s) == Inside(from) /\ Inside(to) => \A i \in DOMAIN s : Inside(s[i])
  <2>6. CASE from = up /\ across = last
    <3>1. Leg(from, up) = <<>> /\ Leg(up, across) = <<across>> /\ Leg(across, last) = <<>>
      BY <2>1, <2>6 DEF Leg
    <3>2. Legs(from, to, z) = <<across>>
      BY <1>1, <3>1
    <3>3. Legged(from, <<across>>)
      BY <2>3, <2>4, <2>6, LeggedOne
    <3>4. In(<<across>>)
      BY <1>4
    <3> QED BY <3>2, <3>3, <3>4
  <2>7. CASE from = up /\ across # last
    <3>1. Leg(from, up) = <<>> /\ Leg(up, across) = <<across>> /\ Leg(across, last) = <<last>>
      BY <2>1, <2>7 DEF Leg
    <3>2. Legs(from, to, z) = <<across, last>>
      <4>1. <<>> \o <<across>> = <<across>>
        OBVIOUS
      <4>2. <<across>> \o <<last>> = <<across, last>>
        BY Joined
      <4> QED BY <1>1, <3>1, <4>1, <4>2
    <3>3. Legged(from, <<across, last>>)
      BY <2>3, <2>4, <2>5, <2>7, LeggedTwo
    <3>4. In(<<across, last>>)
      BY <1>4
    <3> QED BY <3>2, <3>3, <3>4
  <2>8. CASE from # up /\ across = last
    <3>1. Leg(from, up) = <<up>> /\ Leg(up, across) = <<across>> /\ Leg(across, last) = <<>>
      BY <2>1, <2>8 DEF Leg
    <3>2. Legs(from, to, z) = <<up, across>>
      <4>1. <<up, across>> \o <<>> = <<up, across>>
        OBVIOUS
      <4>2. <<up>> \o <<across>> = <<up, across>>
        BY Joined
      <4> QED BY <1>1, <3>1, <4>1, <4>2
    <3>3. Legged(from, <<up, across>>)
      BY <2>3, <2>4, <2>8, LeggedTwo
    <3>4. In(<<up, across>>)
      BY <1>4
    <3> QED BY <3>2, <3>3, <3>4
  <2>9. CASE from # up /\ across # last
    <3>1. Leg(from, up) = <<up>> /\ Leg(up, across) = <<across>> /\ Leg(across, last) = <<last>>
      BY <2>1, <2>9 DEF Leg
    <3>2. Legs(from, to, z) = <<up, across, last>>
      <4>1. /\ <<up>> \o <<across>> = <<up, across>>
            /\ <<up, across>> \o <<last>> = <<up, across, last>>
        BY Joined
      <4> QED BY <1>1, <3>1, <4>1
    <3>3. Legged(from, <<up, across, last>>)
      BY <2>3, <2>4, <2>5, <2>9, LeggedThree
    <3>4. In(<<up, across, last>>)
      BY <1>4
    <3> QED BY <3>2, <3>3, <3>4
  <2> QED BY <2>6, <2>7, <2>8, <2>9
<1> QED BY <1>5, <1>6

\* What is written next, what after it and what last
LEMMA TodoIs ==
    ASSUME TypeOK, BaseInv, Writing
    PROVE  /\ 1 \in DOMAIN loop.todo /\ Head(loop.todo) = loop.todo[1] /\ loop.todo[1] \in Points
           /\ \A i \in DOMAIN loop.todo : loop.todo[i] \in Points
           /\ \A i \in DOMAIN Tail(loop.todo) :
                i + 1 \in DOMAIN loop.todo /\ Tail(loop.todo)[i] = loop.todo[i + 1]
           /\ loop.todo[Len(loop.todo)] = IF Tail(loop.todo) = <<>> THEN Head(loop.todo)
                                          ELSE Tail(loop.todo)[Len(Tail(loop.todo))]
<1> DEFINE s == loop.todo
<1>1. s \in Seq(Points) /\ s # <<>>
  BY PartsAre DEF BaseInv, LeaseInv
<1> HIDE DEF s
<1>2. /\ Len(s) \in Nat \ {0} /\ DOMAIN s = 1 .. Len(s) /\ Head(s) = s[1]
      /\ Tail(s) \in Seq(Points) /\ Len(Tail(s)) = Len(s) - 1 /\ DOMAIN Tail(s) = 1 .. Len(s) - 1
  BY <1>1, EmptySeq, LenProperties, HeadTailProperties
<1>3. \A i \in 1 .. Len(s) - 1 : Tail(s)[i] = s[i + 1]
  BY <1>1, <1>2, HeadTailProperties
<1>4. \A i \in DOMAIN s : s[i] \in Points
  BY <1>1, <1>2, ElementOfSeq
<1>5. \A i \in DOMAIN Tail(s) : i + 1 \in DOMAIN s /\ Tail(s)[i] = s[i + 1]
  BY <1>2, <1>3
<1>6. CASE Tail(s) = <<>>
  BY <1>2, <1>6, EmptySeq, <1>4, <1>5 DEF s
<1>7. CASE Tail(s) # <<>>
  <2>1. Len(Tail(s)) # 0
    BY <1>2, <1>7, EmptySeq
  <2>2. Len(s) - 1 \in 1 .. Len(s) - 1 /\ (Len(s) - 1) + 1 = Len(s)
    BY <1>2, <2>1
  <2>3. Tail(s)[Len(Tail(s))] = s[Len(s)]
    BY <1>2, <1>3, <2>2
  <2>4. 1 \in DOMAIN s
    BY <1>2
  <2> QED BY <1>2, <1>4, <1>5, <1>7, <2>3, <2>4 DEF s
<1> QED BY <1>6, <1>7

LEMMA StartsIs ==
    ASSUME TypeOK
    PROVE  /\ \A d \in Inputs \ {0} : Step(d) => Quiet \/ Starts
           /\ \A x \in 0 .. Here.xmax + 1, z \in {Nothing} \cup {<<n>> : n \in 0 .. ZMax} :
                Target(x, z) => Quiet \/ Starts
<1>1. CommandAnchor \in Points /\ Inputs \subseteq Int
  BY PartsAre, TimeAssumption DEF CommandAnchor, Inputs
<1>2. UNCHANGED <<mach, sess, loop, captured>> /\ RequestStatus => Quiet
  BY DEF Quiet, SameMotion, SameSession, RequestStatus, Asks
<1>3. ASSUME NEW d \in Inputs \ {0}, Step(d) PROVE Quiet \/ Starts
  <2> DEFINE to == clampJogTarget(CommandAnchor, Sum(CommandAnchor, MotionDelta(d)))
  <2> DEFINE l == [AtLoop EXCEPT !.at = "write", !.kind = "step", !.plan = CommandAnchor, !.todo = <<to>>, !.due = sess.lead]
  <2>1. /\ sess.armed /\ loop.at = "loop" /\ sess.pending = Nothing /\ Here.steps
        /\ UNCHANGED <<mach, sess, captured>>
        /\ (UNCHANGED loop /\ RequestStatus) \/ (loop' = l /\ UNCHANGED <<query, wire>>)
    BY <1>3 DEF Step, Commanded
  <2>2. Inside(CommandAnchor) => Inside(to)
    BY <1>1, PointsAre, ClampTyped
  <2> HIDE DEF to
  <2>3. l.at = "write" /\ l.kind = "step" /\ l.plan = CommandAnchor /\ l.todo = <<to>>
    BY DEF AtLoop
  <2>4. Inside(CommandAnchor) => \A i \in DOMAIN l.todo : Inside(l.todo[i])
    BY <2>2, <2>3
  <2> HIDE DEF l
  <2> QED BY <1>2, <2>1, <2>3, <2>4 DEF Starts
<1>4. ASSUME NEW x \in 0 .. Here.xmax + 1, NEW z \in {Nothing} \cup {<<n>> : n \in 0 .. ZMax}, Target(x, z)
      PROVE  Quiet \/ Starts
  <2>1. /\ sess.armed /\ loop.at = "loop" /\ sess.pending = Nothing /\ Here.targets
        /\ UNCHANGED <<mach, sess, captured>>
    BY <1>4 DEF Target, Commanded
  <2>2. CASE loop' = loop /\ RequestStatus
    BY <1>2, <2>1, <2>2
  <2>3. CASE /\ sess.after /\ UNCHANGED <<query, wire>>
             /\ \E to \in Points :
                  /\ to # CommandAnchor /\ (z = Nothing => to["z"] = CommandAnchor["z"])
                  /\ Inside(CommandAnchor) => Inside(to)
                  /\ loop' = [AtLoop EXCEPT !.at = "write", !.kind = "target", !.plan = CommandAnchor,
                                            !.todo = Legs(CommandAnchor, to, z), !.due = sess.lead]
    <3>1. PICK to \in Points :
            /\ to # CommandAnchor /\ (z = Nothing => to["z"] = CommandAnchor["z"])
            /\ Inside(CommandAnchor) => Inside(to)
            /\ loop' = [AtLoop EXCEPT !.at = "write", !.kind = "target", !.plan = CommandAnchor,
                                      !.todo = Legs(CommandAnchor, to, z), !.due = sess.lead]
      BY <2>3
    <3> DEFINE legs == Legs(CommandAnchor, to, z)
    <3>2. Legged(CommandAnchor, legs) /\ (Inside(CommandAnchor) => \A i \in DOMAIN legs : Inside(legs[i]))
      BY <1>1, <3>1, LegsAre
    <3> HIDE DEF legs
    <3>3. loop'.at = "write" /\ loop'.kind = "target" /\ loop'.plan = CommandAnchor /\ loop'.todo = legs
      BY <3>1 DEF AtLoop, legs
    <3> QED BY <2>1, <2>3, <3>2, <3>3 DEF Starts
  <2> QED BY <1>4, <2>2, <2>3, TargetLegs
<1> QED BY <1>3, <1>4

\* A target ends with the machine at rest, and the verdict is true of it.
LEMMA EndsIs ==
    ASSUME TypeOK, BaseInv, IdleInv, CommandInv, PendingInv, Tracked
    PROVE  /\ TakeStatus => Hears \/ Ends \/ LetsGo
           /\ TargetTick => Ends \/ LetsGo
<1>1. sess \in Sessions /\ mach \in Machines /\ sess.st.pos \in Points
  BY PartsAre DEF TypeOK
<1>2. ASSUME TakeStatus PROVE Hears \/ Ends \/ LetsGo
  <2>1. loop.at = "loop" /\ query.at = "answered" /\ sess.armed /\ captured' = captured
    BY <1>2, TakeStatusIs
  <2>2. /\ Seen \in Sessions /\ Seen.armed = sess.armed /\ Seen.pending = sess.pending
        /\ Seen.st = Sample /\ Sample.pos = query.pos /\ Sample.state = query.state /\ query.pos \in Points
    BY <1>1, <2>1, AnsweredTyped, PartsAre DEF Seen, Sessions, Sample
  <2>3. CASE Ended = Seen /\ (sess.pending # Nothing => query.pos # sess.pending[1].target)
    BY <1>2, <2>3, HearsIs
  <2>4. CASE Release /\ UNCHANGED mach
    BY <2>1, <2>4 DEF LetsGo
  <2>5. ASSUME sess.pending # Nothing, NEW what \in {"complete", "short"},
               Ended = EndTarget(Seen, what, query.pos),
               what = "complete" <=> query.pos = sess.pending[1].target,
               query.state = "Idle", Resting(query.pos),
               sess' = Answered, query' = NoQuery,
               mach' = [mach EXCEPT !.refused = @ /\ ~Settled(Ended, Sample)],
               UNCHANGED <<wire, loop, input>>
        PROVE  Ends
    <3>1. /\ Ended \in Sessions
          /\ Ended.armed = sess.armed /\ Ended.planned = query.pos /\ Ended.lead = 0 /\ Ended.after
          /\ Ended.pending = Nothing /\ Ended.st = Sample
          /\ Ended.done[1].what = what /\ Ended.done[1].target = sess.pending[1].target
      <4> DEFINE e == EndTarget(Seen, what, query.pos)
      <4>1. /\ e.armed = Seen.armed /\ e.planned = query.pos /\ e.lead = 0 /\ e.after
            /\ e.pending = Nothing /\ e.st = Seen.st
            /\ e.done[1].what = what /\ e.done[1].target = Seen.pending[1].target
        BY <2>2, EndTargetIs
      <4>2. Ended \in Sessions
        BY <2>1, AnsweredTyped
      <4>3. Ended = e
        BY <2>5
      <4> HIDE DEF e
      <4> QED BY <2>2, <4>1, <4>2, <4>3
    <3>2. Settled(Ended, Sample) /\ Answered = [Ended EXCEPT !.planned = query.pos]
      BY <2>2, <2>5, <3>1 DEF Settled, Answered
    <3>3. /\ Answered.armed = sess.armed /\ Answered.planned = query.pos /\ Answered.lead = 0 /\ Answered.after
          /\ Answered.pending = Nothing /\ Answered.st = Sample
          /\ Answered.done[1].what = what /\ Answered.done[1].target = sess.pending[1].target
      BY <3>1, <3>2 DEF Sessions
    <3>4. SameMotion /\ ~mach'.refused /\ mach'.stop = mach.stop
      BY <1>1, <2>5, <3>2 DEF SameMotion, Machines
    <3>5. query'.at = "none"
      BY <2>5, DisarmedTyped
    <3> QED BY <2>1, <2>2, <2>5, <3>3, <3>4, <3>5 DEF Ends
  <2>6. CASE /\ canContinueJog(Sample.state)
             /\ sess' = Answered /\ query' = NoQuery
             /\ mach' = [mach EXCEPT !.refused = @ /\ ~Settled(Ended, Sample)]
             /\ UNCHANGED <<wire, loop, input>>
    <3>1. query.state \in {"Idle", "Run"}
      BY <2>2, <2>6 DEF canContinueJog
    <3>2. CASE sess.pending = Nothing
      BY <2>2, <2>3, <3>2 DEF Ended, AfterTarget
    <3>3. CASE sess.pending # Nothing /\ query.pos = sess.pending[1].target
      BY <2>2, <3>3, <2>1, <3>1, <2>5, <2>6 DEF Ended, AfterTarget, targetReached, PendingInv
    <3>4. CASE /\ sess.pending # Nothing /\ query.pos # sess.pending[1].target
               /\ sess.pending[1].verify <= 0 /\ query.state = "Idle"
      BY <2>2, <3>4, <2>1, <2>5, <2>6 DEF Ended, AfterTarget, targetReached, PendingInv
    <3>5. CASE /\ sess.pending # Nothing /\ query.pos # sess.pending[1].target
               /\ ~(sess.pending[1].verify <= 0 /\ query.state = "Idle")
      BY <2>2, <2>3, <3>5 DEF Ended, AfterTarget, targetReached
    <3> QED BY <3>2, <3>3, <3>4, <3>5
  <2> QED BY <1>2, <2>4, <2>6, TakeStatusIs
<1>3. ASSUME TargetTick PROVE Ends \/ LetsGo
  <2>1. sess.armed /\ loop.at = "loop" /\ sess.pending # Nothing /\ captured' = captured
    BY <1>3 DEF TargetTick
  <2>2. CASE Release /\ UNCHANGED mach
    BY <2>1, <2>2 DEF LetsGo
  <2>3. CASE /\ sess.after /\ sess.st.state # "Run"
             /\ sess' = EndTarget(sess, "short", sess.st.pos)
             /\ mach' = [mach EXCEPT !.refused = FALSE]
             /\ UNCHANGED <<query, wire, loop, input>>
    <3>1. sess.st.state = "Idle" /\ sess.lead = 0
      BY <2>1, <2>3 DEF CommandInv, AfterInv
    <3>2. Resting(sess.st.pos)
      BY <2>1, <2>3, <3>1 DEF IdleInv
    <3>3. sess.st.pos # sess.pending[1].target
      BY <2>1, <2>3 DEF PendingInv
    <3>4. /\ sess'.armed = sess.armed /\ sess'.planned = sess.st.pos /\ sess'.lead = 0 /\ sess'.after
          /\ sess'.pending = Nothing /\ sess'.st = sess.st
          /\ sess'.done[1].what = "short" /\ sess'.done[1].target = sess.pending[1].target
      BY <1>1, <2>3, EndTargetIs
    <3>5. SameMotion /\ ~mach'.refused /\ mach'.stop = mach.stop
      BY <1>1, <2>3 DEF SameMotion, Machines
    <3> QED BY <2>1, <2>3, <3>1, <3>2, <3>3, <3>4, <3>5 DEF Ends
  <2> QED BY <1>3, <2>2, <2>3 DEF TargetTick
<1> QED BY <1>2, <1>3

\* The steps of a scene that is tracked
LEMMA TrackedWays ==
    ASSUME TypeOK, BaseInv, IdleInv, CommandInv, PendingInv, Tracked, [Next]_vars
    PROVE  \/ TakeLine \/ SendLine \/ Returns \/ Admit \/ Arm \/ Hears \/ Ends \/ LetsGo
           \/ Ticks \/ Starts \/ SetOrigin \/ Quiet
           \/ \E stalls \in BOOLEAN : Pass(stalls)
           \/ \E why \in {"Hold", "Alarm"} : Stops(why)
  BY SharedWays, StartsIs, EndsIs

-----------------------------------------------------------------------------
(* A machine that keeps the pace is at rest when its time is over.          *)

\* PromptInv of a machine that keeps the pace
PromptParts ==
    /\ sess.armed /\ mach.stop = "no" =>
         Ahead <= sess.lead + (IF loop.at = "sent"
                               THEN moveDuration(axesDelta(loop.plan, Head(loop.todo))) ELSE 0)
    /\ sess.armed /\ query.at = "answered" /\ query.state = "Run" => sess.lead > 0 \/ loop.at = "sent"
    /\ sess.after => sess.st.state = "Idle"

LEMMA PromptKept ==
    ASSUME TypeOK, BaseInv, IdleInv, CommandInv, PromptInv, PendingInv, [Next]_vars
    PROVE  PromptInv'
<1> SUFFICES ASSUME Prompt PROVE PromptParts'
  BY SceneSays DEF PromptInv, PromptParts
<1>1. PromptParts /\ Tracked
  BY DEF PromptInv, PromptParts, Tracked
<1>2. /\ Ahead \in Nat /\ sess.lead \in Nat /\ ~Here.lags /\ Here.delay = 0
      /\ (loop.at # "loop" => sess.armed) /\ (sess.after => sess.lead = 0)
      /\ mach \in Machines /\ wire \in Seq(Lines) /\ loop \in Loops /\ sess \in Sessions
  BY AheadTyped, PartsAre DEF Prompt, BaseInv, LeaseInv, CommandInv, AfterInv, TypeOK
<1>3. Writing => moveDuration(axesDelta(loop.plan, Head(loop.todo))) \in Nat \ {0}
  BY CommittedTyped
<1>4. TypeOK'
  BY TypeKept
<1>5. Ahead' \in Nat
  BY <1>4, QueueTimeTyped, WireTimeTyped DEF TypeOK, Machines, Ahead
<1>6. SameMotion /\ WireTime(wire') = WireTime(wire) => Ahead' = Ahead
  BY DEF SameMotion, Ahead
<1>7. /\ Asks => WireTime(wire') = WireTime(wire)
      /\ wire' = Forgotten(wire) => WireTime(wire') = WireTime(wire)
      /\ wire' = wire => WireTime(wire') = WireTime(wire)
      /\ mach' = mach => SameMotion
  BY WireTimeOfAsk, WireTimeOfForgotten DEF Asks, TypeOK, SameMotion
<1>8. \A p, q : moveDuration(axesDelta(p, q))' = moveDuration(axesDelta(p, q))
  BY DEF moveDuration, axesDelta
<1>9. CASE TakeLine
  <2>1. UNCHANGED <<sess, loop>> /\ mach'.stop = mach.stop
    BY <1>2, <1>9, TakeLineIs DEF Machines
  <2>2. Ahead' <= Ahead
    BY <1>9, TakeLineAhead
  <2>3. CASE query' = query
    BY <1>1, <1>2, <1>3, <1>5, <2>1, <2>2, <2>3 DEF PromptParts, Writing
  <2>4. CASE /\ query' = [at |-> "answered", pos |-> Position, state |-> State, old |-> 0]
             /\ UNCHANGED mach
    <3>1. query'.state = "Run" => mach.stop = "no" /\ Ahead > 0
      BY <1>2, <2>4, AheadTyped, QueueGoes DEF State, Machines, Ahead
    <3> QED BY <1>1, <1>2, <1>3, <1>5, <2>1, <2>2, <3>1 DEF PromptParts, Writing
  <2> QED BY <1>9, <2>3, <2>4, TakeLineIs
<1>10. CASE SendLine
  <2> DEFINE d == moveDuration(axesDelta(loop.plan, Head(loop.todo)))
  <2> DEFINE l == jogCommand(loop.plan, Head(loop.todo), d)
  <2>1. /\ loop.at = "write" /\ loop'.at = "sent" /\ loop'.plan = loop.plan /\ loop'.todo = loop.todo
        /\ UNCHANGED <<mach, sess>>
    BY <1>2, <1>10 DEF SendLine, Loops
  <2>2. wire' = Append(wire, l) /\ l \in Lines /\ JogTime(l) = d /\ d \in Nat
    BY <1>3, <1>10, <2>1, SendLineTyped DEF Lines, JogTime, jogCommand, Writing
  <2> HIDE DEF l
  <2>3. WireTime(wire') = WireTime(wire) + d
    BY <1>2, <2>2, WireTimeOfAppend
  <2> HIDE DEF d
  <2>4. Ahead' = Ahead + d
    BY <2>1, <2>2, <2>3, AheadTyped DEF Ahead
  <2> QED BY <1>1, <1>2, <2>1, <2>2, <2>4 DEF PromptParts, d
<1>11. CASE Returns
  BY <1>11, DisarmedTyped, <1>6, <1>7, <1>1, <1>2, <1>3 DEF Returns, PromptParts, Writing
<1>12. CASE Admit
  BY <1>12, AdmitIs, DisarmedTyped, <1>6, <1>7, <1>1 DEF PromptParts
<1>13. CASE Arm
  <2>1. mach.queue = <<>> /\ wire = <<>> /\ UNCHANGED <<wire, query, loop>> /\ SameMotion
        /\ query.at = "none" /\ loop.at = "loop"
    BY <1>2, <1>13, StateIs DEF Arm, SameMotion, Machines, BaseInv, LeaseInv
  <2>2. Ahead' = 0
    BY <1>6, <1>7, <2>1, AheadTyped
  <2> QED BY <1>13, <2>1, <2>2, ArmTyped DEF PromptParts
<1>14. CASE Hears
  <2>1. Ahead' = Ahead
    BY <1>6, <1>7, <1>14 DEF Hears
  <2>2. /\ loop.at = "loop" /\ UNCHANGED loop /\ query.at = "answered" /\ sess.armed
        /\ sess'.lead = sess.lead /\ sess'.after = (sess.lead = 0) /\ sess'.st.state = query.state
        /\ query.state \in {"Idle", "Run"} /\ query'.at = "none" /\ mach'.stop = mach.stop
    BY <1>14 DEF Hears, Sample
  <2>3. mach.stop = "no" => Ahead <= sess.lead + 0
    BY <1>1, <2>2 DEF PromptParts
  <2>4. sess'.after => sess'.st.state = "Idle"
    <3>1. query.state = "Run" => sess.lead > 0
      BY <1>1, <2>2 DEF PromptParts
    <3>2. sess.lead > 0 => sess.lead # 0
      BY <1>2
    <3>3. sess'.after <=> sess.lead = 0
      BY <2>2
    <3> QED BY <2>2, <3>1, <3>2, <3>3
  <2> QED BY <2>1, <2>2, <2>3, <2>4 DEF PromptParts
<1>15. CASE Ends
  <2>1. /\ loop.at = "loop" /\ UNCHANGED <<wire, loop>> /\ sess.armed /\ SameMotion
        /\ sess'.lead = 0 /\ sess'.st.state = "Idle"
        /\ query'.at = "none" \/ (query' = query /\ sess.lead = 0)
        /\ mach.queue = <<>> /\ Calm(wire)
    BY <1>15 DEF Ends, Resting, NoJogs, Calm
  <2>2. Ahead' = 0
    <3>1. QueueTime(mach.queue) = 0 /\ WireTime(wire) = 0
      BY <1>2, <2>1, WireTimeOfCalm, QueueTimeTyped, PartsAre
    <3>2. Ahead = 0
      BY <3>1 DEF Ahead
    <3> QED BY <1>6, <1>7, <2>1, <3>2
  <2> QED BY <1>1, <2>1, <2>2 DEF PromptParts
<1>16. CASE LetsGo
  BY <1>16, DisarmedTyped DEF LetsGo, Release, PromptParts
<1>17. CASE Ticks
  BY <1>6, <1>7, <1>17, <1>1 DEF Ticks, Asks, PromptParts
<1>18. CASE Starts
  BY <1>18, <1>6, <1>7, <1>1 DEF Starts, PromptParts
<1>19. CASE SetOrigin
  BY <1>19, <1>6, <1>7, WireTimeOfOrigin, <1>1 DEF SetOrigin, PromptParts
<1>20. CASE Quiet
  BY <1>6, <1>7, <1>20, <1>1 DEF Quiet, SameSession, Asks, PromptParts
<1>21. ASSUME NEW stalls \in BOOLEAN, Pass(stalls) PROVE PromptParts'
  <2>1. /\ sess'.armed = sess.armed /\ sess'.after = sess.after /\ sess'.st = sess.st
        /\ sess.armed => sess'.lead = Less(sess.lead)
        /\ query'.at # "answered"
    BY <1>2, <1>21, PassSays, PartsAre
  <2>4. loop' = loop
    BY <1>21, PassLoop DEF Tracked
  <2>2. mach'.stop = mach.stop
    BY <1>21, ExecutesTyped DEF Pass
  <2>3. mach.stop = "no" => Ahead' = Less(Ahead)
    BY <1>2, <1>21, PassAhead
  <2> QED BY <1>1, <1>2, <1>3, <2>1, <2>2, <2>3, <2>4 DEF PromptParts, Writing, Less
<1>22. ASSUME NEW why \in {"Hold", "Alarm"}, Stops(why) PROVE PromptParts'
  BY <1>2, <1>22, <1>1 DEF Stops, Machines, PromptParts
<1> QED BY <1>1, <1>9, <1>10, <1>11, <1>12, <1>13, <1>14, <1>15, <1>16, <1>17, <1>18, <1>19, <1>20, <1>21, <1>22, TrackedWays

-----------------------------------------------------------------------------
(* Soft limits.                                                             *)

\* A line that starts where the queue ends leads to its point.
LEMMA LineEndIs ==
    ASSUME NEW from \in Points, NEW l \in JogLines, l.d = axesDelta(from, l.to)
    PROVE  LineEnd(from, l) = l.to
<1>1. l.to \in Points /\ DOMAIN l.to = Axes /\ l.to = [a \in Axes |-> l.to[a]]
  BY PointsAre DEF JogLines, Points
<1>2. ASSUME NEW a \in Axes PROVE LineEnd(from, l)[a] = l.to[a]
  <2>1. from[a] \in Int /\ l.to[a] \in Int /\ l.d[a] = l.to[a] - from[a]
    BY <1>1, PointsAre DEF axesDelta
  <2>2. LineEnd(from, l)[a] = IF l.d[a] = 0 THEN from[a] ELSE IF Here.absolute THEN l.to[a] ELSE from[a] + l.d[a]
    BY DEF LineEnd
  <2> QED BY <2>1, <2>2
<1>3. LineEnd(from, l) = [a \in Axes |-> LineEnd(from, l)[a]]
  BY DEF LineEnd
<1> QED BY <1>1, <1>2, <1>3

\* The new move leads to the point of its line.
LEMMA NewMoveIs ==
    ASSUME TypeOK, LineInv, Tracked, ~mach.refused, wire # <<>>, wire[1] \in JogLines
    PROVE  NewMove.to = wire[1].to
<1>1. wire \in Seq(Lines) /\ 1 \in DOMAIN wire /\ wire[1].op = "jog"
  BY EmptySeq, LenProperties DEF TypeOK, JogLines
<1>2. EndOf(mach.pos, mach.queue) \in Points
  BY PartsAre
<1>3. QueueEnds[0] = EndOf(mach.pos, mach.queue)
  BY <1>1, <1>2, EndsDefined DEF QueueEnds
<1>4. wire[1].d = axesDelta(QueueEnds[1 - 1], wire[1].to)
  BY <1>1 DEF LineInv
<1>5. LineEnd(EndOf(mach.pos, mach.queue), wire[1]) = wire[1].to
  BY <1>2, <1>3, <1>4, LineEndIs
<1> QED BY <1>5 DEF NewMove

LimitParts ==
    /\ Inside(mach.pos) /\ Inside(sess.planned) /\ Inside(sess.st.pos)
    /\ \A i \in DOMAIN mach.queue : Inside(mach.queue[i].to)
    /\ \A i \in DOMAIN wire : wire[i].op = "jog" => Inside(wire[i].to)
    /\ query.at = "answered" => Inside(query.pos)
    /\ loop.at # "loop" => Inside(loop.plan)
    /\ Writing => \A i \in DOMAIN loop.todo : Inside(loop.todo[i])

LEMMA OriginInside ==
    ASSUME TypeOK
    PROVE  Inside(Origin)
  BY SceneIs, TimeAssumption DEF Inside, Origin, Axes, LimitOf

LEMMA LimitKept ==
    ASSUME TypeOK, BaseInv, LimitInv, IdleInv, LineInv, CommandInv, PendingInv, [Next]_vars
    PROVE  LimitInv'
<1> SUFFICES ASSUME Tracked PROVE LimitParts'
  BY SceneSays DEF LimitInv, LimitParts
<1>1. LimitParts
  BY DEF LimitInv, LimitParts
<1>2. \A p : Inside(p)' = Inside(p)
  BY SceneSays
<1>3. mach \in Machines /\ wire \in Seq(Lines) /\ loop \in Loops /\ sess \in Sessions
  BY DEF TypeOK
<1>4. mach' = mach => SameMotion
  BY DEF SameMotion
<1> DEFINE W(lines) == \A i \in DOMAIN lines : lines[i].op = "jog" => Inside(lines[i].to)
<1>5. ASSUME NEW lines \in Seq(Lines), NEW l \in Lines, W(lines), l.op = "jog" => Inside(l.to)
      PROVE  Append(lines, l) \in Seq(Lines) /\ W(Append(lines, l))
  <2>1. /\ Append(lines, l) \in Seq(Lines)
        /\ DOMAIN Append(lines, l) = 1 .. Len(lines) + 1 /\ Len(lines) \in Nat
        /\ DOMAIN lines = 1 .. Len(lines)
        /\ \A i \in 1 .. Len(lines) : Append(lines, l)[i] = lines[i]
        /\ Append(lines, l)[Len(lines) + 1] = l
    BY AppendProperties, LenProperties
  <2>2. \A i \in 1 .. Len(lines) + 1 : i \in 1 .. Len(lines) \/ i = Len(lines) + 1
    BY <2>1
  <2> QED BY <1>5, <2>1, <2>2
<1>6. W(wire)
  BY <1>1 DEF LimitParts
<1>7. wire' = Append(wire, [op |-> "ask"]) => W(wire')
  <2>1. [op |-> "ask"] \in Lines /\ [op |-> "ask"].op # "jog"
    BY DEF Lines
  <2> HIDE DEF W
  <2> QED BY <1>3, <1>5, <1>6, <2>1
<1>8. wire' = Forgotten(wire) => W(wire')
  BY <1>3, <1>6, ForgottenIs
<1>9. CASE TakeLine
  <2>1. W(wire')
    BY <1>6, <1>9, TakeLineIs
  <2>2. UNCHANGED <<sess, loop>> /\ mach'.pos = mach.pos
    BY <1>3, <1>9, TakeLineIs DEF Machines
  <2>3. \A i \in DOMAIN mach'.queue : Inside(mach'.queue[i].to)
    <3>1. CASE ~mach.refused /\ wire[1] \in JogLines /\ NewMove \in Moves /\ mach'.queue = Append(mach.queue, NewMove)
      <4>1. wire # <<>> /\ wire[1].op = "jog" /\ 1 \in DOMAIN wire
        BY <1>9, <3>1, TakeLineIs DEF JogLines
      <4>2. Inside(NewMove.to)
        BY <1>6, <3>1, <4>1, NewMoveIs
      <4>3. /\ DOMAIN mach'.queue = 1 .. Len(mach.queue) + 1 /\ DOMAIN mach.queue = 1 .. Len(mach.queue)
            /\ \A i \in 1 .. Len(mach.queue) : mach'.queue[i] = mach.queue[i]
            /\ mach'.queue[Len(mach.queue) + 1] = NewMove /\ Len(mach.queue) \in Nat
        BY <3>1, PartsAre, AppendProperties, LenProperties
      <4>4. \A i \in 1 .. Len(mach.queue) + 1 : i \in 1 .. Len(mach.queue) \/ i = Len(mach.queue) + 1
        BY <4>3
      <4> QED BY <1>1, <4>2, <4>3, <4>4 DEF LimitParts
    <3>2. CASE mach'.queue = mach.queue
      BY <1>1, <3>2 DEF LimitParts
    <3> QED BY <1>3, <1>9, <3>1, <3>2, TakeLineIs DEF Machines
  <2>4. query'.at = "answered" => Inside(query'.pos)
    BY <1>1, <1>9, TakeLineIs, PositionTyped DEF LimitParts
  <2> HIDE DEF W
  <2> QED BY <1>1, <1>2, <2>1, <2>2, <2>3, <2>4 DEF LimitParts, Writing, W
<1>10. CASE SendLine
  <2> DEFINE l == jogCommand(loop.plan, Head(loop.todo), moveDuration(axesDelta(loop.plan, Head(loop.todo))))
  <2>1. wire' = Append(wire, l) /\ l \in Lines
    BY <1>10, SendLineTyped DEF Lines
  <2>2. /\ loop.at = "write" /\ loop'.plan = loop.plan /\ loop'.todo = loop.todo /\ UNCHANGED <<mach, sess, query>>
    BY <1>3, <1>10 DEF SendLine, Loops
  <2>3. Inside(l.to)
    BY <1>1, <2>2, TodoIs DEF LimitParts, Writing, jogCommand
  <2> HIDE DEF l, W
  <2>4. W(wire')
    BY <1>3, <1>5, <1>6, <2>1, <2>3
  <2> QED BY <1>1, <1>2, <2>2, <2>4 DEF LimitParts, Writing, W
<1>11. CASE Returns
  <2>1. Writing
    BY <1>11 DEF Returns, Writing
  <2>2. /\ Inside(Head(loop.todo)) /\ \A i \in DOMAIN loop.todo : Inside(loop.todo[i])
        /\ \A i \in DOMAIN Tail(loop.todo) : Inside(Tail(loop.todo)[i])
    BY <1>1, <2>1, TodoIs DEF LimitParts
  <2>3. /\ loop'.at # "loop" => loop'.plan = Head(loop.todo)
        /\ Writing' => loop'.todo = Tail(loop.todo)
    BY <1>11, DisarmedTyped DEF Returns, Writing
  <2>4. UNCHANGED mach /\ sess'.planned = Head(loop.todo) /\ sess'.st = sess.st
    BY <1>11 DEF Returns
  <2>5. W(wire') /\ (query'.at = "answered" => query' = query)
    <3> HIDE DEF W
    <3> QED BY <1>6, <1>7, <1>11 DEF Returns, Asks
  <2> HIDE DEF W
  <2> QED BY <1>1, <1>2, <2>2, <2>3, <2>4, <2>5 DEF LimitParts, W
<1>12. CASE Admit
  <2>1. loop.at = "admit" /\ UNCHANGED <<mach, wire, query, sess>>
    BY <1>12, AdmitIs
  <2>2. loop'.at = "loop" \/ (loop'.at = "write" /\ loop'.plan = loop.plan /\ loop'.todo = <<NextTarget>>)
    BY <1>12, AdmitIs, DisarmedTyped
  <2>3. Inside(loop.plan) /\ Inside(NextTarget)
    BY <1>1, <2>1, NextTargetIs DEF LimitParts
  <2> QED BY <1>1, <1>2, <2>1, <2>2, <2>3 DEF LimitParts, Writing
<1>13. CASE Arm
  BY <1>3, <1>13, <1>1, <1>2, ArmTyped DEF Arm, SameMotion, Machines, LimitParts, Writing
<1>14. CASE Hears
  BY <1>1, <1>14, <1>2 DEF Hears, LimitParts, Sample, Writing, SameMotion
<1>15. CASE LetsGo
  <2>1. UNCHANGED mach /\ sess'.planned = Origin /\ sess'.st.pos = Origin /\ query'.at = "none"
        /\ loop'.at = "loop" /\ wire' = Forgotten(wire)
    BY <1>15, DisarmedTyped DEF LetsGo, Release
  <2> HIDE DEF W
  <2>2. W(wire')
    BY <1>8, <2>1
  <2> QED BY <1>1, <1>2, <2>1, <2>2, OriginInside DEF LimitParts, Writing, W
<1>16. CASE Ticks
  <2>1. Inside(TickAnchor(sess))
    BY <1>1 DEF TickAnchor, LimitParts
  <2>2. W(wire') /\ (query'.at = "answered" => query' = query)
    <3> HIDE DEF W
    <3> QED BY <1>6, <1>7, <1>16 DEF Ticks, Asks
  <2> HIDE DEF W
  <2> QED BY <1>1, <1>2, <1>16, <2>1, <2>2 DEF Ticks, LimitParts, Writing, W
<1>17. CASE SetOrigin
  <2> DEFINE zero == [op |-> "origin", seen |-> sess.st.pos]
  <2> DEFINE ask == [op |-> "ask"]
  <2>1. ask \in Lines /\ zero \in Lines /\ ask.op # "jog" /\ zero.op # "jog"
        /\ wire' \in {Append(wire, ask), Append(Append(wire, zero), ask)}
    BY <1>17, SetOriginTyped
  <2> HIDE DEF zero, ask, W
  <2>2. Append(wire, zero) \in Seq(Lines) /\ W(Append(wire, zero)) /\ W(Append(wire, ask))
    BY <1>3, <1>5, <1>6, <2>1
  <2>3. W(Append(Append(wire, zero), ask))
    BY <1>5, <2>1, <2>2
  <2>4. W(wire')
    BY <2>1, <2>2, <2>3
  <2>5. UNCHANGED <<mach, sess, loop>> /\ query'.at # "answered"
    BY <1>17 DEF SetOrigin
  <2> QED BY <1>1, <1>2, <2>4, <2>5 DEF LimitParts, Writing, W
<1>18. CASE Quiet
  <2>1. W(wire') /\ (query'.at = "answered" => query' = query)
    <3> HIDE DEF W
    <3> QED BY <1>6, <1>7, <1>8, <1>18 DEF Quiet, Asks
  <2> HIDE DEF W
  <2> QED BY <1>1, <1>2, <1>18, <2>1 DEF Quiet, SameSession, SameMotion, LimitParts, Writing, W
<1>19. ASSUME NEW stalls \in BOOLEAN, Pass(stalls) PROVE LimitParts'
  <2>1. UNCHANGED <<wire, loop>> /\ sess'.planned = sess.planned /\ sess'.st = sess.st
    <3>1. loop' = loop
      BY <1>19, PassLoop
    <3>2. wire' = wire /\ sess'.planned = sess.planned /\ sess'.st = sess.st
      BY <1>3, <1>19 DEF Pass, Sessions
    <3> QED BY <3>1, <3>2
  <2>2. query'.at = "answered" => query.at = "answered" /\ query'.pos = query.pos
    BY <1>19 DEF Pass, TypeOK, Queries
  <2>3. Inside(mach'.pos) /\ \A i \in DOMAIN mach'.queue : Inside(mach'.queue[i].to)
    <3> DEFINE q == mach.queue
    <3>1. q \in Seq(Moves) /\ DOMAIN q = 1 .. Len(q) /\ Len(q) \in Nat
      BY PartsAre, LenProperties
    <3>2. CASE mach' = mach
      BY <1>1, <3>2 DEF LimitParts
    <3>3. CASE /\ q # <<>> /\ q[1].left > 1 /\ mach'.pos = mach.pos /\ mach'.queue = [q EXCEPT ![1] = Worked(@)]
      <4>1. 1 \in DOMAIN q /\ q[1] \in Moves /\ q[1].left > 0
        <5>1. 1 \in DOMAIN q /\ q[1] \in Moves
          BY <3>1, <3>3, EmptySeq, ElementOfSeq
        <5> QED BY <3>3, <5>1 DEF Moves
      <4> HIDE DEF q
      <4>2. /\ Worked(q[1]).to = q[1].to /\ DOMAIN mach'.queue = DOMAIN q
            /\ \A i \in DOMAIN q : i # 1 => mach'.queue[i] = q[i]
            /\ mach'.queue[1] = Worked(q[1])
        BY <3>1, <3>3, <4>1, WorkedIs
      <4> QED BY <1>1, <3>3, <4>1, <4>2 DEF LimitParts, q
    <3>4. CASE q # <<>> /\ mach'.pos = q[1].to /\ mach'.queue = Tail(q)
      <4>1. 1 \in DOMAIN q /\ \A i \in DOMAIN Tail(q) : i + 1 \in DOMAIN q /\ Tail(q)[i] = q[i + 1]
        <5> HIDE DEF q
        <5>1. Len(q) # 0
          BY <3>1, <3>4, EmptySeq
        <5>2. Tail(q) \in Seq(Moves) /\ Len(Tail(q)) = Len(q) - 1 /\ \A i \in 1 .. Len(Tail(q)) : Tail(q)[i] = q[i + 1]
          BY <3>1, <3>4, HeadTailProperties
        <5>3. DOMAIN Tail(q) = 1 .. Len(q) - 1
          BY <5>2, LenProperties
        <5> QED BY <3>1, <5>1, <5>2, <5>3
      <4> QED BY <1>1, <3>4, <4>1 DEF LimitParts
    <3> QED BY <1>19, <3>2, <3>3, <3>4, ExecutesIs DEF Pass
  <2> QED BY <1>1, <1>2, <2>1, <2>2, <2>3 DEF LimitParts, Writing
<1>20. ASSUME NEW why \in {"Hold", "Alarm"}, Stops(why) PROVE LimitParts'
  <2>1. UNCHANGED <<wire, query, sess, loop>>
    BY <1>20 DEF Stops
  <2>2. /\ mach'.queue = (IF why = "Alarm" THEN <<>> ELSE mach.queue)
        /\ mach'.pos = (IF why = "Alarm" THEN Position ELSE mach.pos)
    BY <1>3, <1>20 DEF Stops, Machines
  <2>3. Inside(Position)
    BY PositionTyped
  <2> QED BY <1>1, <1>2, <2>1, <2>2, <2>3 DEF LimitParts, Writing
<1>21. CASE Ends
  BY <1>21, <1>1, <1>2 DEF Ends, Resting, SameMotion, LimitParts, Writing
<1>22. CASE Starts
  BY <1>22, <1>1, <1>2 DEF Starts, CommandAnchor, LimitParts, Writing
<1> HIDE DEF W
<1> QED BY <1>9, <1>10, <1>11, <1>12, <1>13, <1>14, <1>15, <1>16, <1>17, <1>18, <1>19, <1>20, <1>21, <1>22, TrackedWays

-----------------------------------------------------------------------------
(* What an Idle answer means.                                               *)

\* IdleInv of a session that holds a lease
IdleParts ==
    /\ Calm(wire) \/ sess.lead >= SegDur \/ loop.at = "sent"
    /\ query.at = "answered" /\ query.state = "Idle" =>
         Resting(query.pos) \/ sess.lead + query.old >= SegDur \/ loop.at = "sent"
    /\ sess.after /\ sess.st.state = "Idle" =>
         /\ Resting(sess.st.pos) \/ loop.at = "sent"
         /\ sess.planned = sess.st.pos
    /\ loop.at # "loop" => loop.plan = sess.planned

\* Where the machine rests it stays, while the wire holds no more jog lines.
LEMMA RestingStays ==
    ASSUME SameMotion, Calm(wire) => Calm(wire')
    PROVE  \A p : Resting(p) => Resting(p)'
<1>1. ASSUME NEW p, Resting(p) PROVE Resting(p)'
  BY <1>1 DEF Resting, NoJogs, Calm, SameMotion
<1> QED BY <1>1

LEMMA IdleKept ==
    ASSUME TypeOK, BaseInv, IdleInv, CommandInv, PromptInv, PendingInv, [Next]_vars
    PROVE  IdleInv'
<1> SUFFICES ASSUME Tracked, sess'.armed PROVE IdleParts'
  BY SceneSays DEF IdleInv, IdleParts, NoJogs, Calm
<1>1. sess.armed => IdleParts
  BY DEF IdleInv, IdleParts, NoJogs, Calm
<1>2. /\ mach \in Machines /\ wire \in Seq(Lines) /\ loop \in Loops /\ sess \in Sessions
      /\ Here.delay < SegDur /\ Here.delay \in Nat /\ SegDur \in Nat \ {0} /\ sess.lead \in Nat
      /\ query.at = "answered" => query.old \in Nat /\ query.old <= Here.delay
  <2>1. Here.delay < SegDur /\ Here.delay \in Nat /\ SegDur \in Nat \ {0}
    BY SceneIs, TimeAssumption DEF Tracked, Sticks, Prompt
  <2>2. mach \in Machines /\ wire \in Seq(Lines) /\ loop \in Loops /\ sess \in Sessions
    BY DEF TypeOK
  <2>3. sess.lead \in Nat /\ (query.at = "answered" => query.old \in Nat)
    BY PartsAre
  <2>4. query.at = "answered" => query.old <= Here.delay
    BY DEF BaseInv, LeaseInv
  <2> QED BY <2>1, <2>2, <2>3, <2>4
<1>3. mach' = mach => SameMotion
  BY DEF SameMotion
<1>4. /\ wire' = Append(wire, [op |-> "ask"]) => (Calm(wire') <=> Calm(wire))
      /\ wire' = Forgotten(wire) => (Calm(wire') <=> Calm(wire))
  <2> DEFINE ask == [op |-> "ask"]
  <2>1. ask \in Lines /\ ask.op # "jog"
    BY DEF Lines
  <2> HIDE DEF ask
  <2>2. Calm(Append(wire, ask)) <=> Calm(wire)
    BY <1>2, <2>1, CalmIs
  <2>3. Calm(Forgotten(wire)) <=> Calm(wire)
    BY <1>2, CalmIs
  <2> QED BY <2>2, <2>3 DEF ask
<1>5. CASE TakeLine
  <2>1. UNCHANGED <<sess, loop>> /\ wire # <<>> /\ 1 \in DOMAIN wire
        /\ \A i \in DOMAIN wire' : wire'[i] = wire[i + 1] /\ i + 1 \in DOMAIN wire
    BY <1>5, TakeLineIs
  <2>2. IdleParts
    BY <1>1, <2>1
  <2>3. Calm(wire) => Calm(wire')
    BY <2>1 DEF Calm
  <2>4. CASE wire[1].op = "jog" /\ UNCHANGED query
    BY <2>1, <2>4, <2>2 DEF Calm, Resting, NoJogs, IdleParts
  <2>5. CASE UNCHANGED <<mach, query>>
    BY <1>3, <2>3, <2>5, RestingStays, <2>1, <2>2 DEF IdleParts
  <2>6. CASE /\ query' = [at |-> "answered", pos |-> Position, state |-> State, old |-> 0]
             /\ UNCHANGED mach
    <3>1. \A p : Resting(p) => Resting(p)'
      BY <1>3, <2>3, <2>6, RestingStays
    <3>2. query'.pos = Position /\ query'.state = State /\ query'.old = 0
      BY <2>6
    <3>3. State = "Idle" /\ Calm(wire) => Resting(Position)
      BY StateIs, PositionTyped DEF Resting, NoJogs, Calm
    <3> QED BY <1>2, <2>1, <2>2, <2>3, <3>1, <3>2, <3>3 DEF IdleParts
  <2> QED BY <1>5, <2>4, <2>5, <2>6, TakeLineIs
<1>6. CASE SendLine
  BY <1>2, <1>6, <1>1 DEF SendLine, Loops, IdleParts
<1>7. CASE Returns
  <2> DEFINE dur == moveDuration(axesDelta(loop.plan, Head(loop.todo)))
  <2>1. sess'.lead = sess.lead + dur /\ dur \in Nat \ {0} /\ sess'.planned = Head(loop.todo) /\ ~sess'.after
    BY <1>7, CommittedTyped DEF Returns, Writing
  <2>2. dur >= SegDur
    <3>1. axesDelta(loop.plan, Head(loop.todo)) \in Points
      BY <1>7, PointsAre, PartsAre, CommittedTyped DEF Returns, Writing
    <3> QED BY <1>2, <2>1 DEF moveDuration, Max2
  <2> HIDE DEF dur
  <2>3. sess'.lead >= SegDur /\ sess'.lead \in Nat
    BY <1>2, <2>1, <2>2
  <2>4. (UNCHANGED query \/ query'.at = "asked") /\ (loop'.at = "loop" \/ loop'.plan = Head(loop.todo))
    BY <1>7, DisarmedTyped DEF Returns, Asks
  <2> QED BY <1>2, <2>1, <2>3, <2>4 DEF IdleParts
<1>8. CASE Admit
  <2>1. loop.at = "admit" /\ UNCHANGED <<mach, wire, query, sess>>
    BY <1>8, AdmitIs
  <2>2. loop'.at = "loop" \/ (loop'.at = "write" /\ loop'.plan = loop.plan)
    BY <1>8, AdmitIs, DisarmedTyped
  <2>3. \A p : Resting(p) => Resting(p)'
    BY <1>3, <2>1, RestingStays
  <2> QED BY <1>1, <2>1, <2>2, <2>3 DEF IdleParts
<1>9. CASE Arm
  <2>1. ~sess.armed /\ loop.at = "loop" /\ wire = <<>> /\ State = "Idle" /\ UNCHANGED <<wire, query, loop>>
        /\ mach' = [mach EXCEPT !.refused = FALSE]
    BY <1>9 DEF Arm
  <2>2. query.at = "none"
    BY <2>1 DEF BaseInv, LeaseInv
  <2>3. Calm(wire') /\ Resting(mach.pos)'
    BY <1>2, <2>1, StateIs DEF Resting, NoJogs, Calm, Machines
  <2> QED BY <1>9, <2>1, <2>2, <2>3, ArmTyped DEF IdleParts
<1>10. CASE Hears
  <2>1. /\ loop.at = "loop" /\ query.at = "answered" /\ sess.armed /\ sess'.lead = sess.lead
        /\ sess'.st.pos = query.pos /\ sess'.st.state = query.state
        /\ sess'.after = (sess.lead = 0)
        /\ sess'.planned = IF sess.lead = 0 /\ query.state = "Idle" THEN query.pos ELSE sess.planned
        /\ query'.at = "none" /\ UNCHANGED <<wire, loop>>
    BY <1>10 DEF Hears, Sample
  <2>2. \A p : Resting(p) => Resting(p)'
    BY <1>10, <2>1, RestingStays DEF Hears
  <2>3. sess.lead = 0 /\ query.state = "Idle" => Resting(query.pos)
    BY <1>1, <1>2, <2>1 DEF IdleParts
  <2> QED BY <1>1, <2>1, <2>2, <2>3 DEF IdleParts
<1>11. CASE LetsGo
  BY <1>11, DisarmedTyped DEF LetsGo, Release
<1>12. CASE Ticks
  <2>1. sess.armed /\ loop.at = "loop" /\ loop'.at = "admit" /\ loop'.plan = TickAnchor(sess)
        /\ UNCHANGED <<mach, sess>>
    BY <1>12 DEF Ticks
  <2>2. TickAnchor(sess) = sess.planned
    BY <1>1, <2>1 DEF TickAnchor, IdleParts
  <2>3. (Calm(wire') <=> Calm(wire)) /\ (query'.at = "answered" => query' = query)
    BY <1>4, <1>12 DEF Ticks, Asks
  <2>4. \A p : Resting(p) => Resting(p)'
    BY <1>3, <2>1, <2>3, RestingStays
  <2> QED BY <1>1, <2>1, <2>2, <2>3, <2>4 DEF IdleParts
<1>13. CASE SetOrigin
  <2> DEFINE zero == [op |-> "origin", seen |-> sess.st.pos]
  <2> DEFINE ask == [op |-> "ask"]
  <2>1. ask \in Lines /\ zero \in Lines /\ ask.op # "jog" /\ zero.op # "jog"
        /\ wire' \in {Append(wire, ask), Append(Append(wire, zero), ask)}
    BY <1>13, SetOriginTyped
  <2> HIDE DEF zero, ask
  <2>2. Append(wire, zero) \in Seq(Lines)
    BY <1>2, <2>1, AppendIs
  <2>3. Calm(wire') <=> Calm(wire)
    <3>1. Calm(Append(wire, ask)) <=> Calm(wire)
      BY <1>2, <2>1, CalmIs
    <3>2. Calm(Append(wire, zero)) <=> Calm(wire)
      BY <1>2, <2>1, CalmIs
    <3>3. Calm(Append(Append(wire, zero), ask)) <=> Calm(Append(wire, zero))
      BY <2>1, <2>2, CalmIs
    <3> QED BY <2>1, <3>1, <3>2, <3>3
  <2>4. UNCHANGED <<mach, sess, loop>> /\ query'.at = "asked"
    BY <1>13 DEF SetOrigin
  <2>5. \A p : Resting(p) => Resting(p)'
    BY <1>3, <2>3, <2>4, RestingStays
  <2> QED BY <1>1, <2>3, <2>4, <2>5 DEF IdleParts
<1>14. CASE Quiet
  <2>1. SameSession /\ SameMotion /\ loop' = loop
    BY <1>14 DEF Quiet
  <2>2. (Calm(wire') <=> Calm(wire)) /\ (query'.at = "answered" => query' = query)
    BY <1>4, <1>14 DEF Quiet, Asks
  <2>3. \A p : Resting(p) => Resting(p)'
    BY <2>1, <2>2, RestingStays
  <2> QED BY <1>1, <2>1, <2>2, <2>3 DEF IdleParts, SameSession
<1>15. ASSUME NEW stalls \in BOOLEAN, Pass(stalls) PROVE IdleParts'
  <2>1. /\ wire = <<>> /\ UNCHANGED <<wire, loop>>
        /\ sess'.armed = sess.armed /\ sess'.planned = sess.planned
        /\ sess'.st = sess.st /\ sess'.after = sess.after
        /\ sess.armed => sess'.lead = Less(sess.lead)
        /\ query'.at = query.at
        /\ query.at = "answered" => /\ query'.pos = query.pos /\ query'.state = query.state
                                    /\ query'.old = query.old + 1 /\ query'.old <= Here.delay
        /\ mach.queue = <<>> => mach' = mach
    BY <1>15, PassSays
  <2>2. Calm(wire) /\ Calm(wire')
    BY <2>1 DEF Calm
  <2>3. \A p : Resting(p) => Resting(p)'
    BY <2>1, <2>2, <1>3, RestingStays DEF Resting
  <2>4. query.at = "answered" /\ sess.lead + query.old >= SegDur =>
          sess'.lead + query'.old >= SegDur
    BY <1>2, <2>1 DEF Less
  <2> QED BY <1>1, <2>1, <2>2, <2>3, <2>4 DEF IdleParts
<1>16. ASSUME NEW why \in {"Hold", "Alarm"}, Stops(why) PROVE IdleParts'
  <2>1. UNCHANGED <<wire, query, sess, loop>>
    BY <1>16 DEF Stops
  <2>2. /\ mach'.queue = (IF why = "Alarm" THEN <<>> ELSE mach.queue)
        /\ mach'.pos = (IF why = "Alarm" THEN Position ELSE mach.pos)
    BY <1>2, <1>16 DEF Stops, Machines
  <2>3. ASSUME NEW p, Resting(p) PROVE Resting(p)'
    BY <2>1, <2>2, <2>3, PositionTyped DEF Resting, NoJogs
  <2> QED BY <1>1, <2>1, <2>3 DEF IdleParts
<1>17. CASE Ends
  <2>1. /\ loop.at = "loop" /\ sess.armed /\ Resting(sess'.planned) /\ SameMotion
        /\ sess'.lead = 0 /\ sess'.st.pos = sess'.planned
        /\ query'.at = "none" \/ (query' = query /\ sess.lead = 0)
    BY <1>17 DEF Ends
  <2>2. UNCHANGED <<wire, loop>>
    BY <1>17 DEF Ends
  <2>3. Calm(wire) /\ \A p : Resting(p) => Resting(p)'
    BY <2>1, <2>2, RestingStays DEF Resting, NoJogs, Calm
  <2>4. Resting(sess.st.pos)'
    BY <2>1, <2>2 DEF Resting, NoJogs, SameMotion
  <2> QED BY <1>1, <2>1, <2>2, <2>3, <2>4 DEF IdleParts
<1>18. CASE Starts
  <2>1. /\ sess.armed /\ loop.at = "loop" /\ UNCHANGED <<mach, wire, query, sess>>
        /\ loop'.at = "write" /\ loop'.plan = CommandAnchor /\ (Here.steps \/ Here.targets)
    BY <1>18 DEF Starts
  <2>2. Prompt
    BY <2>1 DEF Tracked, Sticks
  <2>3. CommandAnchor = sess.planned
    BY <1>1, <2>1, <2>2 DEF CommandAnchor, PromptInv, IdleParts
  <2>4. \A p : Resting(p) => Resting(p)'
    BY <1>3, <2>1, RestingStays
  <2> QED BY <1>1, <2>1, <2>3, <2>4 DEF IdleParts
<1> QED BY <1>5, <1>6, <1>7, <1>8, <1>9, <1>10, <1>11, <1>12, <1>13, <1>14, <1>15, <1>16, <1>17, <1>18, TrackedWays

-----------------------------------------------------------------------------
(* An origin command finds the machine at rest.                             *)

LEMMA OriginKept ==
    ASSUME TypeOK, BaseInv, IdleInv, OriginInv, CommandInv, PendingInv, [Next]_vars
    PROVE  OriginInv'
<1> DEFINE O(lines) == \A i \in DOMAIN lines : lines[i].op = "origin" =>
                         /\ \A j \in 1 .. i - 1 : lines[j].op # "jog"
                         /\ mach.queue = <<>> /\ mach.pos = lines[i].seen
<1> DEFINE N(lines) == \A i \in DOMAIN lines : lines[i].op = "origin" =>
                         /\ \A j \in 1 .. i - 1 : lines[j].op # "jog"
                         /\ mach'.queue = <<>> /\ mach'.pos = lines[i].seen
<1> SUFFICES ASSUME Tracked PROVE N(wire')
  BY SceneSays DEF OriginInv
<1>1. O(wire)
  BY DEF OriginInv
<1>2. mach \in Machines /\ wire \in Seq(Lines)
  BY DEF TypeOK
<1>3. mach' = mach => SameMotion
  BY DEF SameMotion
<1>4. SameMotion => N(wire)
  BY <1>1 DEF SameMotion
<1>5. ASSUME NEW lines \in Seq(Lines), NEW l \in Lines, N(lines),
             l.op = "origin" => Calm(lines) /\ mach'.queue = <<>> /\ mach'.pos = l.seen
      PROVE  Append(lines, l) \in Seq(Lines) /\ N(Append(lines, l))
  <2> DEFINE a == Append(lines, l)
  <2>1. /\ a \in Seq(Lines)
        /\ DOMAIN a = 1 .. Len(lines) + 1 /\ DOMAIN lines = 1 .. Len(lines) /\ Len(lines) \in Nat
        /\ \A i \in 1 .. Len(lines) : a[i] = lines[i]
        /\ a[Len(lines) + 1] = l
        /\ \A i \in 1 .. Len(lines) + 1 : i \in 1 .. Len(lines) \/ i = Len(lines) + 1
    BY AppendIs
  <2> HIDE DEF a
  <2>2. ASSUME NEW i \in 1 .. Len(lines), a[i].op = "origin"
        PROVE  /\ \A j \in 1 .. i - 1 : a[j].op # "jog"
               /\ mach'.queue = <<>> /\ mach'.pos = a[i].seen
    BY <2>1, <1>5, <2>2
  <2>3. ASSUME a[Len(lines) + 1].op = "origin"
        PROVE  /\ \A j \in 1 .. (Len(lines) + 1) - 1 : a[j].op # "jog"
               /\ mach'.queue = <<>> /\ mach'.pos = a[Len(lines) + 1].seen
    BY <2>1, <1>5, <2>3 DEF Calm
  <2>4. N(a)
    BY <2>1, <2>2, <2>3
  <2> QED BY <2>1, <2>4 DEF a
<1>6. [op |-> "ask"] \in Lines /\ [op |-> "ask"].op # "jog" /\ [op |-> "ask"].op # "origin"
  BY DEF Lines
<1>7. SameMotion /\ wire' = Append(wire, [op |-> "ask"]) => N(wire')
  <2> HIDE DEF N
  <2> QED BY <1>2, <1>4, <1>5, <1>6
<1>8. SameMotion /\ wire' = Forgotten(wire) => N(wire')
  <2> SUFFICES ASSUME SameMotion, wire' = Forgotten(wire),
                      NEW i \in DOMAIN wire', wire'[i].op = "origin"
               PROVE  /\ \A j \in 1 .. i - 1 : wire'[j].op # "jog"
                      /\ mach'.queue = <<>> /\ mach'.pos = wire'[i].seen
    OBVIOUS
  <2>1. i \in DOMAIN wire /\ wire[i].op = "origin" /\ wire'[i] = wire[i]
    BY <1>2, ForgottenIs
  <2>2. DOMAIN wire = 1 .. Len(wire) /\ Len(wire) \in Nat
    BY <1>2, LenProperties
  <2>3. \A j \in 1 .. i - 1 : j \in DOMAIN wire
    BY <2>1, <2>2
  <2>4. \A j \in 1 .. i - 1 : wire[j].op # "jog"
    BY <1>4, <2>1
  <2>5. \A j \in 1 .. i - 1 : wire'[j].op # "jog"
    BY <1>2, <2>3, <2>4, ForgottenIs
  <2> QED BY <1>4, <2>1, <2>5
<1>9. CASE TakeLine
  <2> SUFFICES ASSUME NEW i \in DOMAIN wire', wire'[i].op = "origin"
               PROVE  /\ \A j \in 1 .. i - 1 : wire'[j].op # "jog"
                      /\ mach'.queue = <<>> /\ mach'.pos = wire'[i].seen
    OBVIOUS
  <2>1. /\ wire # <<>> /\ 1 \in DOMAIN wire /\ \A k \in DOMAIN wire' : wire'[k] = wire[k + 1] /\ k + 1 \in DOMAIN wire
        /\ wire' \in Seq(Lines)
        /\ wire[1].op = "jog" \/ UNCHANGED mach
    BY <1>9, TakeLineIs
  <2>2. DOMAIN wire' = 1 .. Len(wire') /\ Len(wire') \in Nat
    BY <2>1, LenProperties
  <2>3. wire[i + 1].op = "origin" /\ wire'[i] = wire[i + 1] /\ i + 1 \in DOMAIN wire /\ i \in Nat \ {0}
    BY <2>1, <2>2
  <2>4. (\A j \in 1 .. (i + 1) - 1 : wire[j].op # "jog") /\ mach.queue = <<>> /\ mach.pos = wire[i + 1].seen
    BY <1>1, <2>3
  <2>5. 1 \in 1 .. (i + 1) - 1 /\ \A j \in 1 .. i - 1 : j + 1 \in 1 .. (i + 1) - 1 /\ j \in DOMAIN wire'
    BY <2>2, <2>3
  <2>6. \A j \in 1 .. i - 1 : wire'[j] = wire[j + 1]
    BY <2>1, <2>5
  <2> QED BY <2>1, <2>3, <2>4, <2>5, <2>6
<1>10. CASE SendLine
  <2> DEFINE l == jogCommand(loop.plan, Head(loop.todo), moveDuration(axesDelta(loop.plan, Head(loop.todo))))
  <2>1. wire' = Append(wire, l) /\ l \in Lines /\ l.op # "origin"
    BY <1>10, SendLineTyped DEF Lines, JogLines
  <2>2. mach' = mach
    BY <1>10 DEF SendLine
  <2> HIDE DEF l, N
  <2> QED BY <1>2, <1>3, <1>4, <1>5, <2>1, <2>2
<1>11. CASE Arm
  BY <1>11 DEF Arm
<1>12. CASE SetOrigin
  <2> DEFINE zero == [op |-> "origin", seen |-> sess.st.pos]
  <2> DEFINE ask == [op |-> "ask"]
  <2>1. ask \in Lines /\ zero \in Lines /\ ask.op # "origin" /\ zero.seen = sess.st.pos
    BY <1>12, SetOriginTyped
  <2>2. mach' = mach /\ (wire' = Append(wire, ask) \/ (MayZero /\ wire' = Append(Append(wire, zero), ask)))
    BY <1>12, SetOriginTyped, <1>2, <2>1 DEF SetOrigin
  <2>3. MayZero => Calm(wire) /\ mach.queue = <<>> /\ mach.pos = sess.st.pos
    BY <1>12 DEF SetOrigin, Commanded, MayZero, IdleInv, Resting, NoJogs, Calm
  <2> HIDE DEF zero, ask, N
  <2>4. MayZero => Append(wire, zero) \in Seq(Lines) /\ N(Append(wire, zero))
    BY <1>2, <1>3, <1>4, <1>5, <2>1, <2>2, <2>3
  <2>5. MayZero => N(Append(Append(wire, zero), ask))
    BY <1>5, <2>1, <2>4
  <2>6. N(Append(wire, ask))
    BY <1>2, <1>3, <1>4, <1>5, <2>1, <2>2
  <2> QED BY <2>2, <2>5, <2>6
<1>13. Admit \/ Hears \/ Ends \/ Starts => SameMotion /\ wire' = wire
  BY <1>3, AdmitIs DEF Hears, Ends, Starts
<1>14. LetsGo => SameMotion /\ wire' = Forgotten(wire)
  BY <1>3 DEF LetsGo, Release
<1>15. Ticks \/ Returns \/ Quiet => SameMotion /\ (wire' = wire \/ wire' = Append(wire, [op |-> "ask"]) \/ wire' = Forgotten(wire))
  BY <1>3 DEF Ticks, Returns, Quiet, Asks
<1>16. ASSUME NEW stalls \in BOOLEAN, Pass(stalls) PROVE N(wire')
  BY <1>16 DEF Pass
<1>17. ASSUME NEW why \in {"Hold", "Alarm"}, Stops(why) PROVE N(wire')
  BY <1>17, <1>2, <1>1, PositionTyped DEF Stops, Machines
<1> HIDE DEF N, O
<1> QED BY <1>4, <1>7, <1>8, <1>9, <1>10, <1>11, <1>12, <1>13, <1>14, <1>15, <1>16, <1>17, TrackedWays

-----------------------------------------------------------------------------
(* The session plans from where the machine will stop.                      *)

\* What QueueEnds is before and after a step
LEMMA QueueEndsNext ==
    ASSUME [Next]_vars
    PROVE  /\ \A from, lines : EndsOf(from, lines)' = EndsOf(from, lines)
           /\ QueueEnds' = EndsOf(EndOf(mach'.pos, mach'.queue), wire')
           /\ QueueEnd' = EndsOf(EndOf(mach'.pos, mach'.queue), wire')[Len(wire')]
<1>1. scene' = scene
  BY SceneKept
<1>2. \A p, l : LineEnd(p, l)' = LineEnd(p, l)
  BY <1>1 DEF LineEnd, Here
<1>3. \A from, lines : EndsOf(from, lines)' = EndsOf(from, lines)
  BY <1>2 DEF EndsOf
<1>4. QueueEnds' = EndsOf(EndOf(mach'.pos, mach'.queue), wire')
  BY <1>3 DEF QueueEnds, EndOf
<1> QED BY <1>3, <1>4 DEF QueueEnd

\* Each line starts where the one before it ends; where the last one ends
Lined(from, lines) ==
    \A i \in DOMAIN lines : lines[i].op = "jog" =>
        lines[i].d = axesDelta(EndsOf(from, lines)[i - 1], lines[i].to)
Last(from, lines) == EndsOf(from, lines)[Len(lines)]

\* It goes on with a line that starts at the end.
LEMMA LinedAppend ==
    ASSUME NEW from \in Points, NEW lines \in Seq(Lines), NEW l \in Lines, Lined(from, lines),
           l.op = "jog" => l.d = axesDelta(Last(from, lines), l.to)
    PROVE  /\ Append(lines, l) \in Seq(Lines)
           /\ Lined(from, Append(lines, l))
           /\ Last(from, Append(lines, l)) = IF l.op = "jog" THEN l.to ELSE Last(from, lines)
<1> DEFINE a == Append(lines, l)
<1> DEFINE e == EndsOf(from, lines)
<1> DEFINE f == EndsOf(from, a)
<1>1. /\ a \in Seq(Lines) /\ Len(a) = Len(lines) + 1
      /\ DOMAIN a = 1 .. Len(lines) + 1 /\ DOMAIN lines = 1 .. Len(lines) /\ Len(lines) \in Nat
      /\ \A i \in 1 .. Len(lines) : a[i] = lines[i]
      /\ a[Len(lines) + 1] = l
      /\ \A i \in 1 .. Len(lines) + 1 : i \in 1 .. Len(lines) \/ i = Len(lines) + 1
  BY AppendIs
<1>2. /\ \A n \in 0 .. Len(lines) : f[n] = e[n]
      /\ f[Len(lines) + 1] = IF l.op = "jog" THEN LineEnd(e[Len(lines)], l) ELSE e[Len(lines)]
  BY EndsOfAppend
<1>3. e[Len(lines)] \in Points
  BY <1>1, EndsDefined
<1>4. l.op = "jog" => l.d = axesDelta(e[Len(lines)], l.to) /\ l \in JogLines
  BY JogLinesAre DEF Last
<1>5. l.op = "jog" => LineEnd(e[Len(lines)], l) = l.to
  <2> HIDE DEF e
  <2> QED BY <1>3, <1>4, LineEndIs
<1>6. Last(from, a) = IF l.op = "jog" THEN l.to ELSE Last(from, lines)
  BY <1>1, <1>2, <1>5 DEF Last
<1>7. \A i \in 1 .. Len(lines) : lines[i].op = "jog" => lines[i].d = axesDelta(e[i - 1], lines[i].to)
  BY <1>1 DEF Lined
<1> HIDE DEF e, f, a
<1>8. ASSUME NEW i \in 1 .. Len(lines) + 1, a[i].op = "jog"
      PROVE  a[i].d = axesDelta(f[i - 1], a[i].to)
  <2>1. CASE i \in 1 .. Len(lines)
    BY <1>1, <2>1, <1>2, <1>7, <1>8
  <2>2. CASE i = Len(lines) + 1
    BY <1>1, <2>2, <1>2, <1>4, <1>8
  <2> QED BY <1>1, <2>1, <2>2
<1>9. Lined(from, a)
  BY <1>1, <1>8 DEF Lined, f
<1> QED BY <1>1, <1>6, <1>9 DEF a

\* It goes on when the first line has been read.
LEMMA LinedTail ==
    ASSUME NEW from \in Points, NEW lines \in Seq(Lines), lines # <<>>, Lined(from, lines),
           NEW to \in Points, to = IF lines[1].op = "jog" THEN LineEnd(from, lines[1]) ELSE from
    PROVE  /\ Lined(to, Tail(lines))
           /\ Last(to, Tail(lines)) = Last(from, lines)
<1> DEFINE e == EndsOf(from, lines)
<1> DEFINE t == Tail(lines)
<1> DEFINE f == EndsOf(to, t)
<1>1. /\ Len(lines) \in Nat \ {0} /\ t \in Seq(Lines) /\ Len(t) = Len(lines) - 1
      /\ DOMAIN lines = 1 .. Len(lines) /\ DOMAIN t = 1 .. Len(lines) - 1
      /\ \A i \in 1 .. Len(lines) - 1 : t[i] = lines[i + 1]
  BY EmptySeq, LenProperties, HeadTailProperties
<1>2. e[1] = to
  BY <1>1, EndsDefined
<1>3. \A n \in 0 .. Len(lines) - 1 : f[n] = e[n + 1]
  BY <1>2, EndsOfTail
<1>4. Last(to, t) = Last(from, lines)
  <2>1. Len(lines) - 1 \in 0 .. Len(lines) - 1 /\ (Len(lines) - 1) + 1 = Len(lines)
    BY <1>1
  <2> HIDE DEF t
  <2> QED BY <1>1, <1>3, <2>1 DEF Last
<1>5. \A i \in 1 .. Len(lines) : lines[i].op = "jog" => lines[i].d = axesDelta(e[i - 1], lines[i].to)
  BY <1>1 DEF Lined
<1> HIDE DEF e, f, t
<1>6. ASSUME NEW i \in 1 .. Len(lines) - 1, t[i].op = "jog"
      PROVE  t[i].d = axesDelta(f[i - 1], t[i].to)
  BY <1>1, <1>3, <1>5, <1>6
<1>7. Lined(to, t)
  BY <1>1, <1>6 DEF Lined, f
<1> QED BY <1>4, <1>7 DEF t

\* Nothing changes with a query that nobody waits for, or with no line to move.
LEMMA LinedStays ==
    ASSUME NEW from \in Points, NEW lines \in Seq(Lines)
    PROVE  /\ Lined(from, lines) => Lined(from, Forgotten(lines))
           /\ Last(from, Forgotten(lines)) = Last(from, lines)
           /\ Calm(lines) => Lined(from, lines) /\ Last(from, lines) = from
<1>1. EndsOf(from, Forgotten(lines)) = EndsOf(from, lines)
  BY EndsOfForgotten
<1>2. Last(from, Forgotten(lines)) = Last(from, lines)
  BY <1>1, ForgottenIs DEF Last
<1>3. Lined(from, lines) => Lined(from, Forgotten(lines))
  BY <1>1, ForgottenIs DEF Lined
<1>4. Calm(lines) => Lined(from, lines) /\ Last(from, lines) = from
  BY LenProperties, EndsStay DEF Calm, Lined, Last
<1> QED BY <1>2, <1>3, <1>4

\* Where a queue ends
LEMMA EndOfIs ==
    ASSUME NEW pos \in Points, NEW queue \in Seq(Moves)
    PROVE  /\ EndOf(pos, queue) \in Points
           /\ \A m \in Moves : EndOf(pos, Append(queue, m)) = m.to
           /\ queue = <<>> => EndOf(pos, queue) = pos
<1>1. queue # <<>> => queue[Len(queue)] \in Moves
  BY EmptySeq, LenProperties, ElementOfSeq
<1>2. EndOf(pos, queue) \in Points
  BY <1>1 DEF EndOf, Moves
<1>3. ASSUME NEW m \in Moves PROVE EndOf(pos, Append(queue, m)) = m.to
  BY AppendProperties, LenProperties, EmptySeq DEF EndOf
<1> QED BY <1>2, <1>3 DEF EndOf

\* The machine executes toward the same end.
LEMMA PassEnds ==
    ASSUME TypeOK, BaseInv
    PROVE  EndOf(Executes.pos, Executes.queue) = EndOf(mach.pos, mach.queue)
<1> DEFINE q == mach.queue
<1>1. q \in Seq(Moves) /\ Len(q) \in Nat /\ DOMAIN q = 1 .. Len(q)
  BY PartsAre, LenProperties
<1>2. CASE /\ q # <<>> /\ q[1].left > 1 /\ Executes.pos = mach.pos
           /\ Executes.queue = [q EXCEPT ![1] = Worked(@)]
  <2> DEFINE w == [q EXCEPT ![1] = Worked(@)]
  <2>1. Len(q) \in 1 .. Len(q) /\ 1 \in DOMAIN q /\ q[1] \in Moves /\ q[Len(q)] \in Moves
    BY <1>1, <1>2, EmptySeq, ElementOfSeq
  <2>2. q[1].left > 0
    BY <1>2, <2>1 DEF Moves
  <2>3. w \in Seq(Moves) /\ Len(w) = Len(q) /\ w # <<>>
    <3> HIDE DEF q
    <3> QED BY <1>1, <1>2, <2>2, QueueTimePasses
  <2>4. w[Len(q)].to = q[Len(q)].to
    <3> HIDE DEF q
    <3>1. Worked(q[1]).to = q[1].to
      BY <2>1, <2>2, WorkedIs
    <3> QED BY <1>1, <2>1, <3>1
  <2> HIDE DEF w
  <2>5. Executes.queue = w
    BY <1>2 DEF w
  <2> QED BY <1>2, <2>3, <2>4, <2>5 DEF EndOf
<1>3. CASE q # <<>> /\ Executes.pos = q[1].to /\ Executes.queue = Tail(q)
  <2>1. Tail(q) \in Seq(Moves) /\ Len(Tail(q)) = Len(q) - 1 /\ Len(q) # 0
        /\ \A i \in 1 .. Len(q) - 1 : Tail(q)[i] = q[i + 1]
    <3> HIDE DEF q
    <3>1. Len(q) # 0
      BY <1>1, <1>3, EmptySeq
    <3> QED BY <1>1, <1>3, <3>1, HeadTailProperties
  <2>2. CASE Len(q) = 1
    <3>1. Tail(q) = <<>>
      <4> DEFINE t == Tail(q)
      <4>1. t \in Seq(Moves) /\ Len(t) = 0
        BY <2>1, <2>2
      <4> HIDE DEF t
      <4>2. t = <<>>
        BY <4>1, EmptySeq
      <4> QED BY <4>2 DEF t
    <3> QED BY <1>3, <2>2, <3>1 DEF EndOf
  <2>3. CASE Len(q) # 1
    <3>1. Len(q) - 1 \in 1 .. Len(q) - 1 /\ (Len(q) - 1) + 1 = Len(q) /\ Len(Tail(q)) # 0
      <4> DEFINE n == Len(q)
      <4>1. n \in Nat /\ n # 0 /\ n # 1 /\ Len(Tail(q)) = n - 1
        BY <1>1, <2>1, <2>3
      <4> HIDE DEF n
      <4>2. n - 1 \in 1 .. n - 1 /\ (n - 1) + 1 = n /\ n - 1 # 0
        BY <4>1
      <4>3. Len(Tail(q)) # 0
        BY <4>1, <4>2
      <4> QED BY <4>2, <4>3 DEF n
    <3>2. Tail(q) # <<>>
      BY <2>1, <3>1, EmptySeq
    <3>3. Tail(q)[Len(Tail(q))] = q[Len(q)]
      BY <2>1, <3>1
    <3> QED BY <1>3, <3>2, <3>3 DEF EndOf
  <2> QED BY <2>2, <2>3
<1> QED BY <1>2, <1>3, ExecutesIs

\* LineInv of a machine that has refused nothing
LineParts ==
    /\ Lined(EndOf(mach.pos, mach.queue), wire)
    /\ sess.armed => Last(EndOf(mach.pos, mach.queue), wire) = Intended
    /\ Sticks /\ ~Here.refuses /\ ~Here.stops /\ captured # Nothing =>
         Last(EndOf(mach.pos, mach.queue), wire) = captured[1]

LEMMA LinePartsAre == LineInv <=> (Tracked /\ ~mach.refused => LineParts)
  BY DEF LineInv, LineParts, Lined, Last, QueueEnds, QueueEnd

LEMMA LinePartsNext ==
    ASSUME [Next]_vars, NEW end, end = EndOf(mach'.pos, mach'.queue)
    PROVE  LineInv' <=> (Tracked /\ ~mach'.refused =>
             /\ Lined(end, wire')
             /\ sess'.armed => Last(end, wire') = (IF loop'.at = "sent" THEN Head(loop'.todo) ELSE sess'.planned)
             /\ Sticks /\ ~Here.refuses /\ ~Here.stops /\ captured' # Nothing => Last(end, wire') = captured'[1])
<1>1. Sticks' = Sticks /\ Tracked' = Tracked /\ Here' = Here
  BY SceneSays
<1>2. /\ QueueEnds' = EndsOf(end, wire')
      /\ QueueEnd' = EndsOf(end, wire')[Len(wire')]
  BY QueueEndsNext
<1>3. \A p, q : axesDelta(p, q)' = axesDelta(p, q)
  BY DEF axesDelta
<1> QED BY <1>1, <1>2, <1>3 DEF LineInv, Lined, Last, Intended

LEMMA LineKept ==
    ASSUME TypeOK, BaseInv, IdleInv, LineInv, CommandInv, PromptInv, PendingInv, [Next]_vars
    PROVE  LineInv'
<1> DEFINE from == EndOf(mach.pos, mach.queue)
<1> DEFINE end == EndOf(mach'.pos, mach'.queue)
<1> DEFINE intends == IF loop'.at = "sent" THEN Head(loop'.todo) ELSE sess'.planned
<1> DEFINE Untold == Sticks /\ ~Here.refuses /\ ~Here.stops
<1> DEFINE Goal == /\ Lined(end, wire')
                   /\ sess'.armed => Last(end, wire') = intends
                   /\ Untold /\ captured' # Nothing => Last(end, wire') = captured'[1]
<1> SUFFICES ASSUME Tracked, ~mach'.refused PROVE Goal
  BY LinePartsNext
<1>1. /\ mach \in Machines /\ wire \in Seq(Lines) /\ loop \in Loops /\ sess \in Sessions
      /\ from \in Points /\ mach.pos \in Points /\ mach.queue \in Seq(Moves)
      /\ loop.at # "loop" => sess.armed
      /\ Untold => ~mach.refused /\ sess.pending = Nothing /\ (loop.at # "loop" => loop.kind = "tick")
  BY PartsAre DEF Sticks, TypeOK, BaseInv, LeaseInv
<1>2. ~mach.refused => LineParts
  BY LinePartsAre
<1>3. SameMotion => end = from
  BY DEF SameMotion
<1>4. mach' = mach => SameMotion /\ ~mach.refused
  BY DEF SameMotion
<1> HIDE DEF from, end, Untold
<1>5. LineParts <=> /\ Lined(from, wire)
                    /\ sess.armed => Last(from, wire) = Intended
                    /\ Untold /\ captured # Nothing => Last(from, wire) = captured[1]
  BY DEF LineParts, from, Untold
<1>6. ASSUME NEW l \in Lines, l.op # "jog", Lined(from, wire)
      PROVE  /\ Append(wire, l) \in Seq(Lines) /\ Lined(from, Append(wire, l))
             /\ Last(from, Append(wire, l)) = Last(from, wire)
  BY <1>1, <1>6, LinedAppend
<1>7. [op |-> "ask"] \in Lines /\ [op |-> "ask"].op # "jog"
  BY DEF Lines
<1>8. wire' \in {wire, Append(wire, [op |-> "ask"]), Forgotten(wire)} /\ Lined(from, wire) =>
        Lined(from, wire') /\ Last(from, wire') = Last(from, wire)
  BY <1>1, <1>6, <1>7, LinedStays
<1>9. CASE TakeLine
  <2>1. UNCHANGED <<sess, loop, captured>> /\ wire' = Tail(wire) /\ wire # <<>>
    BY <1>9, TakeLineIs
  <2>2. ~mach.refused /\ end = IF wire[1].op = "jog" THEN LineEnd(from, wire[1]) ELSE from
    <3>1. CASE /\ wire[1].op = "jog" /\ NewMove \in Moves /\ ~mach.refused
               /\ mach'.pos = mach.pos /\ mach'.queue = Append(mach.queue, NewMove)
      BY <1>1, <3>1, EndOfIs DEF NewMove, from, end
    <3>2. CASE mach' = [mach EXCEPT !.refused = TRUE]
      BY <1>1, <3>2 DEF Machines
    <3>3. CASE wire[1].op # "jog" /\ UNCHANGED mach
      BY <1>3, <1>4, <3>3
    <3> QED BY <1>9, <3>1, <3>2, <3>3, TakeLineIs
  <2>3. end \in Points
    BY <1>9, TakeLineTyped, EndOfIs DEF end, Machines
  <2>4. Lined(end, wire') /\ Last(end, wire') = Last(from, wire)
    BY <1>1, <1>2, <1>5, <2>1, <2>2, <2>3, LinedTail
  <2> QED BY <1>2, <1>5, <2>1, <2>2, <2>4 DEF Intended
<1>10. CASE SendLine
  <2> DEFINE to == Head(loop.todo)
  <2> DEFINE l == jogCommand(loop.plan, to, moveDuration(axesDelta(loop.plan, to)))
  <2>1. wire' = Append(wire, l) /\ l \in Lines
    BY <1>10, SendLineTyped DEF Lines
  <2>2. l.op = "jog" /\ l.to = to /\ l.d = axesDelta(loop.plan, to)
    BY DEF jogCommand
  <2>3. /\ loop.at = "write" /\ loop'.at = "sent" /\ loop'.todo = loop.todo /\ UNCHANGED <<sess, mach>>
        /\ captured' = Nothing
    BY <1>1, <1>10 DEF SendLine, Loops
  <2>4. sess.armed /\ loop.plan = sess.planned
    BY <1>1, <2>3 DEF IdleInv
  <2>5. Lined(from, wire) /\ Last(from, wire) = loop.plan
    BY <1>2, <1>4, <1>5, <2>3, <2>4 DEF Intended
  <2> HIDE DEF l
  <2>6. Lined(from, wire') /\ Last(from, wire') = to
    BY <1>1, <2>1, <2>2, <2>5, LinedAppend
  <2> QED BY <1>3, <1>4, <2>3, <2>6
<1>11. CASE Returns
  <2>1. /\ loop.at = "sent" /\ sess'.planned = Head(loop.todo) /\ UNCHANGED <<mach, captured>> /\ loop'.at # "sent"
        /\ wire' \in {wire, Append(wire, [op |-> "ask"]), Forgotten(wire)}
    BY <1>11, DisarmedTyped DEF Returns, Asks
  <2>2. sess.armed
    BY <1>1, <2>1
  <2> QED BY <1>2, <1>3, <1>4, <1>5, <1>8, <2>1, <2>2 DEF Intended
<1>12. CASE Admit
  BY <1>12, AdmitIs, DisarmedTyped, <1>2, <1>3, <1>4, <1>5 DEF Intended
<1>13. CASE Arm
  <2>1. wire = <<>> /\ UNCHANGED <<wire, loop>> /\ loop.at = "loop" /\ State = "Idle" /\ captured' = Nothing
        /\ mach' = [mach EXCEPT !.refused = FALSE]
    BY <1>13 DEF Arm
  <2>2. end = mach.pos
    BY <1>1, <2>1, StateIs, EndOfIs DEF end, Machines
  <2>3. Lined(end, wire') /\ Last(end, wire') = end
    <3>1. Calm(wire)
      BY <2>1 DEF Calm
    <3> QED BY <1>1, <2>1, <2>2, <3>1, LinedStays
  <2> QED BY <1>13, <2>1, <2>2, <2>3, ArmTyped
<1>14. CASE Hears
  <2>1. /\ loop.at = "loop" /\ sess.armed /\ UNCHANGED <<wire, loop, captured>> /\ end = from
        /\ sess'.planned = IF sess.lead = 0 /\ query.state = "Idle" THEN query.pos ELSE sess.planned
        /\ mach'.refused <=> mach.refused /\ ~(sess.lead = 0 /\ query.state = "Idle")
    BY <1>3, <1>14 DEF Hears
  <2>2. CASE sess.lead = 0 /\ query.state = "Idle"
    <3>1. Resting(query.pos)
      <4>1. Here.delay < SegDur /\ Here.delay \in Nat /\ SegDur \in Nat
        BY SceneIs, TimeAssumption DEF Tracked, Sticks, Prompt
      <4>2. query.at = "answered" /\ query.old <= Here.delay /\ query.old \in Nat
        BY <1>14, PartsAre DEF Hears, BaseInv, LeaseInv
      <4>3. ~(sess.lead + query.old >= SegDur)
        BY <2>2, <4>1, <4>2
      <4> QED BY <2>1, <2>2, <4>2, <4>3 DEF IdleInv
    <3>2. Calm(wire) /\ from = query.pos
      BY <1>1, <3>1, EndOfIs DEF Resting, NoJogs, Calm, from
    <3>3. Lined(from, wire) /\ Last(from, wire) = query.pos
      BY <1>1, <3>2, LinedStays
    <3> QED BY <1>1, <1>2, <1>5, <2>1, <2>2, <3>3
  <2>3. CASE ~(sess.lead = 0 /\ query.state = "Idle")
    BY <1>2, <1>5, <2>1, <2>3 DEF Intended
  <2> QED BY <2>2, <2>3
<1>15. CASE LetsGo
  BY <1>15, DisarmedTyped, <1>2, <1>3, <1>4, <1>5, <1>8 DEF LetsGo, Release
<1>16. CASE Ticks
  BY <1>16, <1>2, <1>3, <1>4, <1>5, <1>8 DEF Ticks, Asks, Intended
<1>17. CASE SetOrigin
  <2> DEFINE zero == [op |-> "origin", seen |-> sess.st.pos]
  <2> DEFINE ask == [op |-> "ask"]
  <2>1. ask \in Lines /\ zero \in Lines /\ ask.op # "jog" /\ zero.op # "jog"
        /\ wire' \in {Append(wire, ask), Append(Append(wire, zero), ask)}
    BY <1>17, SetOriginTyped
  <2>2. UNCHANGED <<mach, sess, loop, captured>>
    BY <1>17 DEF SetOrigin
  <2> HIDE DEF zero, ask
  <2>3. Lined(from, wire)
    BY <1>2, <1>4, <1>5, <2>2
  <2>4. /\ Append(wire, zero) \in Seq(Lines) /\ Lined(from, Append(wire, zero))
        /\ Last(from, Append(wire, zero)) = Last(from, wire)
    BY <1>6, <2>1, <2>3
  <2>5. /\ Lined(from, Append(Append(wire, zero), ask))
        /\ Last(from, Append(Append(wire, zero), ask)) = Last(from, wire)
    BY <1>1, <2>1, <2>4, LinedAppend
  <2>6. Lined(from, Append(wire, ask)) /\ Last(from, Append(wire, ask)) = Last(from, wire)
    BY <1>6, <2>1, <2>3
  <2>7. Lined(from, wire') /\ Last(from, wire') = Last(from, wire)
    BY <2>1, <2>5, <2>6
  <2> QED BY <1>2, <1>3, <1>4, <1>5, <2>2, <2>7 DEF Intended
<1>18. CASE Quiet
  <2>1. /\ ~mach.refused /\ end = from /\ loop' = loop
        /\ sess'.armed = sess.armed /\ sess'.planned = sess.planned
        /\ wire' \in {wire, Append(wire, [op |-> "ask"]), Forgotten(wire)}
    BY <1>3, <1>18 DEF Quiet, SameSession, Asks
  <2>2. Untold => captured' = captured \/ (captured' = <<sess.planned>> /\ sess.armed /\ loop.at # "sent")
    BY <1>1, <1>18 DEF Quiet, AdmissionInFlight
  <2>3. <<sess.planned>>[1] = sess.planned
    OBVIOUS
  <2> QED BY <1>2, <1>5, <1>8, <2>1, <2>2, <2>3 DEF Intended
<1>19. ASSUME NEW stalls \in BOOLEAN, Pass(stalls) PROVE Goal
  BY <1>19, PassSays, PassEnds, <1>2, <1>5 DEF end, from, Intended
<1>20. ASSUME NEW why \in {"Hold", "Alarm"}, Stops(why) PROVE Goal
  BY <1>20, <1>1, <1>2, <1>3, <1>5 DEF Stops, Machines, SameMotion, Intended
<1>21. CASE Ends
  <2>1. /\ loop.at = "loop" /\ UNCHANGED <<wire, loop>> /\ end = from /\ ~Untold
    BY <1>1, <1>3, <1>21 DEF Ends
  <2>2. mach.queue = <<>> /\ mach.pos = sess'.planned /\ Calm(wire)
    BY <1>21 DEF Ends, Resting, NoJogs, Calm
  <2>3. from = sess'.planned
    BY <1>1, <2>2, EndOfIs DEF from
  <2>4. Lined(from, wire) /\ Last(from, wire) = sess'.planned
    BY <1>1, <2>2, <2>3, LinedStays
  <2> QED BY <2>1, <2>4
<1>22. CASE Starts
  BY <1>22, <1>2, <1>3, <1>4, <1>5 DEF Starts, Intended
<1> HIDE DEF Goal
<1> QED BY <1>9, <1>10, <1>11, <1>12, <1>13, <1>14, <1>15, <1>16, <1>17, <1>18, <1>19, <1>20, <1>21, <1>22, TrackedWays

-----------------------------------------------------------------------------
(* The way to a target.                                                     *)

LEMMA LineFromIs ==
    ASSUME NEW from \in Points, NEW l \in JogLines, l.d = axesDelta(from, l.to)
    PROVE  LineFrom(l) = from
<1>1. l.to \in Points /\ from = [a \in Axes |-> from[a]]
  BY DEF JogLines, Points
<1>2. ASSUME NEW a \in Axes PROVE l.to[a] - l.d[a] = from[a]
  BY <1>1, PointsAre DEF axesDelta
<1>3. LineFrom(l) = [a \in Axes |-> from[a]]
  BY <1>2 DEF LineFrom
<1> QED BY <1>1, <1>3

\* With no target on the way any leg fits that crosses well.
LEMMA FitsNone ==
    /\ \A aim, from, to : Fits(aim, from, to) => Fits(<<>>, from, to)
    /\ ~Careful => \A from, to : Fits(<<>>, from, to)
  BY DEF Fits

LEMMA AimForgotten ==
    ASSUME NEW aim
    PROVE  /\ \A pos, queue : MovesFit(aim, pos, queue) => MovesFit(<<>>, pos, queue)
           /\ \A lines : LinesFit(aim, lines) => LinesFit(<<>>, lines)
           /\ \A plan, todo : LegsFit(aim, plan, todo) => LegsFit(<<>>, plan, todo)
<1>1. \A from, to : Fits(aim, from, to) => Fits(<<>>, from, to)
  BY FitsNone
<1> QED BY <1>1 DEF MovesFit, LinesFit, LegsFit

LEMMA FitsStay ==
    ASSUME [Next]_vars
    PROVE  /\ \A aim, pos, queue : MovesFit(aim, pos, queue)' <=> MovesFit(aim, pos, queue)
           /\ \A aim, lines : LinesFit(aim, lines)' <=> LinesFit(aim, lines)
           /\ \A aim, plan, todo : LegsFit(aim, plan, todo)' <=> LegsFit(aim, plan, todo)
<1>1. \A from, to : Crosses(from, to)' <=> Crosses(from, to)
  BY DEF Crosses
<1>2. \A point, from, to : Nears(point, from, to)' <=> Nears(point, from, to)
  BY DEF Nears
<1>3. \A aim, from, to : Fits(aim, from, to)' <=> Fits(aim, from, to)
  BY <1>1, <1>2, SceneSays DEF Fits
<1>4. \A aim, pos, queue : MovesFit(aim, pos, queue)' <=> MovesFit(aim, pos, queue)
  BY <1>3 DEF MovesFit, MoveFrom
<1>5. \A aim, lines : LinesFit(aim, lines)' <=> LinesFit(aim, lines)
  BY <1>3 DEF LinesFit, LineFrom
<1>6. \A aim, plan, todo : LegsFit(aim, plan, todo)' <=> LegsFit(aim, plan, todo)
  BY <1>3 DEF LegsFit, LegFrom
<1> QED BY <1>4, <1>5, <1>6

\* A move more, a move less, and a part of a move less
LEMMA MovesFitMore ==
    ASSUME NEW aim, NEW pos \in Points, NEW q \in Seq(Moves), NEW m \in Moves,
           MovesFit(aim, pos, q), Fits(aim, EndOf(pos, q), m.to)
    PROVE  MovesFit(aim, pos, Append(q, m))
<1> DEFINE a == Append(q, m)
<1>1. /\ a \in Seq(Moves) /\ Len(q) \in Nat /\ DOMAIN q = 1 .. Len(q) /\ DOMAIN a = 1 .. Len(q) + 1
      /\ \A i \in 1 .. Len(q) : a[i] = q[i]
      /\ a[Len(q) + 1] = m
  BY AppendProperties, LenProperties
<1> HIDE DEF a
<1>2. ASSUME NEW i \in 1 .. Len(q) PROVE Fits(aim, MoveFrom(pos, a, i), a[i].to)
  <2>1. i = 1 \/ i - 1 \in 1 .. Len(q)
    BY <1>1
  <2>2. MoveFrom(pos, a, i) = MoveFrom(pos, q, i)
    BY <1>1, <2>1 DEF MoveFrom
  <2> QED BY <1>1, <2>2 DEF MovesFit
<1>3. Fits(aim, MoveFrom(pos, a, Len(q) + 1), a[Len(q) + 1].to)
  <2>1. CASE q = <<>>
    BY <2>1, <1>1 DEF MoveFrom, EndOf
  <2>2. CASE q # <<>>
    BY <1>1, <2>2, EmptySeq DEF MoveFrom, EndOf
  <2> QED BY <2>1, <2>2
<1>4. \A i \in 1 .. Len(q) + 1 : i \in 1 .. Len(q) \/ i = Len(q) + 1
  BY <1>1
<1>5. MovesFit(aim, pos, a)
  BY <1>1, <1>2, <1>3, <1>4 DEF MovesFit
<1> QED BY <1>5 DEF a

LEMMA MovesFitLess ==
    ASSUME NEW aim, NEW pos \in Points, NEW q \in Seq(Moves), q # <<>>, MovesFit(aim, pos, q)
    PROVE  /\ MovesFit(aim, q[1].to, Tail(q))
           /\ q[1].left > 0 => MovesFit(aim, pos, [q EXCEPT ![1] = Worked(@)])
<1>1. Len(q) \in Nat \ {0} /\ DOMAIN q = 1 .. Len(q) /\ 1 \in DOMAIN q /\ q[1] \in Moves
  BY EmptySeq, LenProperties, ElementOfSeq
<1>2. MovesFit(aim, q[1].to, Tail(q))
  <2>1. DOMAIN Tail(q) = 1 .. Len(q) - 1 /\ \A i \in 1 .. Len(q) - 1 : Tail(q)[i] = q[i + 1]
    BY HeadTailProperties, LenProperties
  <2>2. ASSUME NEW i \in 1 .. Len(q) - 1
        PROVE  MoveFrom(q[1].to, Tail(q), i) = MoveFrom(pos, q, i + 1) /\ i + 1 \in 1 .. Len(q)
    <3>1. i + 1 \in 1 .. Len(q) /\ i + 1 # 1 /\ (i + 1) - 1 = i
      BY <1>1
    <3>2. CASE i = 1
      BY <3>1, <3>2 DEF MoveFrom
    <3>3. CASE i # 1
      BY <1>1, <3>3, <2>1, <3>1 DEF MoveFrom
    <3> QED BY <3>1, <3>2, <3>3
  <2> QED BY <1>1, <2>1, <2>2 DEF MovesFit
<1>3. ASSUME q[1].left > 0 PROVE MovesFit(aim, pos, [q EXCEPT ![1] = Worked(@)])
  <2> DEFINE w == [q EXCEPT ![1] = Worked(@)]
  <2>1. DOMAIN w = 1 .. Len(q) /\ \A i \in 1 .. Len(q) : w[i].to = q[i].to
    BY <1>1, <1>3, WorkedIs
  <2> HIDE DEF w
  <2>2. ASSUME NEW i \in 1 .. Len(q) PROVE MoveFrom(pos, w, i) = MoveFrom(pos, q, i)
    BY <1>1, <2>1 DEF MoveFrom
  <2>3. MovesFit(aim, pos, w)
    BY <1>1, <2>1, <2>2 DEF MovesFit
  <2> QED BY <2>3 DEF w
<1> QED BY <1>2, <1>3

\* A line more, and the others that a step leaves
LEMMA LinesFitMore ==
    ASSUME NEW aim, NEW lines \in Seq(Lines), LinesFit(aim, lines)
    PROVE  /\ \A l \in Lines : (l.op = "jog" => Fits(aim, LineFrom(l), l.to)) => LinesFit(aim, Append(lines, l))
           /\ LinesFit(aim, Forgotten(lines))
<1>1. ASSUME NEW l \in Lines, l.op = "jog" => Fits(aim, LineFrom(l), l.to)
      PROVE  LinesFit(aim, Append(lines, l))
  <2> DEFINE a == Append(lines, l)
  <2>1. /\ DOMAIN a = 1 .. Len(lines) + 1 /\ DOMAIN lines = 1 .. Len(lines) /\ Len(lines) \in Nat
        /\ \A i \in 1 .. Len(lines) : a[i] = lines[i]
        /\ a[Len(lines) + 1] = l
        /\ \A i \in 1 .. Len(lines) + 1 : i \in 1 .. Len(lines) \/ i = Len(lines) + 1
    BY AppendIs
  <2> HIDE DEF a
  <2>2. LinesFit(aim, a)
    BY <1>1, <2>1 DEF LinesFit
  <2> QED BY <2>2 DEF a
<1>2. LinesFit(aim, Forgotten(lines))
  BY ForgottenIs DEF LinesFit
<1> QED BY <1>1, <1>2

LEMMA LegsFitLess ==
    ASSUME NEW aim, NEW plan, NEW todo \in Seq(Points), todo # <<>>, LegsFit(aim, plan, todo)
    PROVE  Fits(aim, plan, Head(todo)) /\ LegsFit(aim, Head(todo), Tail(todo))
<1>1. /\ Len(todo) \in Nat \ {0} /\ DOMAIN todo = 1 .. Len(todo) /\ Head(todo) = todo[1]
      /\ DOMAIN Tail(todo) = 1 .. Len(todo) - 1 /\ \A i \in 1 .. Len(todo) - 1 : Tail(todo)[i] = todo[i + 1]
  BY EmptySeq, LenProperties, HeadTailProperties
<1>2. Fits(aim, plan, Head(todo))
  <2>1. 1 \in DOMAIN todo
    BY <1>1
  <2> QED BY <1>1, <2>1 DEF LegsFit, LegFrom
<1>3. ASSUME NEW i \in 1 .. Len(todo) - 1
      PROVE  LegFrom(Head(todo), Tail(todo), i) = LegFrom(plan, todo, i + 1) /\ i + 1 \in 1 .. Len(todo)
  <2>1. i + 1 \in 1 .. Len(todo) /\ i + 1 # 1 /\ (i + 1) - 1 = i
    BY <1>1
  <2>2. CASE i = 1
    BY <1>1, <2>1, <2>2 DEF LegFrom
  <2>3. CASE i # 1
    BY <1>1, <2>3, <2>1 DEF LegFrom
  <2> QED BY <2>1, <2>2, <2>3
<1> QED BY <1>1, <1>2, <1>3 DEF LegsFit

PathParts ==
    /\ MovesFit(Aim, mach.pos, mach.queue)
    /\ LinesFit(Aim, wire)
    /\ Writing => LegsFit(Aim, loop.plan, loop.todo)

\* What a step makes of the point a target leads to
LEMMA AimWays ==
    ASSUME TypeOK, BaseInv, IdleInv, CommandInv, PendingInv, Tracked, [Next]_vars
    PROVE  Aim' \in {Aim, <<>>} \/ (Starts /\ loop'.kind = "target")
<1>1. /\ loop \in Loops /\ (loop.at # "loop" => sess.pending = Nothing)
      /\ (loop.at = "admit" => loop.kind = "tick")
  BY DEF TypeOK, CommandInv, QueryInv
<1>2. UNCHANGED <<sess, loop>> => Aim' = Aim
  BY DEF Aim, Writing
<1>3. SameSession /\ loop' = loop => Aim' = Aim
  BY DEF Aim, Writing, SameSession
<1>4. sess'.pending = Nothing /\ (loop'.at \in {"loop", "admit"} \/ loop'.kind # "target") => Aim' = <<>>
  BY DEF Aim, Writing
<1>5. CASE TakeLine \/ SetOrigin
  BY <1>2, <1>5 DEF TakeLine, SetOrigin
<1>6. CASE SendLine
  BY <1>1, <1>6 DEF SendLine, Loops, Aim, Writing
<1>7. CASE Returns
  <2>1. loop.at = "sent" /\ sess.pending = Nothing
    BY <1>1, <1>7 DEF Returns
  <2>2. CASE /\ sess'.pending = sess.pending
             /\ \/ loop' = AtLoop
                \/ loop'.at = "admit"
    BY <1>4, <2>1, <2>2, DisarmedTyped
  <2>3. CASE /\ sess'.pending = sess.pending
             /\ loop'.at = "write" /\ loop'.todo = Tail(loop.todo)
             /\ Tail(loop.todo) # <<>> /\ loop'.kind = loop.kind
    BY <2>1, <2>3, TodoIs DEF Writing, Aim
  <2>4. CASE /\ loop.kind = "target" /\ Tail(loop.todo) = <<>>
             /\ sess'.pending # Nothing /\ sess'.pending[1].target = Head(loop.todo)
    BY <2>1, <2>4, TodoIs DEF Writing, Aim
  <2> QED BY <1>7, <2>2, <2>3, <2>4 DEF Returns
<1>8. CASE Admit
  BY <1>1, <1>8, DisarmedTyped, AdmitIs, <1>4 DEF Admit, Loops
<1>9. CASE Arm \/ LetsGo
  BY <1>9, ArmTyped, DisarmedTyped, <1>4 DEF Arm, LetsGo, Release
<1>10. CASE Hears
  BY <1>10 DEF Hears, Aim, Writing
<1>11. CASE Ends
  BY <1>4, <1>11 DEF Ends
<1>12. CASE Ticks
  BY <1>4, <1>12 DEF Ticks
<1>13. CASE Starts
  BY <1>13, <1>4 DEF Starts
<1>14. CASE Quiet
  BY <1>3, <1>14 DEF Quiet
<1>15. ASSUME NEW stalls \in BOOLEAN, Pass(stalls) PROVE Aim' = Aim
  BY <1>15, PassSays, PassAwaits DEF Aim, Writing
<1>16. ASSUME NEW why \in {"Hold", "Alarm"}, Stops(why) PROVE Aim' = Aim
  BY <1>2, <1>16 DEF Stops
<1> QED BY <1>5, <1>6, <1>7, <1>8, <1>9, <1>10, <1>11, <1>12, <1>13, <1>14, <1>15, <1>16, TrackedWays

\* What is queued, what is written and what is still to be written stays on the way.
LEMMA PathKept ==
    ASSUME TypeOK, BaseInv, IdleInv, LineInv, CommandInv, PromptInv, PathInv, PendingInv, [Next]_vars
    PROVE  PathInv'
<1> SUFFICES ASSUME Tracked PROVE PathParts'
  BY SceneSays DEF PathInv, PathParts
<1>1. PathParts
  BY DEF PathInv, PathParts
<1>2. /\ mach \in Machines /\ wire \in Seq(Lines) /\ loop \in Loops /\ sess \in Sessions
      /\ mach.pos \in Points /\ mach.queue \in Seq(Moves) /\ loop.plan \in Points
      /\ (Writing => loop.todo \in Seq(Points) /\ loop.todo # <<>>)
  BY PartsAre DEF TypeOK, BaseInv, LeaseInv
<1> DEFINE M(aim) == MovesFit(aim, mach'.pos, mach'.queue)
<1> DEFINE L(aim) == LinesFit(aim, wire')
<1> DEFINE T(aim) == LegsFit(aim, loop'.plan, loop'.todo)
<1>3. (M(Aim') /\ L(Aim') /\ (Writing' => T(Aim'))) => PathParts'
  BY FitsStay DEF PathParts
<1>4. (M(Aim) => M(<<>>)) /\ (L(Aim) => L(<<>>)) /\ (T(Aim) => T(<<>>))
  BY AimForgotten
<1>5. SameMotion => M(Aim)
  BY <1>1 DEF PathParts, SameMotion
<1>6. UNCHANGED loop => (Writing' => T(Aim))
  BY <1>1 DEF PathParts, Writing
<1>7. /\ wire' = wire => L(Aim)
      /\ wire' = Append(wire, [op |-> "ask"]) => L(Aim)
      /\ wire' = Forgotten(wire) => L(Aim)
  <2> DEFINE ask == [op |-> "ask"]
  <2>1. ask \in Lines /\ ask.op # "jog"
    BY DEF Lines
  <2> HIDE DEF ask
  <2>2. LinesFit(Aim, wire)
    BY <1>1 DEF PathParts
  <2>3. LinesFit(Aim, Append(wire, ask)) /\ LinesFit(Aim, Forgotten(wire))
    BY <1>2, <2>1, <2>2, LinesFitMore
  <2> QED BY <2>2, <2>3 DEF ask
<1>8. ASSUME M(Aim), L(Aim), Writing' => T(Aim), Aim' \in {Aim, <<>>} PROVE PathParts'
  <2> HIDE DEF M, L, T
  <2> QED BY <1>3, <1>4, <1>8
<1>9. ~(Starts /\ loop'.kind = "target") => Aim' \in {Aim, <<>>}
  BY AimWays
<1>10. mach' = mach => SameMotion
  BY DEF SameMotion
<1> HIDE DEF M, L, T
<1>11. CASE TakeLine
  <2>1. UNCHANGED <<sess, loop>> /\ ~Starts
    BY <1>11, TakeLineIs DEF Starts
  <2>2. L(Aim)
    BY <1>11, TakeLineIs, <1>1 DEF PathParts, LinesFit, L
  <2>3. M(Aim)
    <3>1. CASE /\ ~mach.refused /\ wire[1] \in JogLines /\ NewMove \in Moves
               /\ mach'.pos = mach.pos /\ mach'.queue = Append(mach.queue, NewMove)
      <4>1. wire # <<>> /\ wire[1].op = "jog" /\ 1 \in DOMAIN wire
        BY <1>11, <3>1, TakeLineIs DEF JogLines
      <4>2. EndOf(mach.pos, mach.queue) \in Points
        BY PartsAre
      <4>3. QueueEnds[0] = EndOf(mach.pos, mach.queue)
        BY <1>2, <4>2, EndsDefined DEF QueueEnds
      <4>4. wire[1].d = axesDelta(QueueEnds[1 - 1], wire[1].to)
        BY <3>1, <4>1 DEF LineInv
      <4>5. LineFrom(wire[1]) = EndOf(mach.pos, mach.queue)
        BY <3>1, <4>2, <4>3, <4>4, LineFromIs
      <4>6. NewMove.to = wire[1].to
        BY <3>1, <4>1, NewMoveIs
      <4>7. Fits(Aim, EndOf(mach.pos, mach.queue), NewMove.to)
        BY <1>1, <4>1, <4>5, <4>6 DEF PathParts, LinesFit
      <4>8. MovesFit(Aim, mach.pos, mach.queue)
        BY <1>1 DEF PathParts
      <4> QED BY <1>2, <3>1, <4>7, <4>8, MovesFitMore DEF M
    <3>2. CASE mach' = [mach EXCEPT !.refused = TRUE] \/ mach' = mach
      BY <1>2, <1>5, <3>2 DEF SameMotion, Machines
    <3> QED BY <1>11, <3>1, <3>2, TakeLineIs
  <2> QED BY <1>6, <1>8, <1>9, <2>1, <2>2, <2>3
<1>12. CASE SendLine
  <2> DEFINE l == jogCommand(loop.plan, Head(loop.todo), moveDuration(axesDelta(loop.plan, Head(loop.todo))))
  <2>1. /\ loop.at = "write" /\ loop'.at = "sent" /\ loop'.plan = loop.plan /\ loop'.todo = loop.todo
        /\ UNCHANGED <<mach, sess>> /\ ~Starts
    BY <1>2, <1>12 DEF SendLine, Loops, Starts
  <2>2. l \in JogLines /\ l \in Lines /\ wire' = Append(wire, l) /\ l.to = Head(loop.todo)
        /\ l.d = axesDelta(loop.plan, l.to)
    BY <1>12, SendLineTyped DEF Lines, jogCommand
  <2> HIDE DEF l
  <2>3. LineFrom(l) = loop.plan
    BY <1>2, <2>2, LineFromIs
  <2>4. Fits(Aim, loop.plan, Head(loop.todo)) /\ T(Aim)
    BY <1>1, <1>2, <2>1, LegsFitLess DEF PathParts, Writing, T
  <2>5. L(Aim)
    BY <1>1, <1>2, <2>2, <2>3, <2>4, LinesFitMore DEF PathParts, L
  <2> QED BY <1>5, <1>8, <1>9, <1>10, <2>1, <2>4, <2>5
<1>13. CASE Returns
  <2>1. loop.at = "sent" /\ UNCHANGED mach /\ ~Starts
    BY <1>13 DEF Returns, Starts
  <2>2. L(Aim)
    BY <1>7, <1>13 DEF Returns, Asks
  <2>3. Writing' => T(Aim)
    BY <1>13, DisarmedTyped, <1>1, <1>2, <2>1, LegsFitLess DEF Returns, Writing, PathParts, T
  <2> QED BY <1>5, <1>8, <1>9, <1>10, <2>1, <2>2, <2>3
<1>14. CASE Admit
  <2>1. /\ loop.at = "admit" /\ UNCHANGED <<mach, wire, sess>> /\ ~Starts
        /\ loop'.at = "loop" \/ loop'.kind = loop.kind
    BY <1>2, <1>14, AdmitIs, DisarmedTyped DEF Admit, Loops, Starts
  <2>2. loop.kind = "tick" /\ sess.pending = Nothing /\ ~Careful
    BY <2>1 DEF CommandInv, QueryInv, SceneInv
  <2>3. Aim = <<>> /\ T(<<>>)
    BY <2>1, <2>2, FitsNone DEF Aim, Writing, LegsFit, T
  <2> QED BY <1>5, <1>7, <1>8, <1>9, <1>10, <2>1, <2>3
<1>15. CASE Arm \/ LetsGo
  <2>1. loop'.at = "loop" /\ SameMotion
    BY <1>2, <1>15, DisarmedTyped DEF Arm, LetsGo, Release, SameMotion, Machines
  <2>2. L(Aim)
    BY <1>7, <1>15 DEF Arm, LetsGo, Release
  <2> QED BY <1>5, <1>8, <1>9, <2>1, <2>2 DEF Writing, Starts
<1>16. CASE Hears \/ Ends
  BY <1>16, <1>5, <1>6, <1>7, <1>8, <1>9 DEF Hears, Ends, Starts
<1>17. CASE Ticks
  BY <1>7, <1>17, <1>5, <1>8, <1>9, <1>10 DEF Ticks, Asks, Writing, Starts
<1>18. CASE Starts
  <2>1. /\ sess.armed /\ loop.at = "loop" /\ sess.pending = Nothing /\ (Here.steps \/ Here.targets)
        /\ UNCHANGED <<mach, wire, query, sess>>
    BY <1>18 DEF Starts
  <2>2. CASE loop'.kind = "step" /\ Here.steps
    <3>1. ~Careful /\ T(<<>>)
      BY <2>2, FitsNone DEF Careful, LegsFit, T
    <3>2. Aim = <<>>
      BY <2>1 DEF Aim, Writing
    <3> QED BY <1>5, <1>7, <1>8, <1>9, <1>10, <2>1, <2>2, <3>1, <3>2
  <2>3. CASE loop'.kind = "target" /\ sess.after /\ Legged(loop'.plan, loop'.todo)
    <3>1. sess.st.state = "Idle"
      BY <2>1, <2>3 DEF Tracked, Sticks, PromptInv
    <3>2. Resting(sess.st.pos)
      BY <2>1, <2>3, <3>1 DEF IdleInv
    <3>3. M(Aim') /\ L(Aim')
      BY <2>1, <3>2 DEF Resting, NoJogs, M, L, MovesFit, LinesFit
    <3>4. loop'.at = "write" /\ Aim' = <<loop'.todo[Len(loop'.todo)]>>
      BY <1>18, <2>1, <2>3 DEF Aim, Writing, Starts
    <3>5. T(Aim')
      BY <3>4, <2>3 DEF T, LegsFit, Legged, Fits, Careful
    <3> QED BY <1>3, <3>3, <3>5
  <2> QED BY <1>18, <2>2, <2>3 DEF Starts
<1>19. CASE SetOrigin
  <2> DEFINE zero == [op |-> "origin", seen |-> sess.st.pos]
  <2> DEFINE ask == [op |-> "ask"]
  <2>1. ask \in Lines /\ zero \in Lines /\ ask.op # "jog" /\ zero.op # "jog"
        /\ wire' \in {Append(wire, ask), Append(Append(wire, zero), ask)}
    BY <1>19, SetOriginTyped
  <2> HIDE DEF zero, ask
  <2>2. LinesFit(Aim, Append(wire, ask)) /\ LinesFit(Aim, Append(wire, zero)) /\ Append(wire, zero) \in Seq(Lines)
    BY <1>1, <1>2, <2>1, LinesFitMore, AppendIs DEF PathParts
  <2>3. LinesFit(Aim, Append(Append(wire, zero), ask))
    BY <2>1, <2>2, LinesFitMore
  <2>4. L(Aim)
    BY <2>1, <2>2, <2>3 DEF L
  <2>5. UNCHANGED <<mach, sess, loop>> /\ ~Starts
    BY <1>19 DEF SetOrigin, Commanded, Starts
  <2> QED BY <1>5, <1>6, <1>8, <1>9, <1>10, <2>4, <2>5
<1>20. CASE Quiet
  BY <1>7, <1>20, <1>5, <1>6, <1>8, <1>9 DEF Quiet, Asks, Starts
<1>21. ASSUME NEW stalls \in BOOLEAN, Pass(stalls) PROVE PathParts'
  <2>1. UNCHANGED <<wire, loop>> /\ (mach' = mach \/ mach' = Executes)
    BY <1>21, PassSays
  <2>2. M(Aim)
    <3> DEFINE q == mach.queue
    <3>1. q \in Seq(Moves) /\ MovesFit(Aim, mach.pos, q)
      BY <1>1, <1>2 DEF PathParts
    <3>2. CASE mach' = mach
      BY <1>5, <1>10, <3>2
    <3>3. CASE q # <<>> /\ q[1].left > 1 /\ mach'.pos = mach.pos /\ mach'.queue = [q EXCEPT ![1] = Worked(@)]
      <4>1. q[1].left > 0
        BY <3>3, QueueGoes
      <4> HIDE DEF q
      <4> QED BY <1>2, <3>1, <3>3, <4>1, MovesFitLess DEF M
    <3>4. CASE q # <<>> /\ mach'.pos = q[1].to /\ mach'.queue = Tail(q)
      <4> HIDE DEF q
      <4> QED BY <1>2, <3>1, <3>4, MovesFitLess DEF M
    <3> QED BY <2>1, <3>2, <3>3, <3>4, ExecutesIs
  <2>3. ~Starts
    BY <2>1 DEF Starts
  <2> QED BY <1>6, <1>7, <1>8, <1>9, <2>1, <2>2, <2>3
<1>22. ASSUME NEW why \in {"Hold", "Alarm"}, Stops(why) PROVE PathParts'
  <2>1. UNCHANGED <<wire, sess, loop>> /\ ~Starts
    BY <1>22 DEF Stops, Starts
  <2>2. M(Aim)
    <3>1. /\ mach'.queue = (IF why = "Alarm" THEN <<>> ELSE mach.queue)
          /\ mach'.pos = (IF why = "Alarm" THEN Position ELSE mach.pos)
      BY <1>2, <1>22 DEF Stops, Machines
    <3>2. CASE why = "Alarm"
      BY <3>1, <3>2 DEF M, MovesFit
    <3>3. CASE why # "Alarm"
      BY <1>5, <3>1, <3>3 DEF SameMotion
    <3> QED BY <3>2, <3>3
  <2> QED BY <1>6, <1>7, <1>8, <1>9, <2>1, <2>2
<1> QED BY <1>11, <1>12, <1>13, <1>14, <1>15, <1>16, <1>17, <1>18, <1>19, <1>20, <1>21, <1>22, TrackedWays

-----------------------------------------------------------------------------
(* How a target ends.                                                       *)

\* A part of a way that is not the whole way
LEMMA PartBelow ==
    ASSUME NEW A \in Nat \ {0}, NEW B \in Nat, NEW D \in Nat \ {0}, B < D
    PROVE  (A * B) \div D \in 0 .. A - 1
<1> DEFINE q == (A * B) \div D
<1>1. q \in 0 .. A
  BY PartOf
<1>2. D * q <= A * B
  OBVIOUS
<1> HIDE DEF q
<1>3. q # A
  <2> SUFFICES ASSUME q = A PROVE FALSE
    OBVIOUS
  <2>1. A * D <= A * B
    BY <1>2
  <2>2. B + 1 <= D
    OBVIOUS
  <2>3. A * (B + 1) <= A * D
    BY <2>2
  <2>4. A * (B + 1) = A * B + A
    OBVIOUS
  <2>5. A * B \in Nat /\ A * D \in Nat
    OBVIOUS
  <2> QED BY <2>1, <2>3, <2>4, <2>5
<1>4. q \in 0 .. A - 1
  BY <1>1, <1>3
<1> QED BY <1>4 DEF q

\* On its way to a target the machine is not yet there.
LEMMA OnTheWay ==
    ASSUME TypeOK, BaseInv, mach.queue # <<>>, NEW point \in Points,
           Nears(point, mach.pos, mach.queue[1].to)
    PROVE  Position # point
<1> DEFINE m == Head(mach.queue)
<1>1. m \in Moves /\ m = mach.queue[1] /\ m.dur \in Nat \ {0} /\ m.left \in 1 .. m.dur
      /\ m.to \in Points /\ mach.pos \in Points
  BY QueueGoes, PartsAre DEF Moves
<1> DEFINE way(a) == m.to[a] - mach.pos[a]
<1> DEFINE part(a) == (Abs(way(a)) * (m.dur - m.left)) \div m.dur
<1>2. Position = [a \in Axes |-> mach.pos[a] + Sign(way(a)) * part(a)]
  BY DEF Position
<1>3. PICK a \in Axes : mach.pos[a] # point[a] /\ m.to[a] \in {mach.pos[a], point[a]}
  BY <1>1 DEF Nears
<1> HIDE DEF m
<1>4. mach.pos[a] \in Int /\ m.to[a] \in Int /\ point[a] \in Int /\ way(a) = m.to[a] - mach.pos[a]
  BY <1>1, PointsAre
<1>5. Position[a] = mach.pos[a] + Sign(way(a)) * part(a)
  BY <1>2
<1>6. way(a) \in Int /\ Abs(way(a)) \in Nat /\ m.dur - m.left \in Nat /\ m.dur - m.left < m.dur
  BY <1>1, <1>4 DEF Abs
<1> HIDE DEF way
<1>7. CASE m.to[a] = mach.pos[a]
  <2>1. way(a) = 0 /\ Abs(way(a)) = 0
    BY <1>4, <1>7 DEF Abs
  <2>2. part(a) \in 0 .. 0
    BY <1>1, <1>6, <2>1, PartOf
  <2> HIDE DEF part
  <2>3. part(a) = 0 /\ Sign(way(a)) \in Int
    BY <2>2 DEF Sign
  <2> QED BY <1>3, <1>4, <1>5, <2>3
<1>8. CASE m.to[a] = point[a]
  <2>1. way(a) # 0 /\ Abs(way(a)) \in Nat \ {0}
    BY <1>3, <1>4, <1>6, <1>8 DEF Abs
  <2>2. part(a) \in 0 .. Abs(way(a)) - 1
    BY <1>1, <1>6, <2>1, PartBelow
  <2> HIDE DEF part
  <2>3. Sign(way(a)) * part(a) = IF way(a) < 0 THEN 0 - part(a) ELSE part(a)
    BY <1>6, <2>1, <2>2 DEF Sign
  <2>4. Position[a] # m.to[a]
    BY <1>4, <1>5, <1>6, <2>1, <2>2, <2>3 DEF Abs
  <2> QED BY <1>8, <2>4
<1> QED BY <1>3, <1>7, <1>8

\* No line that moves the machine follows a query.
AskedLast(lines) ==
    \A i \in DOMAIN lines : lines[i].op = "ask" => \A j \in i + 1 .. Len(lines) : lines[j].op # "jog"

LEMMA AskedLastIs ==
    ASSUME NEW lines \in Seq(Lines)
    PROVE  /\ AskedLast(lines) \/ Unasked(lines) => AskedLast(Append(lines, [op |-> "ask"]))
           /\ AskedLast(Forgotten(lines))
           /\ AskedLast(lines) /\ lines # <<>> => AskedLast(Tail(lines))
           /\ AskedLast(lines) /\ lines # <<>> /\ lines[1].op = "ask" => Calm(Tail(lines))
<1> DEFINE n == Len(lines)
<1>0. DOMAIN lines = 1 .. n /\ n \in Nat
  BY LenProperties
<1>1. ASSUME AskedLast(lines) \/ Unasked(lines) PROVE AskedLast(Append(lines, [op |-> "ask"]))
  <2> DEFINE a == Append(lines, [op |-> "ask"])
  <2>1. [op |-> "ask"] \in Lines
    BY DEF Lines
  <2>2. /\ Len(a) = n + 1 /\ DOMAIN a = 1 .. n + 1
        /\ \A i \in 1 .. n : a[i] = lines[i]
        /\ a[n + 1] = [op |-> "ask"]
        /\ \A i \in 1 .. n + 1 : i \in 1 .. n \/ i = n + 1
    BY <2>1, AppendIs
  <2>3. a[n + 1].op = "ask"
    BY <2>2
  <2> HIDE DEF a, n
  <2>4. ASSUME NEW i \in 1 .. n, a[i].op = "ask", NEW j \in i + 1 .. n + 1 PROVE a[j].op # "jog"
    <3>1. AskedLast(lines) /\ i \in DOMAIN lines
      BY <1>0, <1>1, <2>2, <2>4 DEF Unasked
    <3>2. j \in i + 1 .. n \/ j = n + 1
      BY <1>0, <2>4
    <3>3. CASE j \in i + 1 .. n
      BY <1>0, <3>3, <2>2, <2>4, <3>1 DEF AskedLast, n
    <3> QED BY <2>3, <3>2, <3>3
  <2>5. (n + 1) + 1 .. n + 1 = {}
    BY <1>0
  <2>6. AskedLast(a)
    BY <2>2, <2>4, <2>5 DEF AskedLast
  <2> QED BY <2>6 DEF a
<1>2. AskedLast(Forgotten(lines))
  BY ForgottenIs DEF AskedLast
<1>3. ASSUME AskedLast(lines), lines # <<>>
      PROVE  AskedLast(Tail(lines)) /\ (lines[1].op = "ask" => Calm(Tail(lines)))
  <2> DEFINE t == Tail(lines)
  <2>1. Len(t) = n - 1 /\ DOMAIN t = 1 .. n - 1 /\ \A i \in 1 .. n - 1 : t[i] = lines[i + 1]
    BY <1>3, HeadTailProperties, LenProperties
  <2> HIDE DEF t, n
  <2>2. ASSUME NEW i \in 1 .. n - 1, t[i].op = "ask", NEW j \in i + 1 .. n - 1 PROVE t[j].op # "jog"
    BY <1>0, <2>2, <1>3, <2>1 DEF AskedLast, n
  <2>3. ASSUME lines[1].op = "ask", NEW j \in 1 .. n - 1 PROVE t[j].op # "jog"
    BY <1>0, <2>3, <1>3, <2>1 DEF AskedLast, n
  <2>4. AskedLast(t) /\ (lines[1].op = "ask" => Calm(t))
    BY <2>1, <2>2, <2>3 DEF AskedLast, Calm
  <2> QED BY <2>4 DEF t
<1> QED BY <1>1, <1>2, <1>3

\* PendingInv while a target is pending
PendingParts ==
    /\ AskedLast(wire)
    /\ query.at = "answered" =>
         /\ Calm(wire)
         /\ query.state = "Idle" => Resting(query.pos)
         /\ query.pos = sess.pending[1].target => Resting(query.pos) /\ query.state # "Run"
    /\ sess.after => sess.st.pos # sess.pending[1].target

\* The answer after a target tells where the machine has come to rest.
LEMMA PendingKept ==
    ASSUME TypeOK, BaseInv, IdleInv, CommandInv, PathInv, PendingInv, [Next]_vars
    PROVE  PendingInv'
<1> SUFFICES ASSUME Tracked, sess'.pending # Nothing PROVE PendingParts'
  BY SceneSays DEF PendingInv, PendingParts, AskedLast, NoJogs, Calm
<1>1. sess.pending # Nothing => PendingParts /\ loop.at = "loop"
  BY DEF PendingInv, PendingParts, AskedLast, NoJogs, Calm, CommandInv, QueryInv
<1>2. /\ mach \in Machines /\ wire \in Seq(Lines) /\ sess \in Sessions
      /\ (query.at # "asked" => Unasked(wire))
  BY DEF TypeOK, CommandInv, QueryInv, NoAsks, Unasked
<1>3. mach' = mach => SameMotion
  BY DEF SameMotion
<1>4. CASE TakeLine
  <2>1. UNCHANGED <<sess, loop>> /\ wire # <<>> /\ wire' = Tail(wire) /\ 1 \in DOMAIN wire
        /\ \A i \in DOMAIN wire' : wire'[i] = wire[i + 1] /\ i + 1 \in DOMAIN wire
    BY <1>4, TakeLineIs
  <2>2. PendingParts /\ sess.pending # Nothing
    BY <1>1, <2>1
  <2>3. AskedLast(wire') /\ (Calm(wire) => Calm(wire'))
    BY <1>2, <2>1, <2>2, AskedLastIs DEF PendingParts, Calm
  <2>4. CASE wire[1].op = "jog" /\ UNCHANGED query
    BY <2>1, <2>4, <2>2, <2>3 DEF Calm, PendingParts
  <2>5. CASE UNCHANGED <<mach, query>>
    BY <1>3, <2>3, <2>5, RestingStays, <2>1, <2>2 DEF PendingParts
  <2>6. CASE /\ wire[1].op = "ask" /\ UNCHANGED mach
             /\ query' = [at |-> "answered", pos |-> Position, state |-> State, old |-> 0]
    <3>1. query'.pos = Position /\ query'.state = State
      BY <2>6
    <3>2. Calm(wire')
      BY <1>2, <2>1, <2>2, <2>6, AskedLastIs DEF PendingParts
    <3>3. mach.queue = <<>> => Resting(query.pos)' /\ State # "Run"
      <4>1. mach.queue = <<>> => State # "Run" /\ Position = mach.pos
        BY <1>2, StateIs, PositionTyped DEF State, Machines
      <4>2. mach.queue = <<>> => mach'.queue = <<>> /\ mach'.pos = query'.pos
        BY <2>6, <3>1, <4>1
      <4>3. NoJogs'
        BY <3>2 DEF Calm, NoJogs
      <4> QED BY <4>1, <4>2, <4>3 DEF Resting
    <3>4. State = "Idle" => mach.queue = <<>>
      BY StateIs
    <3>5. Position = sess.pending[1].target => mach.queue = <<>>
      <4>1. SUFFICES ASSUME mach.queue # <<>> PROVE Position # sess.pending[1].target
        OBVIOUS
      <4>2. Aim # <<>> /\ Aim[1] = sess.pending[1].target
        <5> DEFINE t == sess.pending[1].target
        <5>1. Aim = <<t>>
          BY <2>2 DEF Aim
        <5> HIDE DEF t
        <5>2. <<t>> # <<>> /\ <<t>>[1] = t
          OBVIOUS
        <5> QED BY <5>1, <5>2 DEF t
      <4>3. 1 \in DOMAIN mach.queue
        BY <4>1, QueueGoes
      <4>4. Nears(sess.pending[1].target, mach.pos, mach.queue[1].to)
        BY <4>2, <4>3 DEF PathInv, MovesFit, MoveFrom, Fits
      <4>5. sess.pending[1].target \in Points
        BY <2>2, PendingTyped
      <4> QED BY <4>1, <4>4, <4>5, OnTheWay
    <3> QED BY <2>1, <2>2, <2>3, <3>1, <3>2, <3>3, <3>4, <3>5 DEF PendingParts
  <2> QED BY <1>4, <2>4, <2>5, <2>6, TakeLineIs
<1>5. CASE SendLine \/ Admit
  BY <1>5, <1>1 DEF SendLine, Admit
<1>6. CASE Returns
  <2>1. loop.at = "sent"
    BY <1>6 DEF Returns
  <2>2. sess.pending = Nothing
    BY <1>1, <2>1
  <2>3. Asks /\ loop.kind = "target" /\ ~sess'.after
    BY <1>6, <2>2 DEF Returns
  <2>4. query.at = "none"
    BY <2>1, <2>3 DEF CommandInv, QueryInv
  <2>5. AskedLast(wire') /\ query'.at = "asked"
    BY <1>2, <2>3, <2>4, AskedLastIs DEF Asks
  <2> QED BY <2>3, <2>5 DEF PendingParts
<1>7. CASE Arm \/ LetsGo \/ Ends
  BY <1>7, ArmTyped, DisarmedTyped DEF LetsGo, Release, Ends
<1>8. CASE Ticks \/ Starts \/ SetOrigin
  BY <1>8 DEF Ticks, Starts, SetOrigin, Commanded
<1>9. CASE Hears
  BY <1>1, <1>9 DEF Hears, Sample, PendingParts
<1>10. CASE Quiet
  <2>1. /\ SameMotion /\ sess'.pending = sess.pending /\ sess'.after = sess.after /\ sess'.st = sess.st
        /\ UNCHANGED <<query, wire>> \/ Asks \/ (query'.at = "none" /\ wire' = Forgotten(wire))
    BY <1>10 DEF Quiet, SameSession
  <2>2. PendingParts
    BY <1>1, <2>1
  <2>3. AskedLast(wire')
    BY <1>2, <2>1, <2>2, AskedLastIs DEF PendingParts, Asks
  <2>4. CASE UNCHANGED <<query, wire>>
    BY <2>1, <2>4, RestingStays, <2>2, <2>3 DEF PendingParts
  <2>5. CASE query'.at # "answered"
    BY <2>1, <2>2, <2>3, <2>5 DEF PendingParts
  <2> QED BY <2>1, <2>4, <2>5 DEF Asks
<1>11. ASSUME NEW stalls \in BOOLEAN, Pass(stalls) PROVE PendingParts'
  <2>1. /\ UNCHANGED wire /\ sess'.st = sess.st /\ sess'.after = sess.after
        /\ query'.at = query.at
        /\ query.at = "answered" => query'.pos = query.pos /\ query'.state = query.state
        /\ mach.queue = <<>> => mach' = mach
    BY <1>11, PassSays
  <2>2. PendingParts /\ sess'.pending[1].target = sess.pending[1].target
    BY <1>1, <1>11, PassAwaits
  <2>3. ASSUME NEW p, Resting(p) PROVE Resting(p)'
    BY <2>1, <2>3 DEF Resting, NoJogs
  <2> QED BY <2>1, <2>2, <2>3 DEF PendingParts
<1>12. ASSUME NEW why \in {"Hold", "Alarm"}, Stops(why) PROVE PendingParts'
  <2>1. UNCHANGED <<wire, query, sess>>
    BY <1>12 DEF Stops
  <2>2. /\ mach'.queue = (IF why = "Alarm" THEN <<>> ELSE mach.queue)
        /\ mach'.pos = (IF why = "Alarm" THEN Position ELSE mach.pos)
    BY <1>2, <1>12 DEF Stops, Machines
  <2>3. ASSUME NEW p, Resting(p) PROVE Resting(p)'
    BY <2>1, <2>2, <2>3, PositionTyped DEF Resting, NoJogs
  <2>4. PendingParts
    BY <1>1, <2>1
  <2> QED BY <2>1, <2>3, <2>4 DEF PendingParts
<1> QED BY <1>4, <1>5, <1>6, <1>7, <1>8, <1>9, <1>10, <1>11, <1>12, TrackedWays

\* VerdictInv after a verdict
VerdictParts ==
    /\ Resting(mach.pos)
    /\ sess.done[1].what = "complete" <=> mach.pos = sess.done[1].target

\* After a verdict the machine stays where it is until the next line.
LEMMA VerdictKept ==
    ASSUME TypeOK, BaseInv, IdleInv, CommandInv, PendingInv, VerdictInv, [Next]_vars
    PROVE  VerdictInv'
<1> SUFFICES ASSUME Tracked, sess'.done # Nothing, loop'.at # "sent" PROVE VerdictParts'
  BY SceneSays DEF VerdictInv, VerdictParts
<1>1. sess.done # Nothing /\ loop.at # "sent" => VerdictParts
  BY DEF VerdictInv, VerdictParts
<1>2. mach \in Machines /\ wire \in Seq(Lines) /\ sess \in Sessions
  BY DEF TypeOK
<1>3. SameMotion /\ sess'.done = sess.done /\ (Calm(wire) => Calm(wire')) /\ VerdictParts => VerdictParts'
  BY DEF VerdictParts, Resting, NoJogs, Calm, SameMotion
<1>4. mach' = mach => SameMotion
  BY DEF SameMotion
<1>5. /\ Asks => (Calm(wire) => Calm(wire'))
      /\ wire' = Forgotten(wire) => (Calm(wire) => Calm(wire'))
      /\ wire' = wire => (Calm(wire) => Calm(wire'))
  <2> DEFINE ask == [op |-> "ask"]
  <2>1. ask \in Lines /\ ask.op # "jog"
    BY DEF Lines
  <2> HIDE DEF ask
  <2>2. (Calm(Append(wire, ask)) <=> Calm(wire)) /\ (Calm(Forgotten(wire)) <=> Calm(wire))
    BY <1>2, <2>1, CalmIs
  <2> QED BY <2>2 DEF ask, Asks
<1>6. CASE TakeLine
  <2>1. UNCHANGED <<sess, loop>> /\ 1 \in DOMAIN wire
        /\ \A i \in DOMAIN wire' : wire'[i] = wire[i + 1] /\ i + 1 \in DOMAIN wire
    BY <1>6, TakeLineIs
  <2>2. VerdictParts
    BY <1>1, <2>1
  <2>3. wire[1].op # "jog" /\ (Calm(wire) => Calm(wire'))
    BY <2>1, <2>2 DEF VerdictParts, Resting, NoJogs, Calm
  <2>4. UNCHANGED mach
    BY <1>6, <2>3, TakeLineIs
  <2> QED BY <1>3, <1>4, <2>1, <2>2, <2>3, <2>4
<1>7. CASE SendLine \/ Returns \/ Arm \/ LetsGo
  BY <1>7, ArmTyped, DisarmedTyped DEF SendLine, TypeOK, Loops, Returns, LetsGo, Release
<1>8. CASE Admit \/ Starts \/ Ticks
  BY <1>8, <1>1, <1>3, <1>4, <1>5 DEF Admit, Starts, Ticks
<1>9. CASE Hears
  BY <1>9, <1>1, <1>3, <1>5 DEF Hears
<1>10. CASE Ends
  BY <1>10 DEF Ends, Resting, NoJogs, SameMotion, VerdictParts
<1>11. CASE SetOrigin
  <2> DEFINE zero == [op |-> "origin", seen |-> sess.st.pos]
  <2> DEFINE ask == [op |-> "ask"]
  <2>1. ask \in Lines /\ zero \in Lines /\ ask.op # "jog" /\ zero.op # "jog"
        /\ wire' \in {Append(wire, ask), Append(Append(wire, zero), ask)}
    BY <1>11, SetOriginTyped
  <2> HIDE DEF zero, ask
  <2>2. Append(wire, zero) \in Seq(Lines)
    BY <1>2, <2>1, AppendIs
  <2>3. (Calm(Append(wire, ask)) <=> Calm(wire)) /\ (Calm(Append(wire, zero)) <=> Calm(wire))
    BY <1>2, <2>1, CalmIs
  <2>4. Calm(Append(Append(wire, zero), ask)) <=> Calm(Append(wire, zero))
    BY <2>1, <2>2, CalmIs
  <2>5. UNCHANGED <<mach, sess, loop>>
    BY <1>11 DEF SetOrigin
  <2> QED BY <1>1, <1>3, <1>4, <2>1, <2>3, <2>4, <2>5
<1>12. CASE Quiet
  BY <1>5, <1>12, <1>1, <1>3 DEF Quiet, SameSession
<1>13. ASSUME NEW stalls \in BOOLEAN, Pass(stalls) PROVE VerdictParts'
  BY <1>13, PassSays, PassAwaits, <1>1, <1>3, <1>4, <1>5 DEF VerdictParts, Resting
<1>14. ASSUME NEW why \in {"Hold", "Alarm"}, Stops(why) PROVE VerdictParts'
  <2>1. UNCHANGED <<wire, sess, loop>>
    BY <1>14 DEF Stops
  <2>2. /\ mach'.queue = (IF why = "Alarm" THEN <<>> ELSE mach.queue)
        /\ mach'.pos = (IF why = "Alarm" THEN Position ELSE mach.pos)
    BY <1>2, <1>14 DEF Stops, Machines
  <2>3. VerdictParts /\ SameMotion
    BY <1>1, <2>1, <2>2, PositionTyped DEF VerdictParts, Resting, SameMotion
  <2> QED BY <1>3, <1>5, <2>1, <2>3
<1> QED BY <1>6, <1>7, <1>8, <1>9, <1>10, <1>11, <1>12, <1>13, <1>14, TrackedWays

-----------------------------------------------------------------------------
(* The invariant holds.                                                     *)

LEMMA InvStarts ==
    ASSUME Init
    PROVE  IInv
<1>1. TypeOK
  <2>1. scene \in DOMAIN Scenes /\ Here.acts \in Nat
    <3>1. scene \in DOMAIN Scenes
      BY DEF Init
    <3>2. scene \in 1 .. Len(Scenes)
      BY <3>1, ScenesAssumption, LenProperties
    <3>3. Here \in [xmax : Nat \ {0}, absolute : BOOLEAN, inputs : SUBSET Inputs,
                    captures : BOOLEAN, steps : BOOLEAN, targets : BOOLEAN, safe : BOOLEAN,
                    origins : BOOLEAN, lags : BOOLEAN, slow : BOOLEAN, delay : Nat, acts : Nat,
                    refuses : BOOLEAN, stops : BOOLEAN, fails : BOOLEAN]
      BY <3>2, ScenesAssumption, ElementOfSeq DEF Here
    <3>4. Here.acts \in Nat
      BY <3>3
    <3> QED BY <3>1, <3>4
  <2>2. mach \in Machines
    BY EmptySeq, PointsAre DEF Init, Machines
  <2>3. wire \in Seq(Lines) /\ captured \in Seq(Points)
    BY EmptySeq DEF Init, Nothing
  <2>4. query \in Queries /\ sess \in Sessions /\ loop \in Loops
    BY DisarmedTyped DEF Init
  <2>5. input \in Inputs /\ capture \in BOOLEAN /\ stale \in Nat /\ acts \in Nat
    BY <2>1 DEF Init, Inputs
  <2> QED BY <2>1, <2>2, <2>3, <2>4, <2>5 DEF TypeOK
<1>2. /\ mach.queue = <<>> /\ mach.pos = Origin /\ mach.stop = "no" /\ ~mach.refused
      /\ wire = <<>> /\ captured = <<>> /\ stale = 0 /\ input = 0
      /\ query.at = "none" /\ loop.at = "loop" /\ loop.kind = "tick"
      /\ ~sess.armed /\ sess.lead = 0 /\ sess.pending = Nothing
      /\ sess.planned = Origin /\ sess.st.pos = Origin /\ sess.st.state = "Idle"
      /\ sess.done = Nothing /\ ~capture
  BY DisarmedTyped DEF Init, Nothing
<1>3. BaseInv
  BY <1>2 DEF BaseInv, QueueTimed, WireTimed, LeaseInv, AsksInv, DueInv, Writing
<1>4. StaleInv
  BY <1>2 DEF StaleInv
<1>5. PaceInv
  BY <1>1, <1>2, AheadTyped, TimeAssumption DEF PaceInv, Writing
<1>6. LimitInv
  BY <1>1, OriginInside, <1>2 DEF LimitInv, Writing
<1>7. IdleInv /\ OriginInv
  BY <1>2 DEF IdleInv, OriginInv
<1>8. LineInv
  BY <1>2 DEF LineInv, Nothing
<1>9. CommandInv
  <2>1. QueryInv
    BY <1>2 DEF QueryInv, NoAsks, Nothing
  <2>2. AfterInv
    BY <1>2 DEF AfterInv
  <2>3. SceneInv
    BY <1>2 DEF SceneInv, Nothing
  <2> QED BY <2>1, <2>2, <2>3 DEF CommandInv
<1>10. PromptInv
  BY <1>2 DEF PromptInv
<1>11. PathInv
  BY <1>2 DEF PathInv, MovesFit, LinesFit, Writing
<1>12. PendingInv /\ VerdictInv
  BY <1>2 DEF PendingInv, VerdictInv
<1> QED BY <1>1, <1>3, <1>4, <1>5, <1>6, <1>7, <1>8, <1>9, <1>10, <1>11, <1>12 DEF IInv

LEMMA InvKept ==
    ASSUME IInv, [Next]_vars
    PROVE  IInv'
<1>1. /\ TypeOK /\ BaseInv /\ StaleInv /\ PaceInv /\ LimitInv /\ IdleInv /\ LineInv /\ OriginInv
      /\ CommandInv /\ PromptInv /\ PathInv /\ PendingInv /\ VerdictInv
  BY DEF IInv
<1>2. TypeOK' /\ BaseInv' /\ StaleInv' /\ PaceInv'
  BY <1>1, TypeKept, BaseKept, StaleKept, PaceKept
<1>3. LimitInv' /\ IdleInv' /\ LineInv' /\ OriginInv'
  BY <1>1, LimitKept, IdleKept, LineKept, OriginKept
<1>4. CommandInv' /\ PromptInv'
  BY <1>1, CommandKept, PromptKept
<1>5. PathInv' /\ PendingInv' /\ VerdictInv'
  BY <1>1, PathKept, PendingKept, VerdictKept
<1> QED BY <1>2, <1>3, <1>4, <1>5 DEF IInv

LEMMA InvHolds == Spec => []IInv
<1>1. Init => IInv
  BY InvStarts
<1>2. IInv /\ [Next]_vars => IInv'
  BY InvKept
<1> QED BY <1>1, <1>2, PTL DEF Spec

-----------------------------------------------------------------------------
(* What the invariant means.                                                *)

\* Where a move leads is inside the limits after every line.
LEMMA EndsInside ==
    ASSUME TypeOK, LimitInv, LineInv, Tracked, ~mach.refused
    PROVE  Inside(QueueEnd)
<1> DEFINE from == EndOf(mach.pos, mach.queue)
<1> DEFINE e == EndsOf(from, wire)
<1>1. from \in Points /\ wire \in Seq(Lines) /\ mach.queue \in Seq(Moves)
  BY PartsAre DEF TypeOK
<1>2. Inside(from)
  BY <1>1, EmptySeq, LenProperties DEF EndOf, LimitInv
<1>3. Len(wire) \in Nat /\ DOMAIN wire = 1 .. Len(wire)
  BY <1>1, LenProperties
<1>4. \A i \in 1 .. Len(wire) : wire[i].op = "jog" =>
        wire[i] \in JogLines /\ Inside(wire[i].to) /\ wire[i].d = axesDelta(e[i - 1], wire[i].to)
  <2>1. \A i \in 1 .. Len(wire) : wire[i] \in Lines
    BY <1>1, ElementOfSeq
  <2>2. \A i \in 1 .. Len(wire) : wire[i].op = "jog" => wire[i] \in JogLines
    BY <2>1, JogLinesAre
  <2>3. \A i \in 1 .. Len(wire) : wire[i].op = "jog" =>
          Inside(wire[i].to) /\ wire[i].d = axesDelta(e[i - 1], wire[i].to)
    BY <1>3 DEF LimitInv, LineInv, QueueEnds
  <2> QED BY <2>2, <2>3
<1>5. /\ e \in [0 .. Len(wire) -> Points] /\ e[0] = from
      /\ \A n \in 1 .. Len(wire) : e[n] = IF wire[n].op = "jog" THEN LineEnd(e[n - 1], wire[n]) ELSE e[n - 1]
  BY <1>1, EndsDefined
<1> HIDE DEF e, from
<1>6. \A n \in 1 .. Len(wire) : wire[n].op = "jog" => e[n] = wire[n].to
  <2> SUFFICES ASSUME NEW n \in 1 .. Len(wire), wire[n].op = "jog" PROVE e[n] = wire[n].to
    OBVIOUS
  <2>1. n - 1 \in 0 .. Len(wire)
    BY <1>3
  <2>2. e[n - 1] \in Points /\ e[n] = LineEnd(e[n - 1], wire[n])
    BY <1>5, <2>1
  <2> QED BY <1>4, <2>2, LineEndIs
<1> DEFINE Bad == {n \in 0 .. Len(wire) : ~Inside(e[n])}
<1>7. Bad = {}
  <2> SUFFICES ASSUME Bad # {} PROVE FALSE
    OBVIOUS
  <2>1. Bad \in SUBSET Nat
    BY <1>3
  <2>2. PICK n \in Bad : \A k \in Bad : n <= k
    BY <2>1, Least
  <2>3. n # 0
    BY <1>2, <1>5, <2>2
  <2>4. n \in 1 .. Len(wire) /\ n - 1 \in 0 .. Len(wire) /\ n - 1 \notin Bad
    BY <1>3, <2>2, <2>3
  <2>5. Inside(e[n - 1])
    BY <2>4
  <2>6. Inside(e[n])
    BY <1>4, <1>5, <1>6, <2>4, <2>5
  <2> QED BY <2>2, <2>6
<1>8. Len(wire) \in 0 .. Len(wire)
  BY <1>3
<1>9. Inside(e[Len(wire)])
  BY <1>7, <1>8
<1> QED BY <1>9 DEF QueueEnd, QueueEnds, e, from

\* TypeOK, for any scenes and any durations: the session's fields keep the
\* shapes of jog.go's.
THEOREM PlannerTyped == Spec => []TypeOK
<1>1. IInv => TypeOK
  BY DEF IInv
<1> QED BY <1>1, InvHolds, PTL

\* StopsInTime, for any scenes, any durations and any bounds: of the input
\* before the latest at most one segment is written (motionTick, SetInput), and
\* a machine that keeps the pace has at most the lookahead and one segment
\* queued and under way (admitJogSegment).
THEOREM PlannerStopsInTime == Spec => []StopsInTime
<1>1. IInv => StopsInTime
  <2> SUFFICES ASSUME IInv PROVE StopsInTime
    OBVIOUS
  <2>1. OneStaleSegment
    BY DEF IInv, StaleInv, OneStaleSegment
  <2>2. BoundedAhead
    BY DEF IInv, PaceInv, BoundedAhead, Paced, Ahead
  <2> QED BY <2>1, <2>2 DEF StopsInTime
<1> QED BY <1>1, InvHolds, PTL

\* PlanIsTrue where sticks alone move the machine and an answer is younger than
\* a segment, or where steps and targets move it too and it keeps the pace and
\* answers at once: planned is the end of the firmware queue
\* (applyStatusPayload), also of a machine that refuses lines or stops; a
\* captured position is it too as long as none does and sticks alone move it
\* (CapturePosition).
THEOREM PlanFollowsTheQueue ==
    Spec => [](Tracked => /\ PlannedIsQueueEnd
                          /\ CapturesSettle => PlanIsTrue)
<1>1. IInv => (Tracked => PlannedIsQueueEnd /\ (CapturesSettle => PlanIsTrue))
  <2> SUFFICES ASSUME IInv, Tracked
               PROVE  PlannedIsQueueEnd /\ (CapturesSettle => CaptureIsQueueEnd)
    BY DEF PlanIsTrue
  <2>1. PlannedIsQueueEnd
    BY DEF IInv, LineInv, PlannedIsQueueEnd
  <2>2. CASE ~Here.captures
    BY <2>2, <2>1 DEF IInv, CommandInv, SceneInv, CaptureIsQueueEnd
  <2>3. CASE Here.captures
    BY <2>3, <2>1 DEF CapturesSettle, IInv, LineInv, CaptureIsQueueEnd
  <2> QED BY <2>2, <2>3
<1> QED BY <1>1, InvHolds, PTL

\* MovesAreSafe in the same scenes: no sequence of segments, steps and targets
\* ends outside the limits (motionTick, handleStep, handleTarget), an origin
\* reaches a machine that rests where the session has seen it
\* (handleOriginCommand), and where a safe Z is given and targets alone move the
\* machine it crosses at that height or above (handleTarget), also after a write
\* has failed in the middle of the legs.
THEOREM MovesKeepSafe ==
    Spec => [](Tracked => /\ SoftLimitsKept /\ OriginAtRest
                          /\ (Here.safe => Careful) => MovesAreSafe)
<1>1. IInv => (Tracked => /\ SoftLimitsKept /\ OriginAtRest
                          /\ (Here.safe => Careful) => MovesAreSafe)
  <2> SUFFICES ASSUME IInv, Tracked
               PROVE  /\ SoftLimitsKept /\ OriginAtRest
                      /\ (Here.safe => Careful) => CrossesAboveSafeZ
    BY DEF MovesAreSafe
  <2>1. SoftLimitsKept
    BY EndsInside DEF IInv, SoftLimitsKept, Inside
  <2>2. (Here.safe => Careful) => CrossesAboveSafeZ
    <3> SUFFICES ASSUME Here.safe, Careful, NEW i \in DOMAIN mach.queue
                 PROVE  Crosses(MoveFrom(mach.pos, mach.queue, i), mach.queue[i].to)
      BY DEF CrossesAboveSafeZ, Crosses, MoveFrom
    <3>1. Fits(Aim, MoveFrom(mach.pos, mach.queue, i), mach.queue[i].to)
      BY DEF IInv, PathInv, MovesFit
    <3> QED BY <3>1 DEF Fits
  <2>3. OriginAtRest
    BY DEF IInv, OriginInv, OriginAtRest
  <2> QED BY <2>1, <2>2, <2>3
<1> QED BY <1>1, InvHolds, PTL

\* VerdictIsTrue in the same scenes: target_complete tells of a machine that
\* rests at the target, target_not_reached of one that rests elsewhere, until
\* the next line is written (applyStatusPayload, motionTick).
THEOREM VerdictsTell == Spec => [](Tracked => VerdictIsTrue)
<1>1. IInv => (Tracked => VerdictIsTrue)
  <2> SUFFICES ASSUME IInv, Tracked, sess.done # Nothing, loop.at = "loop"
               PROVE  LET there == mach.queue = <<>> /\ mach.pos = sess.done[1].target IN
                      IF sess.done[1].what = "complete" THEN there
                      ELSE mach.queue = <<>> /\ ~there
    BY DEF VerdictIsTrue
  <2>1. VerdictInv
    BY DEF IInv
  <2>2. mach.queue = <<>> /\ (sess.done[1].what = "complete" <=> mach.pos = sess.done[1].target)
    BY <2>1 DEF VerdictInv, Resting
  <2> QED BY <2>2
<1> QED BY <1>1, InvHolds, PTL
===============================================================================
