------------------------------ MODULE JogPlanner ------------------------------
(***************************************************************************)
(* What an armed jog session writes to the machine (internal/jog/jog.go):   *)
(* motionTick keeps a short queue of segments ahead of the machine while a  *)
(* stick is held, handleStep and handleTarget append explicit moves,        *)
(* handleOriginCommand sets a work origin, CapturePosition reads the point  *)
(* where the queue will stop, and the status answers re-anchor the plan.    *)
(*                                                                          *)
(* The session knows three things: planned, the end of what it has written; *)
(* queuedUntil, when it predicts the machine will be there; and the last    *)
(* status.  The machine knows its queue and its position.  The lines to it  *)
(* go through a first-in first-out wire, its answers take time to come      *)
(* back, the WebSocket reader changes the input at any moment, and the      *)
(* machine may be slower than predicted.                                    *)
(*                                                                          *)
(* Time passes in units of half a segment.  A point in time is kept as its  *)
(* distance from now: lead is queueLead(now, queuedUntil), age is           *)
(* now - lastStatusAt.  One axis stands for X, Y and A, the other is Z.     *)
(***************************************************************************)
EXTENDS Integers, Sequences

CONSTANTS
    Scenes,          \* what may happen, a sequence of records
    SegDur,          \* jogSegmentDuration
    Lookahead,       \* jogLookahead
    MaxPerTick,      \* maxSegmentsPerTick
    LeadCheck,       \* physicalLeadCheckDue: two ticks
    LeadLimit,       \* jogLeadTooLarge: its limit
    StatusGap,       \* StatusInterval
    PollGap,         \* activeStatusPollInterval
    MaxAge,          \* activeStatusMaxAge
    Grace,           \* targetVerifyGrace
    QueryTimeout,    \* statusQueryTimeout
    SafeZ,           \* the safe Z of a target command
    ZMax,            \* soft limit of Z; the minimum of every axis is 0
    MaxQueue,        \* bound: lines ahead of a machine that stalls
    MaxLate          \* bound: how far the end of a command's moves is past

ASSUME TimeAssumption ==
    /\ SegDur \in Nat \ {0} /\ Lookahead \in Nat /\ MaxPerTick \in Nat \ {0}
    /\ {LeadCheck, LeadLimit, StatusGap, PollGap, MaxAge, Grace} \subseteq Nat
    /\ QueryTimeout \in Nat /\ SafeZ \in Nat /\ ZMax \in Nat
    /\ MaxQueue \in Nat /\ MaxLate \in Nat

\* A segment of full speed is SegDur long, slow mode is half of that.
Inputs == {0, SegDur, -SegDur, SegDur \div 2}

ASSUME ScenesAssumption ==
    Scenes \in Seq([xmax : Nat \ {0}, absolute : BOOLEAN, inputs : SUBSET Inputs,
                    captures : BOOLEAN, steps : BOOLEAN, targets : BOOLEAN, safe : BOOLEAN,
                    origins : BOOLEAN, lags : BOOLEAN, slow : BOOLEAN, delay : Nat, acts : Nat,
                    refuses : BOOLEAN, stops : BOOLEAN, fails : BOOLEAN])

VARIABLES
    scene,           \* which of Scenes this behaviour is
    mach,            \* the machine: position, queue, why it stands still
    wire,            \* lines written, not yet read by the machine
    query,           \* the status query in flight
    sess,            \* the session's fields
    loop,            \* where its run loop is
    input,           \* latest: the distance of one segment, 0 when released
    capture,         \* a CapturePosition waits for a segment write
    captured,        \* the last position captured, until a later line
    stale,           \* lines written from an input before the latest
    acts             \* bound: what the user and the machine's faults still do

vars == <<scene, mach, wire, query, sess, loop, input, capture, captured, stale, acts>>
Here == Scenes[scene]

\* One of the things somebody decides to do
Act == acts > 0 /\ acts' = acts - 1

Axes == {"x", "z"}
Points == [Axes -> Int]
States == {"Idle", "Run", "Hold", "Alarm"}
Nothing == <<>>

\* A jog line: the distance of $J and the point of G53 G0, per moved axis.
JogLines == [op : {"jog"}, d : Points, to : Points, dur : Nat]
Lines == JogLines \cup [op : {"ask", "forgotten"}] \cup [op : {"origin"}, seen : Points]
Moves == [to : Points, left : Nat, dur : Nat]
Samples == [pos : Points, state : States]

Machines == [pos : Points, queue : Seq(Moves), stop : {"no", "Hold", "Alarm"}, refused : BOOLEAN]
Queries == [at : {"none", "asked"}]
           \cup [at : {"answered"}, pos : Points, state : States, old : Nat]
Sessions == [armed : BOOLEAN, planned : Points, lead : Nat, after : BOOLEAN, st : Samples,
             age : 0 .. MaxAge + 1, retry : BOOLEAN, wait : BOOLEAN,
             pending : Seq([target : Points, verify : Int]),
             done : Seq([what : {"complete", "short"}, target : Points])]
Loops == [at : {"loop", "admit", "write", "sent"}, kind : {"tick", "step", "target"},
          plan : Points, todo : Seq(Points), basis : Inputs, sent : 0 .. MaxPerTick, due : Int]

(***************************************************************************)
(* TypeOK: every variable has the shape of the fields it models.            *)
(***************************************************************************)
TypeOK ==
    /\ scene \in DOMAIN Scenes
    /\ mach \in Machines
    /\ wire \in Seq(Lines)
    /\ query \in Queries
    /\ sess \in Sessions
    /\ loop \in Loops
    /\ input \in Inputs
    /\ capture \in BOOLEAN
    /\ captured \in Seq(Points)
    /\ stale \in Nat
    /\ acts \in Nat

Origin == [a \in Axes |-> IF a = "x" THEN 1 ELSE 0]
Disarmed == [armed |-> FALSE, planned |-> Origin, lead |-> 0, after |-> TRUE,
             st |-> [pos |-> Origin, state |-> "Idle"], age |-> 0,
             retry |-> FALSE, wait |-> FALSE, pending |-> Nothing, done |-> Nothing]
AtLoop == [at |-> "loop", kind |-> "tick", plan |-> Origin, todo |-> <<>>,
           basis |-> 0, sent |-> 0, due |-> 0]
NoQuery == [at |-> "none"]

Init ==
    /\ scene \in DOMAIN Scenes
    /\ mach = [pos |-> Origin, queue |-> <<>>, stop |-> "no", refused |-> FALSE]
    /\ wire = <<>>
    /\ query = NoQuery
    /\ sess = Disarmed
    /\ loop = AtLoop
    /\ input = 0
    /\ capture = FALSE
    /\ captured = Nothing
    /\ stale = 0
    /\ acts = Here.acts

-----------------------------------------------------------------------------
(* Arithmetic of the plan                                                   *)

Max2(m, n) == IF m > n THEN m ELSE n
Min2(m, n) == IF m < n THEN m ELSE n
Abs(n) == IF n < 0 THEN -n ELSE n
Sign(n) == IF n < 0 THEN -1 ELSE 1
Sum(p, d) == [a \in Axes |-> p[a] + d[a]]

\* axesDelta
axesDelta(from, to) == [a \in Axes |-> to[a] - from[a]]

\* SoftLimits, as learned from the machine
LimitOf(a) == IF a = "x" THEN Here.xmax ELSE ZMax

\* Mutant: the limit is held against the speed of one segment only.
clampTargetLoose(from, to) ==
    [a \in Axes |-> Max2(-SegDur, Min2(to[a], LimitOf(a) + SegDur))]

\* clampJogTarget: an axis that starts inside its limits stays inside.
clampJogTarget(from, to) ==
    [a \in Axes |-> IF from[a] \in 0 .. LimitOf(a)
                    THEN Max2(0, Min2(to[a], LimitOf(a))) ELSE to[a]]

\* MotionDelta: one segment in the direction of the stick.
MotionDelta(in) == [a \in Axes |-> IF a = "x" THEN in ELSE 0]

\* stepJogDuration, targetMoveDuration: at least the shortest segment.
moveDuration(d) == Max2(SegDur, Max2(Abs(d["x"]), Abs(d["z"])))

\* jogLeadTooLarge
jogLeadTooLarge(target) ==
    \E a \in Axes : Abs(target[a] - sess.st.pos[a]) > LeadLimit

\* physicalLeadCheckDue: only just after a sample
physicalLeadCheckDue == sess.age <= LeadCheck

\* motionInputActive
Active == input # 0

\* staleCorrectionStatus, statusFresh
Stale == sess.age > MaxAge

\* targetReached: within a tolerance, on every axis
targetReached(pos, target) == pos = target

\* canContinueJog
canContinueJog(state) == state \in {"Idle", "Run"}

\* statusTransactionBusy: a command that writes waits for the status.
Busy == query.at # "none" \/ sess.retry

\* jogCommandForDuration
jogCommand(from, to, dur) ==
    [op |-> "jog", d |-> axesDelta(from, to), to |-> to, dur |-> dur]

-----------------------------------------------------------------------------
(* The machine                                                              *)

\* lastMotionSegmentLocked: where a queue ends.
EndOf(pos, queue) == IF queue = <<>> THEN pos ELSE queue[Len(queue)].to

\* instantJogCommand adds to the end of the queue, g53JogCommand goes to a
\* point; an axis without a word keeps its value.
LineEnd(from, l) ==
    [a \in Axes |-> IF l.d[a] = 0 THEN from[a]
                    ELSE IF Here.absolute THEN l.to[a] ELSE from[a] + l.d[a]]

\* Where the machine is within the move it executes.
Position ==
    IF mach.queue = <<>> THEN mach.pos
    ELSE LET m == Head(mach.queue) IN
         [a \in Axes |-> mach.pos[a] + Sign(m.to[a] - mach.pos[a])
             * ((Abs(m.to[a] - mach.pos[a]) * (m.dur - m.left)) \div m.dur)]

\* The state a status reports.
State == IF mach.stop # "no" THEN mach.stop
         ELSE IF mach.queue = <<>> THEN "Idle" ELSE "Run"

\* One unit of time for the machine.
Executes ==
    IF mach.stop # "no" \/ mach.queue = <<>> THEN mach
    ELSE IF Head(mach.queue).left > 1
         THEN [mach EXCEPT !.queue[1].left = @ - 1]
         ELSE [mach EXCEPT !.pos = Head(mach.queue).to, !.queue = Tail(@)]

\* The machine reads the next line: a jog is appended to its queue, or refused
\* with all that follow until the session has seen where the machine rests (as
\* it does in Alarm); an origin changes no motion; a status query is answered
\* with what is true now, and an answer that nobody waits for goes nowhere.
TakeLine ==
    /\ wire # <<>>
    /\ wire' = Tail(wire)
    /\ LET l == Head(wire) IN
       \/ /\ l.op = "jog" /\ mach.stop # "Alarm" /\ ~mach.refused
          /\ mach' = [mach EXCEPT !.queue = Append(@,
                 [to |-> LineEnd(EndOf(mach.pos, @), l), left |-> l.dur, dur |-> l.dur])]
          /\ UNCHANGED query
       \/ /\ l.op = "jog" /\ (Here.refuses \/ mach.refused \/ mach.stop = "Alarm")
          /\ mach' = [mach EXCEPT !.refused = TRUE]
          /\ UNCHANGED query
       \/ /\ l.op \in {"origin", "forgotten"}
          /\ UNCHANGED <<mach, query>>
       \/ /\ l.op = "ask"
          /\ query' = [at |-> "answered", pos |-> Position, state |-> State, old |-> 0]
          /\ UNCHANGED mach
    /\ UNCHANGED <<scene, sess, loop, input, capture, captured, stale, acts>>

\* A hold stops the motion and keeps the queue; an alarm drops it.
Stops(why) ==
    /\ Act
    /\ Here.stops /\ mach.stop = "no"
    /\ mach' = [mach EXCEPT !.stop = why, !.refused = @ \/ why = "Alarm",
                            !.queue = IF why = "Alarm" THEN <<>> ELSE @,
                            !.pos = IF why = "Alarm" THEN Position ELSE @]
    /\ captured' = Nothing
    /\ UNCHANGED <<scene, wire, query, sess, loop, input, capture, stale>>

\* Someone resumes or unlocks the machine once the session has let go.
Recovers ==
    /\ mach.stop # "no" /\ ~sess.armed /\ wire = <<>>
    /\ mach' = [mach EXCEPT !.stop = "no"]
    /\ UNCHANGED <<scene, wire, query, sess, loop, input, capture, captured, stale, acts>>

\* queueLead: down to zero
Less(n) == IF n > 0 THEN n - 1 ELSE 0

\* verifyAfter of a pending target comes nearer.
Awaited(pending) ==
    IF pending = Nothing THEN pending
    ELSE <<[pending[1] EXCEPT !.verify = Max2(@ - 1, -QueryTimeout)]>>

\* A unit of time passes.  The machine executes, or stalls; a slow transport
\* lets time pass while a line is written or under way; an answer is at most
\* delay units old when the session handles it.  A command predicts the end of
\* its moves from the time it began (loop.due), however long it writes them.
Pass(stalls) ==
    /\ stalls => Here.lags /\ mach.queue # <<>> /\ Len(mach.queue) <= MaxQueue
    /\ Here.slow \/ loop.at = "loop"
    /\ wire = <<>>
    /\ query.at = "answered" => query.old < Here.delay
    /\ mach' = IF stalls THEN mach ELSE Executes
    /\ query' = IF query.at = "answered" THEN [query EXCEPT !.old = @ + 1] ELSE query
    /\ sess' = IF ~sess.armed THEN sess
               ELSE [sess EXCEPT !.lead = Less(@), !.wait = FALSE, !.age = Min2(@ + 1, MaxAge + 1),
                     !.pending = Awaited(@)]
    /\ loop' = IF loop.kind = "tick" THEN loop
               ELSE [loop EXCEPT !.due = Max2(@ - 1, -MaxLate)]
    /\ UNCHANGED <<scene, wire, input, capture, captured, stale, acts>>

-----------------------------------------------------------------------------
(* Arming and releasing                                                     *)

\* handleArm: the status is asked on the connection just acquired, and the
\* plan starts where the machine stands.
Arm ==
    /\ Act
    /\ ~sess.armed /\ loop.at = "loop" /\ wire = <<>> /\ ~capture
    /\ State = "Idle"
    /\ sess' = [Disarmed EXCEPT !.armed = TRUE, !.planned = mach.pos,
                                !.st = [pos |-> mach.pos, state |-> "Idle"]]
    /\ mach' = [mach EXCEPT !.refused = FALSE]
    /\ input' = 0
    /\ captured' = Nothing
    /\ stale' = 0
    /\ UNCHANGED <<scene, wire, query, loop, capture>>

\* Nobody waits for the answer to a query under way any more.
Forgotten(lines) ==
    [i \in DOMAIN lines |-> IF lines[i].op = "ask" THEN [op |-> "forgotten"] ELSE lines[i]]

\* release, with statusWG.Wait: the loop goes on without a lease.
Release ==
    /\ sess' = Disarmed
    /\ query' = NoQuery
    /\ wire' = Forgotten(wire)
    /\ loop' = AtLoop
    /\ input' = 0

\* disarm, a hold or halt from the UI, the relay's abort
Disarm ==
    /\ Act
    /\ sess.armed /\ loop.at = "loop"
    /\ Release
    /\ UNCHANGED <<scene, mach, capture, captured, stale>>

-----------------------------------------------------------------------------
(* The WebSocket reader                                                     *)

\* SetInput, and the end of DeadmanTimeout (in = 0): the latest input wins.
SetInput(in) ==
    /\ Act
    /\ sess.armed /\ in # input
    /\ input' = in
    /\ stale' = 0
    /\ UNCHANGED <<scene, mach, wire, query, sess, loop, capture, captured>>

\* admissionInFlight, from the admission of a segment to its commit
AdmissionInFlight == loop.kind = "tick" /\ loop.at \in {"write", "sent"}

\* CapturePosition: the input is cancelled; with no segment write under way
\* planned is taken at once.
CapturePosition ==
    /\ Act
    /\ Here.captures /\ sess.armed /\ ~capture
    /\ input' = 0
    /\ stale' = IF input = 0 THEN stale ELSE 0
    /\ IF AdmissionInFlight
       THEN capture' = TRUE /\ UNCHANGED captured
       ELSE captured' = <<sess.planned>> /\ UNCHANGED capture
    /\ UNCHANGED <<scene, mach, wire, query, sess, loop>>

\* admissionCond.Wait returned; the lease may be gone by now.
CaptureEnds ==
    /\ capture /\ ~AdmissionInFlight
    /\ capture' = FALSE
    /\ captured' = IF sess.armed THEN <<sess.planned>> ELSE captured
    /\ UNCHANGED <<scene, mach, wire, query, sess, loop, input, stale, acts>>

-----------------------------------------------------------------------------
(* Status queries                                                           *)

\* requestStatus, not before nextStatusAt: the query follows the lines
\* written before it.
RequestStatus ==
    /\ ~sess.wait
    /\ query' = [at |-> "asked"]
    /\ wire' = Append(wire, [op |-> "ask"])

\* statusTick, shouldRequestStatus
StatusTick ==
    /\ sess.armed /\ loop.at = "loop" /\ query.at = "none"
    /\ sess.age >= IF sess.pending = Nothing /\ Active THEN PollGap ELSE StatusGap
    /\ RequestStatus
    /\ UNCHANGED <<scene, mach, sess, loop, input, capture, captured, stale, acts>>

\* clearPendingTarget, and the end of a target in applyStatusPayload, with
\* the event it sends: target_complete, or the error target_not_reached.
EndTarget(s, what, pos) ==
    [s EXCEPT !.done = <<[what |-> what, target |-> s.pending[1].target]>>,
              !.pending = Nothing, !.planned = pos, !.lead = 0, !.after = TRUE]

\* Mutant: any answer after the predicted end drains the queue.
SettledByClock(s, sample) == s.lead = 0

\* applyStatusPayload: Idle is the machine's drain signal.
Settled(s, sample) == s.lead = 0 /\ sample.state = "Idle"

\* applyStatusPayload: the target is reached, or the machine has stopped
\* elsewhere.
AfterTarget(s, sample) ==
    IF s.pending = Nothing THEN s
    ELSE IF targetReached(sample.pos, s.pending[1].target) THEN EndTarget(s, "complete", sample.pos)
    ELSE IF s.pending[1].verify <= 0 /\ sample.state = "Idle" THEN EndTarget(s, "short", sample.pos)
    ELSE s

\* handleStatusResult with an answer, applyStatusPayload.
TakeStatus ==
    /\ loop.at = "loop" /\ query.at = "answered" /\ sess.armed
    /\ LET sample == [pos |-> query.pos, state |-> query.state]
           seen == [sess EXCEPT !.st = sample, !.age = 0, !.retry = FALSE,
                                !.after = (sess.lead = 0)]
           ended == AfterTarget(seen, sample)
           settled == IF Settled(ended, sample) THEN [ended EXCEPT !.planned = sample.pos]
                      ELSE ended IN
       \/ /\ canContinueJog(sample.state)
          /\ sess' = settled
          /\ query' = NoQuery
          /\ mach' = [mach EXCEPT !.refused = @ /\ ~Settled(ended, sample)]
          /\ UNCHANGED <<wire, loop, input>>
       \/ /\ ~canContinueJog(sample.state)
          /\ Release
          /\ UNCHANGED mach
    /\ UNCHANGED <<scene, capture, captured, stale, acts>>

\* handleStatusResult with a timeout, a diagnostic or a damaged frame: the
\* query is repeated until the last answer is too old, then the lease ends.
StatusFails ==
    /\ loop.at = "loop" /\ query.at # "none" /\ sess.armed /\ Here.fails
    /\ \/ /\ sess' = [sess EXCEPT !.retry = TRUE, !.wait = TRUE]
          /\ query' = NoQuery
          /\ wire' = Forgotten(wire)
          /\ UNCHANGED <<loop, input>>
       \/ /\ Stale
          /\ Release
    /\ UNCHANGED <<scene, mach, capture, captured, stale, acts>>

-----------------------------------------------------------------------------
(* Writing                                                                  *)

\* WriteGcodeLine hands the line to the transport.
SendLine ==
    /\ loop.at = "write"
    /\ LET to == Head(loop.todo) IN
       wire' = Append(wire, jogCommand(loop.plan, to,
                                       moveDuration(axesDelta(loop.plan, to))))
    /\ loop' = [loop EXCEPT !.at = "sent"]
    /\ captured' = Nothing
    /\ stale' = IF loop.kind = "tick" /\ loop.basis # input THEN stale + 1 ELSE stale
    /\ UNCHANGED <<scene, mach, query, sess, input, capture, acts>>

\* When the line that was written is predicted to end: motionTick adds to the
\* lead of now, a command to what was left when it took its time.
QueuedUntil ==
    (IF loop.kind = "tick" THEN sess.lead ELSE loop.due)
        + moveDuration(axesDelta(loop.plan, Head(loop.todo)))

\* writePlannedJogSegment and the commits of handleStep and motionTick: planned
\* and queuedUntil follow the line.
Committed ==
    [sess EXCEPT !.planned = Head(loop.todo), !.after = FALSE, !.done = Nothing,
                 !.lead = Max2(0, QueuedUntil)]

\* The write returned.  motionTick looks at the input again before the next
\* segment; a target's next leg follows; its last one makes it pending.
WriteReturns ==
    /\ loop.at = "sent"
    /\ LET to == Head(loop.todo)
           rest == Tail(loop.todo)
           next == [loop EXCEPT !.plan = to, !.todo = rest, !.sent = (@ + 1) % (MaxPerTick + 1)] IN
       \/ /\ loop.kind = "tick"
          /\ sess' = Committed
          /\ loop' = IF Active THEN [next EXCEPT !.at = "admit"] ELSE AtLoop
          /\ UNCHANGED <<wire, query, input>>
       \/ /\ loop.kind # "tick" /\ rest # <<>>
          /\ sess' = Committed
          /\ loop' = [next EXCEPT !.at = "write", !.sent = 0, !.due = QueuedUntil]
          /\ UNCHANGED <<wire, query, input>>
       \/ /\ loop.kind = "step"
          /\ sess' = Committed
          /\ loop' = AtLoop
          /\ UNCHANGED <<wire, query, input>>
       \/ /\ loop.kind = "target" /\ rest = <<>>
          /\ sess' = [Committed EXCEPT !.pending =
                 <<[target |-> to, verify |-> QueuedUntil + Grace]>>]
          /\ loop' = AtLoop
          /\ input' = 0
          /\ RequestStatus
    /\ UNCHANGED <<scene, mach, capture, captured, stale, acts>>

\* The write fails: failLease.
WriteFails ==
    /\ Here.fails /\ loop.at \in {"write", "sent"}
    /\ Release
    /\ UNCHANGED <<scene, mach, capture, captured, stale, acts>>

-----------------------------------------------------------------------------
(* motionTick                                                               *)

\* Only an Idle status from after the predicted end re-anchors the plan.
TickAnchor(s) ==
    IF s.lead = 0 /\ s.st.state = "Idle" /\ s.after THEN s.st.pos ELSE s.planned

\* A tick while a stick is held, or a status is due again: the status is
\* requested (a retry waits for nextStatusAt), and the loop goes on to admit
\* segments unless the last status is too old.
MotionTick ==
    /\ sess.armed /\ loop.at = "loop" /\ sess.pending = Nothing
    /\ \/ /\ query.at = "none" /\ (sess.retry \/ (Active /\ sess.age >= PollGap))
          /\ RequestStatus
       \/ /\ query.at = "none" => sess.wait \/ ~(sess.retry \/ sess.age >= PollGap)
          /\ Active /\ ~Stale
          /\ UNCHANGED <<query, wire>>
    /\ loop' = IF Active /\ ~Stale
               THEN [AtLoop EXCEPT !.at = "admit", !.plan = TickAnchor(sess), !.basis = input]
               ELSE loop
    /\ UNCHANGED <<scene, mach, sess, input, capture, captured, stale, acts>>

\* Mutant: the refill goes on with the input of its first segment.
AdmittedFromTick == loop.basis

\* Each segment is computed from the latest input.
Admitted == input

\* The segment an admission would write
NextTarget == clampJogTarget(loop.plan, Sum(loop.plan, MotionDelta(Admitted)))

\* The checks under admissionMu
MayAdmit ==
    /\ loop.sent < MaxPerTick
    /\ ~capture
    /\ sess.lead < Lookahead
    /\ Active
    /\ NextTarget # loop.plan
    /\ ~(physicalLeadCheckDue /\ jogLeadTooLarge(NextTarget))

\* A segment is admitted, or the refill ends.
Admit ==
    /\ loop.at = "admit"
    /\ loop' = IF MayAdmit
               THEN [loop EXCEPT !.at = "write", !.todo = <<NextTarget>>, !.basis = Admitted]
               ELSE AtLoop
    /\ UNCHANGED <<scene, mach, wire, query, sess, input, capture, captured, stale, acts>>

\* Mutant: a target waits for a status however long none comes.
TargetTickWaits ==
    /\ sess.armed /\ loop.at = "loop" /\ sess.pending # Nothing
    /\ sess.pending[1].verify <= 0
    /\ sess.after /\ ~Stale /\ sess.st.state # "Run"
    /\ sess' = EndTarget(sess, "short", sess.st.pos)
    /\ mach' = [mach EXCEPT !.refused = FALSE]
    /\ UNCHANGED <<scene, query, wire, loop, input, capture, captured, stale, acts>>

\* motionTick with a pending target, once its time to be verified has come:
\* the machine stopped elsewhere, or no status tells where it is.
TargetTick ==
    /\ sess.armed /\ loop.at = "loop" /\ sess.pending # Nothing
    /\ sess.pending[1].verify <= 0
    /\ \/ /\ sess.after /\ ~Stale /\ sess.st.state # "Run"
          /\ sess' = EndTarget(sess, "short", sess.st.pos)
          /\ mach' = [mach EXCEPT !.refused = FALSE]
          /\ UNCHANGED <<query, wire, loop, input>>
       \/ /\ Stale /\ query.at = "none"
          /\ sess.pending[1].verify <= -QueryTimeout
          /\ Release
          /\ UNCHANGED mach
    /\ UNCHANGED <<scene, capture, captured, stale, acts>>

\* motionTick with a pending target: a failed query is repeated.
TargetRetry ==
    /\ sess.armed /\ loop.at = "loop" /\ sess.pending # Nothing
    /\ sess.retry /\ query.at = "none"
    /\ RequestStatus
    /\ UNCHANGED <<scene, mach, sess, loop, input, capture, captured, stale, acts>>

-----------------------------------------------------------------------------
(* Commands                                                                 *)

\* A movement command runs once no status transaction is under way, with a
\* lease and no pending target; without a status to start from it asks for one.
Commanded == sess.armed /\ loop.at = "loop" /\ ~Busy /\ sess.pending = Nothing
NoPosition == Stale /\ sess.lead = 0

\* handleStep, handleTarget: a status from after the queue moves the plan.
CommandAnchor == IF sess.lead = 0 /\ sess.after THEN sess.st.pos ELSE sess.planned

\* handleStep
Step(d) ==
    /\ Act
    /\ Here.steps /\ Commanded
    /\ LET to == clampJogTarget(CommandAnchor, Sum(CommandAnchor, MotionDelta(d))) IN
       \/ /\ NoPosition
          /\ RequestStatus
          /\ UNCHANGED loop
       \/ /\ ~NoPosition /\ to # CommandAnchor
          /\ loop' = [AtLoop EXCEPT !.at = "write", !.kind = "step",
                                    !.plan = CommandAnchor, !.todo = <<to>>, !.due = sess.lead]
          /\ UNCHANGED <<query, wire>>
    /\ UNCHANGED <<scene, mach, sess, input, capture, captured, stale>>

\* A leg that goes nowhere is not written.
Leg(from, to) == IF from = to THEN <<>> ELSE <<to>>

\* handleTarget: up to the safe Z, across, then to the Z of the target when it
\* has one; without a safe Z, or with no way across, in one leg.
Legs(from, to, z) ==
    LET lifts == Here.safe /\ from["x"] # to["x"]
        up == IF lifts THEN [from EXCEPT !["z"] = Max2(@, Min2(SafeZ, ZMax))] ELSE from
        across == IF lifts THEN [up EXCEPT !["x"] = to["x"]] ELSE from
        last == [across EXCEPT !["x"] = to["x"], !["z"] = IF z = Nothing THEN @ ELSE to["z"]] IN
    Leg(from, up) \o Leg(up, across) \o Leg(across, last)

\* handleTarget, to a point given by X and perhaps Z
Target(x, z) ==
    /\ Act
    /\ Here.targets /\ Commanded /\ sess.lead = 0
    /\ \/ /\ ~sess.after \/ Stale
          /\ RequestStatus
          /\ UNCHANGED loop
       \/ /\ sess.after /\ ~Stale
          /\ LET from == CommandAnchor
                 to == clampJogTarget(from, [a \in Axes |-> IF a = "x" THEN x
                                             ELSE IF z = Nothing THEN from[a] ELSE z[1]]) IN
             /\ to # from
             /\ loop' = [AtLoop EXCEPT !.at = "write", !.kind = "target",
                                       !.plan = from, !.todo = Legs(from, to, z), !.due = sess.lead]
          /\ UNCHANGED <<query, wire>>
    /\ UNCHANGED <<scene, mach, sess, input, capture, captured, stale>>

\* The machine rests at the position of the last status.
MayZero == sess.st.state = "Idle" /\ sess.lead = 0 /\ sess.after /\ ~Stale

\* handleOriginCommand
SetOrigin ==
    /\ Act
    /\ Here.origins /\ Commanded
    /\ \/ /\ MayZero
          /\ wire' = wire \o <<[op |-> "origin", seen |-> sess.st.pos], [op |-> "ask"]>>
       \/ /\ sess.st.state = "Idle" /\ sess.lead = 0 /\ ~MayZero
          /\ wire' = Append(wire, [op |-> "ask"])
    /\ query' = [at |-> "asked"]
    /\ UNCHANGED <<scene, mach, sess, loop, input, capture, captured, stale>>

-----------------------------------------------------------------------------
Next ==
    \/ TakeLine
    \/ \E why \in {"Hold", "Alarm"} : Stops(why)
    \/ Recovers
    \/ \E stalls \in BOOLEAN : Pass(stalls)
    \/ Arm \/ Disarm
    \/ \E in \in Here.inputs : SetInput(in)
    \/ CapturePosition \/ CaptureEnds
    \/ StatusTick \/ TakeStatus \/ StatusFails
    \/ SendLine \/ WriteReturns \/ WriteFails
    \/ MotionTick \/ Admit \/ TargetTick \/ TargetRetry
    \/ \E d \in Inputs \ {0} : Step(d)
    \/ \E x \in 0 .. Here.xmax + 1, z \in {Nothing} \cup {<<n>> : n \in 0 .. ZMax} : Target(x, z)
    \/ SetOrigin

Spec == Init /\ [][Next]_vars

(***************************************************************************)
(* Fairness.  Time passes, the machine reads its input and executes, a      *)
(* write returns, the ticker of 20 ms and the status ticker go on firing;   *)
(* between a failed query and its repetition (scheduleStatusRetry) there    *)
(* are several ticks.                                                       *)
(***************************************************************************)
Fairness ==
    /\ WF_vars(Pass(FALSE)) /\ WF_vars(TakeLine)
    /\ WF_vars(SendLine \/ WriteReturns \/ Admit)
    /\ SF_vars(TakeStatus) /\ SF_vars(TargetTick)
    /\ WF_vars(StatusTick \/ TargetRetry)

FairSpec == Spec /\ Fairness

-----------------------------------------------------------------------------
(* Properties                                                               *)

\* Where the machine is after each of these lines, and where it stops when it
\* has executed everything written to it
EndsOf(from, lines) ==
    LET end[n \in 0 .. Len(lines)] ==
            IF n = 0 THEN from
            ELSE IF lines[n].op = "jog" THEN LineEnd(end[n - 1], lines[n]) ELSE end[n - 1]
    IN  end
QueueEnds == EndsOf(EndOf(mach.pos, mach.queue), wire)
QueueEnd == QueueEnds[Len(wire)]

\* The sum of a sequence of numbers
Total(s) ==
    LET total[n \in 0 .. Len(s)] == IF n = 0 THEN 0 ELSE total[n - 1] + s[n]
    IN  total[Len(s)]

\* How long the machine goes on with what it has queued, and with what is
\* under way to it
QueueTime(queue) == Total([i \in DOMAIN queue |-> queue[i].left])
WireTime(lines) ==
    Total([i \in DOMAIN lines |-> IF lines[i].op = "jog" THEN lines[i].dur ELSE 0])

\* The end the session has in mind: the line being written counts.
Intended == IF loop.at = "sent" THEN Head(loop.todo) ELSE sess.planned

\* planned is "the end of the firmware queue" (applyStatusPayload): a status
\* that is older than it looks, or that shows a machine slower than predicted,
\* never moves it.  A line the machine refused breaks the tie until the next
\* settled status.
PlannedIsQueueEnd ==
    sess.armed /\ ~mach.refused => Intended = QueueEnd

\* No sequence of segments, steps and targets, each clamped on its own, ends
\* outside the learned soft limits: "eventually overrunning the firmware
\* planner and its soft limits" (motionTick).
SoftLimitsKept ==
    ~mach.refused => \A a \in Axes : QueueEnd[a] \in 0 .. LimitOf(a)

\* SetInput: "that in-flight segment observes the changed input after it
\* commits and no follow-up is admitted"; a change of direction "never causes
\* a second stale block" (motionTick).
OneStaleSegment == stale <= 1

\* A machine that keeps the predicted pace stops within the lookahead and one
\* segment of a release: "motionTick may append one block beyond it"
\* (jogSegmentDuration).
BoundedAhead ==
    ~Here.lags /\ ~Here.stops /\ ~Here.steps /\ ~Here.targets =>
        QueueTime(mach.queue) + WireTime(wire) <= Lookahead + SegDur

\* jogLeadTooLarge, "bounds commands by physical progress, not only by elapsed
\* wall time": what is queued ends within its limit of the machine's position.
\* (Not so: the check is skipped between samples.)
LeadIsBounded == \A a \in Axes : Abs(QueueEnd[a] - Position[a]) <= LeadLimit

\* CapturePosition returns "the endpoint at which the currently admitted jog
\* queue will stop", also when a segment is being written meanwhile.
CaptureIsQueueEnd ==
    captured # Nothing /\ ~mach.refused => captured[1] = QueueEnd

\* An origin command reaches a machine that rests at the position the session
\* has seen (handleOriginCommand), however late its statuses are.
OriginAtRest ==
    \A i \in DOMAIN wire :
        wire[i].op = "origin" /\ (\A j \in 1 .. i - 1 : wire[j].op # "jog")
            /\ mach.stop = "no" =>
                mach.queue = <<>> /\ mach.pos = wire[i].seen

\* target_complete is sent only when the machine rests at the target, and
\* target_not_reached only when it rests elsewhere (applyStatusPayload,
\* motionTick).
VerdictIsTrue ==
    sess.done # Nothing /\ loop.at = "loop" /\ mach.stop = "no" =>
        LET there == mach.queue = <<>> /\ mach.pos = sess.done[1].target IN
        IF sess.done[1].what = "complete" THEN there ELSE mach.queue = <<>> /\ ~there

\* With a safe Z a target move crosses only at that height or above
\* (handleTarget).
CrossesAboveSafeZ ==
    Here.safe /\ ~mach.refused => \A i \in DOMAIN mach.queue :
        LET from == IF i = 1 THEN mach.pos ELSE mach.queue[i - 1].to
            to == mach.queue[i].to IN
        from["x"] # to["x"] => from["z"] >= Min2(SafeZ, ZMax) /\ to["z"] >= Min2(SafeZ, ZMax)

\* A tap target does not block movement for ever: it is reached, given up, or
\* the lease ends (applyStatusPayload, motionTick).
TargetResolves == sess.pending # Nothing ~> sess.pending = Nothing

\* The position the session plans from, and the one a capture returns, are
\* where the machine will stop.
PlanIsTrue == PlannedIsQueueEnd /\ CaptureIsQueueEnd

\* What is queued keeps to the limits and the safe height, and the origin is
\* set only at rest.
MovesAreSafe == SoftLimitsKept /\ CrossesAboveSafeZ /\ OriginAtRest

\* A release or a change of direction is felt at once: at most one segment of
\* the old input follows, and little is queued ahead.
StopsInTime == OneStaleSegment /\ BoundedAhead

\* A tap target gets a verdict, and a true one.
TargetIsJudged == []VerdictIsTrue /\ TargetResolves

=============================================================================
