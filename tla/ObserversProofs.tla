--------------------------- MODULE ObserversProofs ---------------------------
(***************************************************************************)
(* Proofs about Observers, for any programs, markers, capacities and        *)
(* requests.                                                                *)
(***************************************************************************)
EXTENDS Observers, SequenceTheorems, WellFoundedInduction, TLAPS

-----------------------------------------------------------------------------
(* The invariants.                                                          *)

\* The player has a file exactly when the machine is in a state of a program.
PlayerInv == EndsRun(fw.state) <=> fw.file = None

\* Statuses wait in the order in which they were made: once a job is over, no
\* later status of it shows progress.
QueueInv ==
    /\ \A i \in DOMAIN statusQ :
         /\ EndsRun(statusQ[i].state) <=> statusQ[i].prog = NoProgress
         /\ statusQ[i].job <= fw.job
         /\ InStep => statusQ[i].job = fw.job
         /\ statusQ[i].job = fw.job /\ statusQ[i].prog = NoProgress => fw.file = None
    /\ \A i, k \in DOMAIN statusQ : i < k =>
         /\ statusQ[i].job <= statusQ[k].job
         /\ statusQ[i].job = statusQ[k].job /\ statusQ[i].prog = NoProgress
              => statusQ[k].prog = NoProgress

\* A list of runs as the history keeps it.
WellFormed(runs) ==
    /\ Len(runs) <= HistoryCap
    /\ \A i \in DOMAIN runs :
         /\ runs[i].active => i = Len(runs)
         /\ runs[i].active <=> runs[i].end = None
    /\ \A i, j \in DOMAIN runs : i < j => runs[i].id < runs[j].id

Sound(h) ==
    /\ h \in Histories /\ WellFormed(h.runs)
    /\ h.active \in {0, Len(h.runs)}
    /\ \A i \in DOMAIN h.runs : (h.runs[i].active <=> i = h.active) /\ h.runs[i].id < h.next
ShapeInv == Sound(hist) /\ backup \in Seq(Runs) /\ WellFormed(backup)

\* The job that plays is over, and nothing that is still to be read tells of it.
Over ==
    /\ fw.file = None /\ lineQ = <<>> /\ hist.hint = None
    /\ \A i \in DOMAIN statusQ : statusQ[i].prog = NoProgress

\* At most one run of each job; an ended one leaves no trace that starts another.
OfJobs(runs, job, over) ==
    /\ \A i \in DOMAIN runs :
         /\ runs[i].job <= job
         /\ runs[i].job = job /\ job # 0 /\ ~runs[i].active => over
    /\ \A i, j \in DOMAIN runs : i # j /\ runs[i].job = runs[j].job => runs[i].job = 0
JobInv == InStep => OfJobs(hist.runs, fw.job, Over) /\ OfJobs(backup, fw.job, Over)

\* No status of job j still tells of progress.
Past(j) ==
    /\ \A i \in DOMAIN statusQ : statusQ[i].job = j => statusQ[i].prog = NoProgress
    /\ fw.job = j => fw.file = None

Episodes(m) ==
    /\ m \in Monitors
    /\ m.active # 0 <=> KindFor(m.last, None) # ""
    /\ m.active # 0 =>
         /\ m.events[m.active].state = m.last
         /\ m.events[m.active].kind = "alarm" <=> m.last = "Alarm"
    /\ \A i \in DOMAIN m.events : m.events[i].active <=> i = m.active
    /\ m.active \in {0, Len(m.events)}
EpisodeInv == Episodes(att)

\* The markers that explain pauses of a job which is not over were passed.
MarkersOf(p) == IF p = None THEN <<>> ELSE Markers[p]
Before(next, p, marker) ==
    marker # None => \E k \in DOMAIN MarkersOf(p) : k < next /\ MarkersOf(p)[k] = marker
Passed(e) == Before(meta.next, path, e.marker)
MarkerInv ==
    LET e == att.events IN
    /\ meta.next # 0
    /\ \A i \in DOMAIN e :
         /\ e[i].job <= fw.job
         /\ \A k \in DOMAIN statusQ : e[i].job <= statusQ[k].job
         /\ EndsRun(meta.last) => Past(e[i].job)
    /\ "select" \notin scene.requests =>
         /\ path = scene.path
         /\ meta.path # path => e = <<>>
         /\ \A i \in DOMAIN e : Past(e[i].job) \/ Passed(e[i])
         /\ att.active # 0 /\ e[att.active].marker = None /\ att.last # "Alarm" =>
              \A i \in DOMAIN e : e[i].job = e[att.active].job => Passed(e[i])
         /\ MarkersGoForward

DeliveryInv ==
    /\ disp.replay => disp.listens
    /\ (disp.replay \/ ~disp.listens) => disp.sending = None
    /\ \A i \in DOMAIN disp.deliveries :
         disp.deliveries[i].kind # "test" =>
             <<disp.deliveries[i].kind, disp.deliveries[i].event>> \in disp.seen
    /\ NotifiedOnce /\ NoDeliveryStuck

IInv == TypeOK /\ PlayerInv /\ QueueInv /\ ShapeInv /\ JobInv /\ EpisodeInv /\ MarkerInv /\ DeliveryInv

-----------------------------------------------------------------------------
(* Sequences.                                                               *)

LEMMA TailIs ==
    ASSUME NEW S, NEW q \in Seq(S), q # <<>>
    PROVE  /\ Tail(q) \in Seq(S) /\ Head(q) = q[1] /\ q[1] \in S
           /\ Len(q) \in Nat \ {0} /\ Len(Tail(q)) = Len(q) - 1
           /\ DOMAIN q = 1 .. Len(q) /\ DOMAIN Tail(q) = 1 .. Len(q) - 1
           /\ \A i \in DOMAIN Tail(q) : i + 1 \in DOMAIN q /\ Tail(q)[i] = q[i + 1]
<1>1. Len(q) \in Nat \ {0} /\ DOMAIN q = 1 .. Len(q)
  BY EmptySeq, LenProperties
<1>2. Tail(q) \in Seq(S) /\ Len(Tail(q)) = Len(q) - 1
  BY HeadTailProperties
<1>3. DOMAIN Tail(q) = 1 .. Len(q) - 1
  BY <1>2, LenProperties
<1>4. \A i \in 1 .. Len(q) - 1 : Tail(q)[i] = q[i + 1]
  BY <1>2, HeadTailProperties
<1> QED BY <1>1, <1>2, <1>3, <1>4, HeadTailProperties

LEMMA AppendIs ==
    ASSUME NEW S, NEW q \in Seq(S), NEW e \in S
    PROVE  /\ Append(q, e) \in Seq(S) /\ Len(q) \in Nat /\ Len(Append(q, e)) = Len(q) + 1
           /\ DOMAIN q = 1 .. Len(q) /\ DOMAIN Append(q, e) = 1 .. Len(q) + 1
           /\ Append(q, e)[Len(q) + 1] = e
           /\ \A i \in DOMAIN q : q[i] \in S /\ Append(q, e)[i] = q[i]
<1>1. Append(q, e) \in Seq(S) /\ Len(Append(q, e)) = Len(q) + 1
  BY AppendProperties
<1>2. Len(q) \in Nat /\ DOMAIN q = 1 .. Len(q) /\ DOMAIN Append(q, e) = 1 .. Len(q) + 1
  BY <1>1, LenProperties
<1> QED BY <1>1, <1>2, AppendProperties, ElementOfSeq

\* r is the end of q.
EndOf(r, q) == \E d \in Nat : Len(r) + d = Len(q) /\ \A i \in DOMAIN r : i + d \in DOMAIN q /\ r[i] = q[i + d]

LEMMA NewestAs ==
    ASSUME NEW S, NEW q \in Seq(S), NEW cap \in Nat \ {0}, NEW r, r = Newest(q, cap)
    PROVE  /\ r \in Seq(S) /\ Len(r) \in Nat /\ Len(q) \in Nat /\ Len(r) <= cap
           /\ DOMAIN r = 1 .. Len(r) /\ DOMAIN q = 1 .. Len(q)
           /\ Len(r) = 0 <=> Len(q) = 0
           /\ EndOf(r, q)
<1>1. Len(q) \in Nat /\ DOMAIN q = 1 .. Len(q)
  BY LenProperties
<1>2. CASE Len(q) > cap
  <2> DEFINE d == Len(q) - cap
  <2>1. d \in Nat /\ r = SubSeq(q, d + 1, Len(q))
    BY <1>1, <1>2 DEF Newest
  <2>2. \A i \in d + 1 .. Len(q) : q[i] \in S
    BY <1>1, <2>1, ElementOfSeq
  <2>3. r \in Seq(S) /\ Len(r) = cap /\ \A i \in 1 .. cap : r[i] = q[i + d]
    <3>1. d + 1 \in Int /\ Len(q) \in Int /\ d + 1 <= Len(q) /\ Len(q) - (d + 1) + 1 = cap
      BY <1>1, <1>2, <2>1
    <3> HIDE DEF d
    <3>2. r \in Seq(S) /\ Len(r) = cap
      BY <2>1, <2>2, <3>1, SubSeqProperties
    <3>3. \A i \in 1 .. cap : r[i] = q[d + 1 + i - 1]
      BY <2>1, <2>2, <3>1, SubSeqProperties
    <3> QED BY <2>1, <3>2, <3>3
  <2>4. DOMAIN r = 1 .. cap
    BY <2>3, LenProperties
  <2>5. Len(r) + d = Len(q) /\ Len(r) = cap
    BY <1>1, <2>3
  <2>6. \A i \in DOMAIN r : i + d \in DOMAIN q /\ r[i] = q[i + d]
    BY <1>1, <1>2, <2>1, <2>3, <2>4
  <2>7. EndOf(r, q)
    <3> HIDE DEF d
    <3> QED BY <2>1, <2>5, <2>6 DEF EndOf
  <2>8. r \in Seq(S)
    BY <2>3
  <2>9. Len(r) = cap /\ cap \in Nat /\ cap # 0
    BY <2>5
  <2> HIDE DEF d
  <2>10. Len(r) = 0 <=> Len(q) = 0
    BY <1>1, <1>2, <2>9
  <2>11. Len(r) \in Nat /\ Len(r) <= cap /\ DOMAIN r = 1 .. Len(r)
    BY <2>4, <2>9
  <2> QED BY <1>1, <2>7, <2>8, <2>10, <2>11
<1>3. CASE ~(Len(q) > cap)
  <2>1. r = q
    BY <1>3 DEF Newest
  <2>2. Len(r) + 0 = Len(q) /\ \A i \in DOMAIN r : i + 0 \in DOMAIN q /\ r[i] = q[i + 0]
    <3>1. \A i \in DOMAIN q : i + 0 = i
      BY <1>1
    <3> QED BY <1>1, <2>1, <3>1
  <2>3. EndOf(r, q)
    <3> SUFFICES \E e \in Nat : Len(r) + e = Len(q) /\ \A i \in DOMAIN r : i + e \in DOMAIN q /\ r[i] = q[i + e]
      BY DEF EndOf
    <3> WITNESS 0 \in Nat
    <3> QED BY <2>2
  <2>4. r \in Seq(S) /\ Len(r) <= cap
    BY <1>1, <1>3, <2>1
  <2> QED BY <1>1, <2>1, <2>3, <2>4
<1> QED BY <1>1, <1>2, <1>3

\* Newest leaves out elements at the front.
LEMMA NewestIs ==
    ASSUME NEW S, NEW q \in Seq(S), NEW cap \in Nat \ {0}
    PROVE  /\ Newest(q, cap) \in Seq(S) /\ Len(Newest(q, cap)) \in Nat /\ Len(q) \in Nat /\ Len(Newest(q, cap)) <= cap
           /\ DOMAIN Newest(q, cap) = 1 .. Len(Newest(q, cap)) /\ DOMAIN q = 1 .. Len(q)
           /\ Len(Newest(q, cap)) = 0 <=> Len(q) = 0
           /\ EndOf(Newest(q, cap), q)
<1>1. PICK r : r = Newest(q, cap)
  OBVIOUS
<1>2. /\ r \in Seq(S) /\ Len(r) \in Nat /\ Len(q) \in Nat /\ Len(r) <= cap
      /\ DOMAIN r = 1 .. Len(r) /\ DOMAIN q = 1 .. Len(q)
      /\ Len(r) = 0 <=> Len(q) = 0
      /\ EndOf(r, q)
  BY <1>1, NewestAs
<1> QED BY <1>1, <1>2

-----------------------------------------------------------------------------
(* Types.                                                                   *)

LEMMA Caps == LastLine \in Nat \ {0} /\ StatusCap \in Nat \ {0} /\ ChangeCap \in Nat \ {0} /\ DeliveryCap \in Nat \ {0}
BY ObserversAssumption

LEMMA NoneIsNothing == None \notin Files /\ None \notin States /\ None \notin Nat
BY HistoryAssumption

\* Which actions change the player, the waiting statuses, the history, the
\* monitor and the dispatcher.
PlayerStep == (\E f \in Files : Play(f)) \/ Proceed \/ Interrupt
HistoryStep == ObserveStatus \/ ObserveLine \/ HintAges \/ ClearRunHistory \/ ExportBackup \/ ImportBackup
DispatchStep == SendTest \/ TestReturns \/ Subscribe \/ Replay \/ Dispatch \/ SendReturns

LEMMA StepCases ==
    ASSUME [Next]_vars
    PROVE  /\ scene' = scene
           /\ PlayerStep \/ UNCHANGED fw
           /\ PlayerStep \/ Observe \/ ObserveStatus \/ UNCHANGED statusQ
           /\ PlayerStep \/ ObserveLine \/ UNCHANGED lineQ
           /\ HistoryStep \/ UNCHANGED <<hist, backup>>
           /\ ObserveStatus \/ UNCHANGED <<att, meta>>
           /\ ObserveStatus \/ DispatchStep \/ UNCHANGED <<changeQ, gone>>
           /\ DispatchStep \/ UNCHANGED <<disp, tests>>
           /\ (\E f \in Files : "select" \in scene.requests /\ SetActivePath(f)) \/ UNCHANGED path
<1>1. CASE UNCHANGED vars
  BY <1>1 DEF vars
<1>2. CASE Request /\ UNCHANGED scene
  BY <1>2 DEF Request, HistoryStep, DispatchStep, ClearRunHistory, ExportBackup, ImportBackup, SendTest, SetActivePath, observed
<1>3. CASE PlayerStep /\ UNCHANGED scene
  BY <1>3 DEF PlayerStep, Play, Proceed, Interrupt, observed
<1>4. CASE (Observe \/ ObserveStatus \/ ObserveLine \/ HintAges) /\ UNCHANGED scene
  BY <1>4 DEF Observe, ObserveStatus, ObserveLine, HintAges, HistoryStep
<1>5. CASE (TestReturns \/ Subscribe \/ Replay \/ Dispatch \/ SendReturns) /\ UNCHANGED scene
  BY <1>5 DEF TestReturns, Subscribe, Replay, Dispatch, SendReturns, DispatchStep
<1> QED BY <1>1, <1>2, <1>3, <1>4, <1>5 DEF Next, Step, PlayerStep

LEMMA PlayerTyped ==
    ASSUME TypeOK, PlayerStep
    PROVE  fw' \in Players /\ lineQ' \in Seq(Files)
<1>1. /\ fw \in Players /\ fw.state \in States /\ fw.file \in Paths /\ fw.line \in 0 .. LastLine
      /\ fw.job \in Nat /\ fw.holds \in Nat /\ lineQ \in Seq(Files) /\ LastLine \in Nat \ {0}
  BY Caps DEF TypeOK, Players
<1>2. CASE \E f \in Files : Play(f)
  <2>1. PICK f \in Files : Play(f)
    BY <1>2
  <2>2. lineQ' \in Seq(Files)
    BY <1>1, <2>1, AppendProperties DEF Play
  <2>3. PICK s \in {"Tool", "Run"} : fw' = [fw EXCEPT !.state = s, !.file = f, !.line = 0, !.job = @ + 1]
    BY <2>1 DEF Play
  <2>4. fw' = [state |-> s, file |-> f, line |-> 0, job |-> fw.job + 1, holds |-> fw.holds]
    BY <1>1, <2>3 DEF Players
  <2>5. s \in States /\ f \in Paths /\ 0 \in 0 .. LastLine /\ fw.job + 1 \in Nat
    BY <1>1 DEF States, Paths
  <2>6. fw' \in Players
    BY <1>1, <2>4, <2>5 DEF Players
  <2> QED BY <2>2, <2>6
<1>3. CASE Proceed
  <2>1. lineQ' \in Seq(Files)
    BY <1>1, <1>3 DEF Proceed, observed
  <2>2. \E s \in States, f \in Paths, n \in 0 .. LastLine : fw' = [fw EXCEPT !.state = s, !.file = f, !.line = n]
    <3>1. {"Run", "Wait", "Idle"} \subseteq States /\ None \in Paths /\ 0 \in 0 .. LastLine
      BY <1>1 DEF States, Paused, Paths
    <3>2. CASE fw.state # "Run"
      <4>0. fw' = [fw EXCEPT !.state = "Run"]
        BY <1>3, <3>2 DEF Proceed
      <4>1. fw' = [fw EXCEPT !.state = "Run", !.file = fw.file, !.line = fw.line]
        BY <1>1, <4>0 DEF Players
      <4> QED BY <1>1, <3>1, <4>1
    <3>3. CASE fw.state = "Run" /\ fw.line = LastLine
      <4>1. fw' = [fw EXCEPT !.state = "Idle", !.file = None, !.line = 0]
        BY <1>1, <1>3, <3>3 DEF Proceed
      <4> QED BY <3>1, <4>1
    <3>4. CASE fw.state = "Run" /\ fw.line # LastLine
      <4>1. fw.line + 1 \in 0 .. LastLine
        BY <1>1, <3>4
      <4>2. PICK s \in {"Run", "Wait"} : fw' = [fw EXCEPT !.line = @ + 1, !.state = s]
        BY <1>3, <3>4 DEF Proceed
      <4>3. fw' = [fw EXCEPT !.state = s, !.file = fw.file, !.line = fw.line + 1]
        BY <1>1, <4>2 DEF Players
      <4> QED BY <1>1, <3>1, <4>1, <4>3
    <3> QED BY <3>2, <3>3, <3>4
  <2>3. fw' \in Players
    BY <1>1, <2>2 DEF Players
  <2> QED BY <2>1, <2>3
<1>4. CASE Interrupt
  <2>1. lineQ' \in Seq(Files)
    BY <1>1, <1>4 DEF Interrupt, observed
  <2>2. \E s \in States, f \in Paths, n \in 0 .. LastLine, h \in Nat :
          fw' = [fw EXCEPT !.state = s, !.file = f, !.line = n, !.holds = h]
    <3>1. {"Pause", "Hold", "Alarm", "Idle"} \subseteq States /\ None \in Paths /\ 0 \in 0 .. LastLine /\ fw.holds + 1 \in Nat
      BY <1>1 DEF States, Paused, Paths
    <3>2. CASE fw.state = "Alarm"
      <4>1. fw' = [fw EXCEPT !.state = "Idle", !.file = fw.file, !.line = fw.line, !.holds = fw.holds]
        BY <1>1, <1>4, <3>2 DEF Interrupt, Players
      <4> QED BY <1>1, <3>1, <4>1
    <3>3. ASSUME NEW s \in {"Pause", "Hold"}, fw' = [fw EXCEPT !.state = s, !.holds = @ + 1] PROVE \E t \in States, f \in Paths, n \in 0 .. LastLine, h \in Nat : fw' = [fw EXCEPT !.state = t, !.file = f, !.line = n, !.holds = h]
      <4>1. fw' = [fw EXCEPT !.state = s, !.file = fw.file, !.line = fw.line, !.holds = fw.holds + 1]
        BY <1>1, <3>3 DEF Players
      <4> QED BY <1>1, <3>1, <4>1
    <3>4. CASE fw' = [fw EXCEPT !.state = "Alarm", !.file = None, !.line = 0, !.holds = @ + 1]
      <4>1. fw' = [fw EXCEPT !.state = "Alarm", !.file = None, !.line = 0, !.holds = fw.holds + 1]
        BY <1>1, <3>4 DEF Players
      <4> QED BY <1>1, <3>1, <4>1
    <3> QED BY <1>4, <3>2, <3>3, <3>4 DEF Interrupt
  <2>3. fw' \in Players
    BY <1>1, <2>2 DEF Players
  <2> QED BY <2>1, <2>3
<1> QED BY <1>2, <1>3, <1>4 DEF PlayerStep

\* A step of the player leaves the waiting statuses alone.
LEMMA PlayerQuiet == PlayerStep => UNCHANGED <<path, statusQ, hist, backup, meta, att, changeQ, disp, tests, gone>>
BY DEF PlayerStep, Play, Proceed, Interrupt, observed

\* The status that is made now.
Now == [state |-> fw.state, job |-> fw.job, prog |-> IF fw.file = None THEN NoProgress ELSE fw.line]

LEMMA ObserveEffect ==
    ASSUME TypeOK, Observe
    PROVE  /\ Now \in Statuses
           /\ statusQ' = statusQ \/ statusQ' = Append(statusQ, Now)
           /\ statusQ' \in Seq(Statuses) /\ Len(statusQ') <= StatusCap
<1>1. /\ fw.state \in States /\ fw.line \in 0 .. LastLine /\ fw.job \in Nat /\ statusQ \in Seq(Statuses) /\ Len(statusQ) <= StatusCap
      /\ StatusCap \in Nat /\ LastLine \in Nat
  BY Caps DEF TypeOK, Players
<1>2. Now \in Statuses
  BY <1>1 DEF Now, Statuses, NoProgress
<1>3. statusQ' = IF Len(statusQ) < StatusCap THEN Append(statusQ, Now) ELSE statusQ
  BY DEF Observe, Now
<1> HIDE DEF Now
<1> QED BY <1>1, <1>2, <1>3, AppendIs

\* A status is taken from the queue.
LEMMA TakeEffect ==
    ASSUME TypeOK, ObserveStatus
    PROVE  /\ statusQ \in Seq(Statuses) /\ statusQ # <<>> /\ statusQ' = Tail(statusQ)
           /\ Head(statusQ) = statusQ[1] /\ statusQ[1] \in Statuses
           /\ statusQ' \in Seq(Statuses) /\ Len(statusQ') <= StatusCap
<1>1. /\ statusQ \in Seq(Statuses) /\ statusQ # <<>> /\ statusQ' = Tail(statusQ) /\ Len(statusQ) <= StatusCap /\ StatusCap \in Nat
  BY Caps DEF TypeOK, ObserveStatus
<1> QED BY <1>1, TailIs

\* A step of the player begins a job, or goes on with the one it has.
LEMMA PlayerEffect ==
    ASSUME TypeOK, PlayerInv, PlayerStep
    PROVE  /\ EndsRun(fw'.state) <=> fw'.file = None
           /\ \/ fw'.job = fw.job + 1 /\ (InStep => statusQ = <<>>)
              \/ fw'.job = fw.job /\ lineQ' = lineQ /\ (fw.file = None => fw'.file = None)
<1>1. fw \in Players /\ (EndsRun(fw.state) <=> fw.file = None)
  BY DEF TypeOK, PlayerInv
<1>2. CASE \E f \in Files : Play(f)
  <2>1. PICK f \in Files : Play(f)
    BY <1>2
  <2>2. PICK s \in {"Tool", "Run"} : fw' = [fw EXCEPT !.state = s, !.file = f, !.line = 0, !.job = @ + 1]
    BY <2>1 DEF Play
  <2>3. fw'.state = s /\ fw'.file = f /\ fw'.job = fw.job + 1
    BY <1>1, <2>2 DEF Players
  <2>4. ~EndsRun(s) /\ f # None
    BY NoneIsNothing DEF EndsRun
  <2>5. InStep => statusQ = <<>>
    BY <2>1 DEF Play
  <2> QED BY <2>3, <2>4, <2>5
<1>3. CASE Proceed
  <2>1. fw.file # None /\ lineQ' = lineQ
    BY <1>3 DEF Proceed, observed
  <2>2. CASE fw.state # "Run"
    <3>1. fw' = [fw EXCEPT !.state = "Run"]
      BY <1>3, <2>2 DEF Proceed
    <3>2. fw'.state = "Run" /\ fw'.file = fw.file /\ fw'.job = fw.job
      BY <1>1, <3>1 DEF Players
    <3> QED BY <2>1, <3>2 DEF EndsRun
  <2>3. CASE fw.state = "Run" /\ fw.line = LastLine
    <3>1. fw' = [fw EXCEPT !.state = "Idle", !.file = None, !.line = 0]
      BY <1>1, <1>3, <2>3, Caps DEF Proceed, Players
    <3>2. fw'.state = "Idle" /\ fw'.file = None /\ fw'.job = fw.job
      BY <1>1, <3>1 DEF Players
    <3> QED BY <2>1, <3>2 DEF EndsRun
  <2>4. CASE fw.state = "Run" /\ fw.line # LastLine
    <3>1. PICK s \in {"Run", "Wait"} : fw' = [fw EXCEPT !.line = @ + 1, !.state = s]
      BY <1>3, <2>4 DEF Proceed
    <3>2. fw'.state = s /\ fw'.file = fw.file /\ fw'.job = fw.job
      BY <1>1, <3>1 DEF Players
    <3> QED BY <2>1, <3>2 DEF EndsRun
  <2> QED BY <2>2, <2>3, <2>4
<1>4. CASE Interrupt
  <2>1. lineQ' = lineQ
    BY <1>4 DEF Interrupt, observed
  <2>2. CASE fw.state = "Alarm"
    <3>1. fw' = [fw EXCEPT !.state = "Idle"]
      BY <1>4, <2>2 DEF Interrupt
    <3>2. fw'.state = "Idle" /\ fw'.file = fw.file /\ fw'.job = fw.job
      BY <1>1, <3>1 DEF Players
    <3> QED BY <1>1, <2>1, <2>2, <3>2 DEF EndsRun
  <2>3. ASSUME NEW s \in {"Pause", "Hold"}, fw' = [fw EXCEPT !.state = s, !.holds = @ + 1], fw.file # None
        PROVE  /\ EndsRun(fw'.state) <=> fw'.file = None
               /\ fw'.job = fw.job /\ (fw.file = None => fw'.file = None)
    <3>1. fw'.state = s /\ fw'.file = fw.file /\ fw'.job = fw.job
      BY <1>1, <2>3 DEF Players
    <3> QED BY <2>3, <3>1 DEF EndsRun
  <2>4. CASE fw' = [fw EXCEPT !.state = "Alarm", !.file = None, !.line = 0, !.holds = @ + 1]
    <3>1. fw'.state = "Alarm" /\ fw'.file = None /\ fw'.job = fw.job
      BY <1>1, <2>4 DEF Players
    <3> QED BY <2>1, <3>1 DEF EndsRun
  <2> QED BY <1>4, <2>1, <2>2, <2>3, <2>4 DEF Interrupt
<1> QED BY <1>2, <1>3, <1>4 DEF PlayerStep

-----------------------------------------------------------------------------
(* The order of statuses.                                                   *)

LEMMA QueueKept ==
    ASSUME TypeOK, PlayerInv, QueueInv, [Next]_vars
    PROVE  PlayerInv' /\ QueueInv'
<1> DEFINE q == statusQ
<1>1. /\ q \in Seq(Statuses) /\ DOMAIN q = 1 .. Len(q) /\ Len(q) \in Nat
      /\ \A i \in DOMAIN q : q[i] \in Statuses /\ q[i].job \in Nat
  <2>1. q \in Seq(Statuses)
    BY DEF TypeOK
  <2>2. \A i \in DOMAIN q : q[i] \in Statuses
    BY <2>1, ElementOfSeq, LenProperties
  <2> QED BY <2>1, <2>2, LenProperties DEF Statuses
<1>2. fw.job \in Nat
  BY DEF TypeOK, Players
<1>3. CASE PlayerStep
  <2>1. q' = q
    BY <1>3, PlayerQuiet
  <2>2. PlayerInv'
    BY <1>3, PlayerEffect DEF PlayerInv, EndsRun
  <2>3. CASE fw'.job = fw.job + 1 /\ (InStep => q = <<>>)
    <3>1. InStep => DOMAIN q = {}
      BY <2>3
    <3> QED BY <1>1, <1>2, <2>1, <2>2, <2>3, <3>1 DEF QueueInv, EndsRun
  <2>4. CASE fw'.job = fw.job /\ (fw.file = None => fw'.file = None)
    BY <1>1, <1>2, <2>1, <2>2, <2>4 DEF QueueInv, EndsRun
  <2> QED BY <1>3, <2>3, <2>4, PlayerEffect
<1>4. CASE ~PlayerStep /\ Observe
  <2>1. fw' = fw /\ PlayerInv'
    BY <1>4, StepCases DEF PlayerInv, EndsRun
  <2>2. CASE q' = q
    BY <2>1, <2>2 DEF QueueInv, EndsRun
  <2>3. CASE q' = Append(q, Now)
    <3>1. Now \in Statuses /\ Now.job = fw.job /\ (Now.prog = NoProgress <=> fw.file = None) /\ Now.state = fw.state
      <4>1. Now \in Statuses
        BY <1>4, ObserveEffect
      <4>2. fw.line \in Nat
        BY Caps DEF TypeOK, Players
      <4> QED BY <4>1, <4>2 DEF Now, NoProgress
    <3> HIDE DEF q
    <3>2. /\ DOMAIN q' = 1 .. Len(q) + 1 /\ q'[Len(q) + 1] = Now
          /\ \A i \in DOMAIN q : q'[i] = q[i]
      BY <1>1, <2>3, <3>1, AppendIs
    <3>3. \A i \in DOMAIN q' : i \in DOMAIN q \/ i = Len(q) + 1
      BY <1>1, <3>2
    <3>4. EndsRun(Now.state) <=> Now.prog = NoProgress
      BY <3>1 DEF PlayerInv
    <3>5. \A i \in DOMAIN q' :
            /\ EndsRun(q'[i].state) <=> q'[i].prog = NoProgress
            /\ q'[i].job <= fw.job
            /\ InStep => q'[i].job = fw.job
            /\ q'[i].job = fw.job /\ q'[i].prog = NoProgress => fw.file = None
      <4> SUFFICES ASSUME NEW i \in DOMAIN q'
                   PROVE  /\ EndsRun(q'[i].state) <=> q'[i].prog = NoProgress
                          /\ q'[i].job <= fw.job
                          /\ InStep => q'[i].job = fw.job
                          /\ q'[i].job = fw.job /\ q'[i].prog = NoProgress => fw.file = None
        OBVIOUS
      <4>1. CASE i \in DOMAIN q
        BY <3>2, <4>1 DEF QueueInv, q
      <4>2. CASE i = Len(q) + 1
        BY <1>2, <3>1, <3>2, <3>4, <4>2
      <4> QED BY <3>3, <4>1, <4>2
    <3>6. ASSUME NEW i \in DOMAIN q', NEW k \in DOMAIN q', i < k
          PROVE  /\ q'[i].job <= q'[k].job
                 /\ q'[i].job = q'[k].job /\ q'[i].prog = NoProgress => q'[k].prog = NoProgress
      <4>1. i \in DOMAIN q
        BY <1>1, <3>2, <3>6
      <4>2. CASE k \in DOMAIN q
        BY <3>2, <3>6, <4>1, <4>2 DEF QueueInv, q
      <4>3. CASE k = Len(q) + 1
        BY <3>1, <3>2, <4>1, <4>3 DEF QueueInv, q
      <4> QED BY <3>3, <4>2, <4>3
    <3> QED BY <2>1, <3>5, <3>6 DEF QueueInv, q, EndsRun
  <2> QED BY <1>4, <2>2, <2>3, ObserveEffect
<1>5. CASE ~PlayerStep /\ ObserveStatus
  <2>1. fw' = fw /\ PlayerInv' /\ q' = Tail(q) /\ q # <<>>
    BY <1>5, StepCases, TakeEffect DEF PlayerInv, EndsRun
  <2> HIDE DEF q
  <2>2. /\ DOMAIN q' = 1 .. Len(q) - 1
        /\ \A i \in DOMAIN q' : i + 1 \in DOMAIN q /\ q'[i] = q[i + 1]
    BY <1>1, <2>1, TailIs
  <2>3. \A i, k \in DOMAIN q' : i < k => i + 1 < k + 1
    BY <1>1, <2>2
  <2> QED BY <2>1, <2>2, <2>3 DEF QueueInv, q, EndsRun
<1>6. CASE UNCHANGED <<fw, statusQ>>
  BY <1>6 DEF PlayerInv, QueueInv, EndsRun
<1> QED BY <1>3, <1>4, <1>5, <1>6, StepCases

-----------------------------------------------------------------------------
(* The run history.                                                         *)

LEMMA RunsAre ==
    ASSUME NEW runs \in Seq(Runs)
    PROVE  /\ Len(runs) \in Nat /\ DOMAIN runs = 1 .. Len(runs)
           /\ \A i \in DOMAIN runs : runs[i] \in Runs /\ runs[i].id \in Nat /\ runs[i].job \in Nat /\ runs[i].active \in BOOLEAN
<1>1. Len(runs) \in Nat /\ DOMAIN runs = 1 .. Len(runs)
  BY LenProperties
<1>2. \A i \in DOMAIN runs : runs[i] \in Runs
  BY <1>1, ElementOfSeq
<1> QED BY <1>1, <1>2 DEF Runs

\* A run is appended, the oldest may go.
LEMMA StartIs ==
    ASSUME NEW h, Sound(h), h.active = 0, NEW st \in Statuses, NEW g, g = StartRun(h, st)
    PROVE  /\ Sound(g) /\ g.active # 0 /\ g.hint \in {h.hint, None}
           /\ \E d \in Nat : \A i \in DOMAIN g.runs :
                \/ i # g.active /\ i + d \in DOMAIN h.runs /\ g.runs[i] = h.runs[i + d]
                \/ i = g.active /\ g.runs[i].job = st.job
<1> DEFINE file == IF h.fresh THEN h.hint ELSE None
<1> DEFINE run == [id |-> h.next, file |-> file, active |-> TRUE, end |-> None, job |-> st.job]
<1> DEFINE all == Append(h.runs, run)
<1> DEFINE r == Newest(all, HistoryCap)
<1>1. /\ h.runs \in Seq(Runs) /\ h.next \in Nat /\ h.hint \in Paths /\ h.fresh \in BOOLEAN /\ st.job \in Nat
      /\ h = [runs |-> h.runs, next |-> h.next, active |-> h.active, hint |-> h.hint, fresh |-> h.fresh]
  BY DEF Sound, Histories, Statuses
<1>2. run \in Runs /\ run.id = h.next /\ run.active = TRUE /\ run.end = None /\ run.job = st.job /\ file \in {h.hint, None} /\ file \in Paths
  BY <1>1 DEF Runs, Paths
<1>3. g = [runs |-> r, next |-> h.next + 1, active |-> Len(r), hint |-> file, fresh |-> h.fresh]
  BY <1>1 DEF StartRun
<1> HIDE DEF run, file
<1>4. /\ all \in Seq(Runs) /\ Len(h.runs) \in Nat /\ Len(all) = Len(h.runs) + 1
      /\ DOMAIN h.runs = 1 .. Len(h.runs) /\ DOMAIN all = 1 .. Len(h.runs) + 1
      /\ all[Len(h.runs) + 1] = run /\ \A i \in DOMAIN h.runs : all[i] = h.runs[i]
  BY <1>1, <1>2, AppendIs
<1>r. r = Newest(all, HistoryCap) /\ HistoryCap \in Nat \ {0}
  BY HistoryAssumption
<1> HIDE DEF all, r
<1>5. /\ r \in Seq(Runs) /\ Len(r) \in Nat /\ Len(r) <= HistoryCap /\ DOMAIN r = 1 .. Len(r) /\ Len(r) # 0
      /\ EndOf(r, all)
  <2>1. Len(all) # 0
    BY <1>4
  <2>2. all \in Seq(Runs)
    BY <1>4
  <2>3. /\ r \in Seq(Runs) /\ Len(r) \in Nat /\ Len(r) <= HistoryCap /\ DOMAIN r = 1 .. Len(r) /\ (Len(r) = 0 <=> Len(all) = 0)
        /\ EndOf(r, all)
    BY <1>r, <2>2, NewestIs
  <2> QED BY <2>1, <2>3
<1>6. PICK d \in Nat : Len(r) + d = Len(h.runs) + 1 /\ \A i \in DOMAIN r : i + d \in DOMAIN all /\ r[i] = all[i + d]
  BY <1>4, <1>5 DEF EndOf
<1>7. \A i \in DOMAIN r : i # Len(r) => i + d \in DOMAIN h.runs /\ r[i] = h.runs[i + d]
  <2> SUFFICES ASSUME NEW i \in DOMAIN r, i # Len(r) PROVE i + d \in DOMAIN h.runs /\ r[i] = h.runs[i + d]
    OBVIOUS
  <2>1. i + d \in DOMAIN h.runs
    BY <1>4, <1>5, <1>6
  <2> QED BY <1>4, <1>6, <2>1
<1>8. Len(r) \in DOMAIN r /\ r[Len(r)] = run
  BY <1>4, <1>5, <1>6
<1>9. /\ g.runs = r /\ g.active = Len(r) /\ g.next = h.next + 1 /\ g.hint = file
      /\ g \in Histories
  BY <1>1, <1>2, <1>3, <1>5 DEF Histories
<1>10. \A i \in DOMAIN h.runs : ~h.runs[i].active /\ h.runs[i].id < h.next /\ h.runs[i].end # None
  BY <1>4 DEF Sound, WellFormed
<1>11. \A i \in DOMAIN r : (r[i].active <=> i = Len(r)) /\ r[i].id < h.next + 1 /\ (r[i].active <=> r[i].end = None)
  <2>1. \A i \in DOMAIN h.runs : h.runs[i].id \in Nat
    BY <1>1, RunsAre
  <2> QED BY <1>1, <1>2, <1>7, <1>8, <1>10, <2>1
<1>12. ASSUME NEW i \in DOMAIN r, NEW j \in DOMAIN r, i < j PROVE r[i].id < r[j].id
  <2>1. i # Len(r) /\ i + d < j + d
    BY <1>5, <1>12
  <2>2. CASE j = Len(r)
    BY <1>2, <1>7, <1>8, <1>10, <2>1, <2>2
  <2>3. CASE j # Len(r)
    BY <1>7, <2>1, <2>3 DEF Sound, WellFormed
  <2> QED BY <2>2, <2>3
<1>13. Sound(g)
  BY <1>5, <1>9, <1>11, <1>12 DEF Sound, WellFormed
<1>14. \A i \in DOMAIN g.runs :
         \/ i # g.active /\ i + d \in DOMAIN h.runs /\ g.runs[i] = h.runs[i + d]
         \/ i = g.active /\ g.runs[i].job = st.job
  BY <1>2, <1>7, <1>8, <1>9
<1> QED BY <1>2, <1>5, <1>9, <1>13, <1>14

\* The active run ends.
LEMMA EndIs ==
    ASSUME NEW h, Sound(h), h.active # 0, NEW st \in Statuses, NEW g, g = EndRun(h, st)
    PROVE  /\ Sound(g) /\ g.active = 0 /\ g.hint = None /\ DOMAIN g.runs = DOMAIN h.runs
           /\ \A i \in DOMAIN h.runs : /\ g.runs[i].job = h.runs[i].job
                                       /\ i # h.active => g.runs[i] = h.runs[i]
<1> DEFINE r == [h.runs EXCEPT ![h.active] = [@ EXCEPT !.active = FALSE, !.end = st.state]]
<1>1. /\ h.runs \in Seq(Runs) /\ h.next \in Nat /\ st.state \in States
      /\ h = [runs |-> h.runs, next |-> h.next, active |-> h.active, hint |-> h.hint, fresh |-> h.fresh]
  BY DEF Sound, Histories, Statuses
<1>2. /\ DOMAIN h.runs = 1 .. Len(h.runs) /\ Len(h.runs) \in Nat /\ h.active \in DOMAIN h.runs /\ h.active = Len(h.runs)
      /\ \A i \in DOMAIN h.runs : h.runs[i] \in Runs
  BY <1>1, RunsAre DEF Sound
<1>3. g = [runs |-> r, next |-> h.next, active |-> 0, hint |-> None, fresh |-> FALSE]
  BY <1>1 DEF EndRun
<1>4. /\ r[h.active] \in Runs /\ r[h.active].active = FALSE /\ r[h.active].end = st.state
      /\ r[h.active].id = h.runs[h.active].id /\ r[h.active].job = h.runs[h.active].job
  BY <1>1, <1>2 DEF Runs
<1>5. /\ DOMAIN r = DOMAIN h.runs
      /\ \A i \in DOMAIN h.runs : i # h.active => r[i] = h.runs[i]
  OBVIOUS
<1>6. r \in Seq(Runs) /\ Len(r) = Len(h.runs)
  <2>1. r \in [DOMAIN h.runs -> Runs]
    BY <1>2, <1>4, <1>5
  <2> HIDE DEF r
  <2> QED BY <1>1, <1>2, <1>5, <2>1
<1> HIDE DEF r
<1>7. g.runs = r /\ g.active = 0 /\ g.next = h.next /\ g.hint = None /\ g \in Histories
  BY <1>1, <1>3, <1>6 DEF Histories, Paths
<1>8. \A i \in DOMAIN r : ~r[i].active /\ r[i].end # None /\ r[i].id = h.runs[i].id
  <2>1. \A i \in DOMAIN h.runs : i # h.active => ~h.runs[i].active /\ h.runs[i].end # None
    BY DEF Sound, WellFormed
  <2> QED BY <1>1, <1>2, <1>4, <1>5, <2>1, NoneIsNothing
<1>9. Sound(g)
  <2>1. /\ Len(h.runs) <= HistoryCap
        /\ \A i \in DOMAIN h.runs : h.runs[i].id < h.next
        /\ \A i, j \in DOMAIN h.runs : i < j => h.runs[i].id < h.runs[j].id
    BY DEF Sound, WellFormed
  <2>2. \A i \in DOMAIN r : i # 0
    BY <1>2, <1>5
  <2> QED BY <1>5, <1>6, <1>7, <1>8, <2>1, <2>2 DEF Sound, WellFormed
<1> QED BY <1>2, <1>4, <1>5, <1>7, <1>9

\* A play line gives the next run, or the active one, its file.
LEMMA LineIs ==
    ASSUME NEW h, Sound(h), NEW f \in Files, NEW g, g = HistoryLine(h, f)
    PROVE  /\ Sound(g) /\ DOMAIN g.runs = DOMAIN h.runs
           /\ \A i \in DOMAIN h.runs : g.runs[i].job = h.runs[i].job /\ g.runs[i].active = h.runs[i].active
<1>1. /\ h.runs \in Seq(Runs) /\ h.next \in Nat /\ h.active \in Nat /\ f \in Paths
      /\ h = [runs |-> h.runs, next |-> h.next, active |-> h.active, hint |-> h.hint, fresh |-> h.fresh]
  BY DEF Sound, Histories, Paths
<1>2. CASE h.active = 0 \/ h.runs[h.active].file # None
  <2>1. g = [runs |-> h.runs, next |-> h.next, active |-> h.active, hint |-> f, fresh |-> TRUE]
    BY <1>1, <1>2 DEF HistoryLine
  <2>2. g \in Histories /\ g.runs = h.runs /\ g.active = h.active /\ g.next = h.next
    BY <1>1, <2>1 DEF Histories
  <2> QED BY <2>2 DEF Sound
<1>3. CASE h.active # 0 /\ h.runs[h.active].file = None
  <2> DEFINE r == [h.runs EXCEPT ![h.active] = [@ EXCEPT !.file = f]]
  <2>1. g = [runs |-> r, next |-> h.next, active |-> h.active, hint |-> f, fresh |-> TRUE]
    BY <1>1, <1>3 DEF HistoryLine
  <2>2. /\ DOMAIN h.runs = 1 .. Len(h.runs) /\ Len(h.runs) \in Nat /\ h.active \in DOMAIN h.runs
        /\ \A i \in DOMAIN h.runs : h.runs[i] \in Runs
    BY <1>1, <1>3, RunsAre DEF Sound
  <2>3. /\ r[h.active] \in Runs /\ r[h.active].active = h.runs[h.active].active /\ r[h.active].end = h.runs[h.active].end
        /\ r[h.active].id = h.runs[h.active].id /\ r[h.active].job = h.runs[h.active].job
    BY <1>1, <2>2 DEF Runs
  <2>4. /\ DOMAIN r = DOMAIN h.runs
        /\ \A i \in DOMAIN h.runs : i # h.active => r[i] = h.runs[i]
    OBVIOUS
  <2>5. r \in Seq(Runs) /\ Len(r) = Len(h.runs)
    <3>1. r \in [DOMAIN h.runs -> Runs]
      BY <2>2, <2>3, <2>4
    <3> HIDE DEF r
    <3> QED BY <1>1, <2>2, <2>4, <3>1
  <2>6. \A i \in DOMAIN r : /\ r[i].active = h.runs[i].active /\ r[i].end = h.runs[i].end
                            /\ r[i].id = h.runs[i].id /\ r[i].job = h.runs[i].job
    <3> HIDE DEF r
    <3> QED BY <2>3, <2>4
  <2> HIDE DEF r
  <2>7. g.runs = r /\ g.active = h.active /\ g.next = h.next /\ g \in Histories
    BY <1>1, <2>1, <2>5 DEF Histories
  <2>8. Sound(g)
    BY <2>4, <2>5, <2>6, <2>7 DEF Sound, WellFormed
  <2> QED BY <2>4, <2>6, <2>7, <2>8
<1> QED BY <1>2, <1>3

\* The runs of a backup become the history.
LEMMA ReplaceIs ==
    ASSUME NEW h, Sound(h), NEW r \in Seq(Runs), WellFormed(r), NEW g, g = HistoryReplace(h, r)
    PROVE  Sound(g) /\ g.runs = r /\ g.hint = h.hint
<1> DEFINE active == {i \in DOMAIN r : r[i].active}
<1> DEFINE Last(set) == CHOOSE i \in set : \A j \in set : j <= i
<1> DEFINE ids == {r[i].id : i \in DOMAIN r}
<1> DEFINE n == IF r = <<>> THEN 1 ELSE Last(ids) + 1
<1> DEFINE a == IF active = {} THEN 0 ELSE Last(active)
<1>1. /\ h.next \in Nat /\ h.hint \in Paths /\ h.fresh \in BOOLEAN
      /\ h = [runs |-> h.runs, next |-> h.next, active |-> h.active, hint |-> h.hint, fresh |-> h.fresh]
  BY DEF Sound, Histories
<1>2. Len(r) \in Nat /\ DOMAIN r = 1 .. Len(r) /\ \A i \in DOMAIN r : r[i].id \in Nat /\ r[i].active \in BOOLEAN
  BY RunsAre
<1>3. g = [runs |-> r, next |-> n, active |-> a, hint |-> h.hint, fresh |-> h.fresh]
  BY <1>1 DEF HistoryReplace
<1>4. n \in Nat /\ \A i \in DOMAIN r : r[i].id < n
  <2>1. CASE r = <<>>
    BY <1>2, <2>1
  <2>2. CASE r # <<>>
    <3>1. Len(r) \in DOMAIN r
      BY <1>2, <2>2, EmptySeq
    <3>2. r[Len(r)].id \in ids /\ \A j \in ids : j <= r[Len(r)].id
      <4>1. \A i \in DOMAIN r : r[i].id <= r[Len(r)].id
        <5> SUFFICES ASSUME NEW i \in DOMAIN r PROVE r[i].id <= r[Len(r)].id
          OBVIOUS
        <5>1. CASE i = Len(r)
          BY <1>2, <5>1
        <5>2. CASE i # Len(r)
          <6>1. i < Len(r)
            BY <1>2, <5>2
          <6>2. r[i].id < r[Len(r)].id
            BY <3>1, <6>1 DEF WellFormed
          <6> QED BY <1>2, <3>1, <6>2
        <5> QED BY <5>1, <5>2
      <4> QED BY <3>1, <4>1
    <3>3. Last(ids) \in ids /\ \A j \in ids : j <= Last(ids)
      <4> HIDE DEF ids
      <4> QED BY <3>2
    <3>4. n = Last(ids) + 1 /\ Last(ids) \in Nat
      BY <1>2, <2>2, <3>3
    <3>5. \A i \in DOMAIN r : r[i].id <= Last(ids)
      BY <3>3
    <3> HIDE DEF Last, ids, n
    <3> QED BY <1>2, <3>4, <3>5
  <2> QED BY <2>1, <2>2
<1>5. a \in {0, Len(r)} /\ \A i \in DOMAIN r : r[i].active <=> i = a
  <2>1. CASE active = {}
    BY <1>2, <2>1
  <2>2. CASE active # {}
    <3>1. active = {Len(r)}
      BY <1>2, <2>2 DEF WellFormed
    <3>2. Last(active) = Len(r)
      <4>1. Last({Len(r)}) = Len(r)
        BY <1>2
      <4> QED BY <3>1, <4>1
    <3> QED BY <1>2, <3>1, <3>2
  <2> QED BY <2>1, <2>2
<1> HIDE DEF n, a
<1>6. g.runs = r /\ g.next = n /\ g.active = a /\ g.hint = h.hint /\ g \in Histories
  BY <1>1, <1>2, <1>3, <1>4, <1>5 DEF Histories
<1> QED BY <1>4, <1>5, <1>6 DEF Sound

LEMMA ThinnedTyped ==
    ASSUME NEW b \in Seq(Runs), NEW n \in 0 .. Len(b), NEW at \in [1 .. n -> DOMAIN b],
           NEW r, r = [i \in 1 .. n |-> b[at[i]]]
    PROVE  r \in Seq(Runs) /\ DOMAIN r = 1 .. n /\ \A i \in 1 .. n : r[i] = b[at[i]]
<1>1. Len(b) \in Nat /\ n \in Nat /\ \A i \in DOMAIN b : b[i] \in Runs
  BY RunsAre
<1>2. r \in [1 .. n -> Runs]
  BY <1>1
<1> QED BY <1>1, <1>2

\* What an import keeps of a backup.
LEMMA ThinnedIs ==
    ASSUME NEW b \in Seq(Runs), WellFormed(b), NEW n \in 0 .. Len(b), NEW at \in [1 .. n -> DOMAIN b],
           \A i, j \in 1 .. n : i < j => at[i] < at[j],
           NEW r, r \in Seq(Runs), DOMAIN r = 1 .. n, \A i \in 1 .. n : r[i] = b[at[i]]
    PROVE  WellFormed(r)
<1>1. Len(b) \in Nat /\ DOMAIN b = 1 .. Len(b) /\ n \in Nat /\ \A i \in DOMAIN b : b[i] \in Runs
  BY RunsAre
<1>2. \A i \in 1 .. n : r[i] = b[at[i]] /\ at[i] \in DOMAIN b
  OBVIOUS
<1>3. Len(r) = n
  BY <1>1, LenProperties
<1>4. Len(r) <= HistoryCap
  BY <1>1, <1>3, HistoryAssumption DEF WellFormed
<1>5. ASSUME NEW i \in 1 .. n, r[i].active PROVE i = n
  <2>1. at[i] = Len(b)
    BY <1>2, <1>5 DEF WellFormed
  <2>2. ~(i < n)
    BY <1>1, <1>2, <2>1
  <2> QED BY <1>1, <2>2
<1>6. \A i \in 1 .. n : r[i].active <=> r[i].end = None
  BY <1>2 DEF WellFormed
<1>7. \A i, j \in 1 .. n : i < j => r[i].id < r[j].id
  BY <1>2 DEF WellFormed
<1> QED BY <1>1, <1>3, <1>4, <1>5, <1>6, <1>7 DEF WellFormed

\* A status may start a run, and may end the active one.
LEMMA StatusCases ==
    ASSUME NEW h, Sound(h), NEW st \in Statuses, NEW g, g = HistoryStatus(h, st)
    PROVE  /\ Sound(g)
           /\ \E s : /\ s = h \/ (h.active = 0 /\ StartsRun(h, st) /\ s = StartRun(h, st))
                     /\ Sound(s)
                     /\ g = s \/ (s.active # 0 /\ EndsRun(st.state) /\ g = EndRun(s, st))
<1> DEFINE s == IF h.active = 0 /\ StartsRun(h, st) THEN StartRun(h, st) ELSE h
<1>1. Sound(s) /\ (s = h \/ (h.active = 0 /\ StartsRun(h, st) /\ s = StartRun(h, st)))
  BY StartIs
<1>2. g = IF s.active # 0 /\ EndsRun(st.state) THEN EndRun(s, st) ELSE s
  BY DEF HistoryStatus
<1> HIDE DEF s
<1>3. g = s \/ (s.active # 0 /\ EndsRun(st.state) /\ g = EndRun(s, st))
  BY <1>2
<1>4. Sound(g)
  BY <1>1, <1>3, EndIs
<1> QED BY <1>1, <1>3, <1>4

LEMMA NewHistoryIs == Sound(NewHistory) /\ NewHistory.runs = <<>> /\ NewHistory.hint = None
<1>1. Len(<<>>) = 0 /\ DOMAIN <<>> = {} /\ <<>> \in Seq(Runs)
  BY EmptySeq
<1> QED BY <1>1, HistoryAssumption DEF Sound, NewHistory, Histories, WellFormed, Paths

LEMMA ShapeKept ==
    ASSUME TypeOK, ShapeInv, [Next]_vars
    PROVE  ShapeInv'
<1>1. Sound(hist) /\ backup \in Seq(Runs) /\ WellFormed(backup) /\ WellFormed(hist.runs) /\ hist.runs \in Seq(Runs)
  BY DEF ShapeInv, Sound, Histories
<1>2. CASE ObserveStatus
  <2>1. hist' = HistoryStatus(hist, Head(statusQ)) /\ backup' = backup
    BY <1>2 DEF ObserveStatus
  <2>2. Head(statusQ) \in Statuses
    BY <1>2, TakeEffect
  <2>3. Sound(hist')
    BY <1>1, <2>1, <2>2, StatusCases
  <2> QED BY <1>1, <2>1, <2>3 DEF ShapeInv, Sound, WellFormed
<1>3. CASE ObserveLine
  <2>1. hist' = HistoryLine(hist, Head(lineQ)) /\ backup' = backup /\ lineQ # <<>> /\ lineQ \in Seq(Files)
    BY <1>3 DEF ObserveLine, TypeOK
  <2>2. Head(lineQ) \in Files
    BY <2>1, TailIs
  <2>3. Sound(hist')
    BY <1>1, <2>1, <2>2, LineIs
  <2> QED BY <1>1, <2>1, <2>3 DEF ShapeInv, Sound, WellFormed
<1>4. CASE HintAges
  <2>1. hist' = [hist EXCEPT !.fresh = FALSE] /\ backup' = backup
    BY <1>4 DEF HintAges
  <2>2. hist' \in Histories /\ hist'.runs = hist.runs /\ hist'.active = hist.active /\ hist'.next = hist.next
    BY <1>1, <2>1 DEF Sound, Histories
  <2> QED BY <1>1, <2>1, <2>2 DEF ShapeInv, Sound, WellFormed
<1>5. CASE ClearRunHistory
  <2>1. hist' = NewHistory /\ backup' = backup
    BY <1>5 DEF ClearRunHistory
  <2> QED BY <1>1, <2>1, NewHistoryIs DEF ShapeInv, Sound, WellFormed
<1>6. CASE ExportBackup
  <2>1. hist' = hist /\ backup' = hist.runs
    BY <1>6 DEF ExportBackup
  <2> QED BY <1>1, <2>1 DEF ShapeInv, Sound, WellFormed
<1>7. CASE ImportBackup
  <2>1. PICK n \in 0 .. Len(backup) : \E at \in [1 .. n -> DOMAIN backup] :
          /\ \A i, j \in 1 .. n : i < j => at[i] < at[j]
          /\ hist' = HistoryReplace(hist, [i \in 1 .. n |-> backup[at[i]]])
    BY <1>7 DEF ImportBackup
  <2>2. PICK at \in [1 .. n -> DOMAIN backup] :
          /\ \A i, j \in 1 .. n : i < j => at[i] < at[j]
          /\ hist' = HistoryReplace(hist, [i \in 1 .. n |-> backup[at[i]]])
    BY <2>1
  <2>3. PICK r : r = [i \in 1 .. n |-> backup[at[i]]]
    OBVIOUS
  <2>8. r \in Seq(Runs) /\ DOMAIN r = 1 .. n /\ \A i \in 1 .. n : r[i] = backup[at[i]]
    BY <1>1, <2>3, ThinnedTyped
  <2>4. WellFormed(r)
    BY <1>1, <2>2, <2>8, ThinnedIs
  <2>7. hist' = HistoryReplace(hist, r)
    BY <2>2, <2>3
  <2>5. Sound(hist')
    BY <1>1, <2>4, <2>7, <2>8, ReplaceIs
  <2>6. backup' = backup
    BY <1>7 DEF ImportBackup
  <2> QED BY <1>1, <2>5, <2>6 DEF ShapeInv, Sound, WellFormed
<1>8. CASE UNCHANGED <<hist, backup>>
  BY <1>1, <1>8 DEF ShapeInv, Sound, WellFormed
<1> QED BY <1>2, <1>3, <1>4, <1>5, <1>6, <1>7, <1>8, StepCases DEF HistoryStep

-----------------------------------------------------------------------------
(* Runs and jobs.                                                           *)

\* Each run of r is one of s.
Embeds(r, s, at) ==
    /\ at \in [DOMAIN r -> DOMAIN s]
    /\ \A i, j \in DOMAIN r : i # j => at[i] # at[j]
    /\ \A i \in DOMAIN r : r[i].job = s[at[i]].job /\ r[i].active = s[at[i]].active

LEMMA JobsEmbed ==
    ASSUME NEW s \in Seq(Runs), NEW r, NEW at, Embeds(r, s, at), NEW j \in Nat, NEW k \in Nat, NEW o \in BOOLEAN, NEW p \in BOOLEAN,
           OfJobs(s, j, o), (k = j /\ (o => p)) \/ k = j + 1
    PROVE  OfJobs(r, k, p)
<1>1. \A i \in DOMAIN r : at[i] \in DOMAIN s /\ s[at[i]].job \in Nat
  BY RunsAre DEF Embeds
<1>2. \A i \in DOMAIN r : r[i].job <= j /\ r[i].job <= k /\ r[i].job \in Nat
  BY <1>1 DEF OfJobs, Embeds
<1>3. ASSUME NEW i \in DOMAIN r, r[i].job = k, k # 0, ~r[i].active PROVE p
  <2>1. k = j
    BY <1>2, <1>3
  <2> QED BY <1>1, <1>3, <2>1 DEF OfJobs, Embeds
<1>4. ASSUME NEW i \in DOMAIN r, NEW m \in DOMAIN r, i # m, r[i].job = r[m].job PROVE r[i].job = 0
  BY <1>1, <1>4 DEF OfJobs, Embeds
<1> QED BY <1>2, <1>3, <1>4 DEF OfJobs

LEMMA JobsSame ==
    ASSUME NEW s \in Seq(Runs), NEW j \in Nat, NEW k \in Nat, NEW o \in BOOLEAN, NEW p \in BOOLEAN,
           OfJobs(s, j, o), (k = j /\ (o => p)) \/ k = j + 1
    PROVE  OfJobs(s, k, p)
<1> DEFINE at == [i \in DOMAIN s |-> i]
<1>1. at \in [DOMAIN s -> DOMAIN s] /\ \A i \in DOMAIN s : at[i] = i
  OBVIOUS
<1> HIDE DEF at
<1>2. Embeds(s, s, at)
  BY <1>1 DEF Embeds
<1> QED BY <1>2, JobsEmbed

LEMMA StartJobs ==
    ASSUME NEW h, Sound(h), h.active = 0, NEW st \in Statuses, NEW g, g = StartRun(h, st),
           OfJobs(h.runs, st.job, FALSE)
    PROVE  OfJobs(g.runs, st.job, FALSE)
<1>1. PICK d \in Nat : \A i \in DOMAIN g.runs :
        \/ i # g.active /\ i + d \in DOMAIN h.runs /\ g.runs[i] = h.runs[i + d]
        \/ i = g.active /\ g.runs[i].job = st.job
  BY StartIs
<1>2. Sound(g) /\ g.active # 0 /\ st.job \in Nat /\ g.runs \in Seq(Runs) /\ h.runs \in Seq(Runs)
  BY StartIs DEF Statuses, Sound, Histories
<1>3. \A i \in DOMAIN g.runs : i \in Nat
  BY <1>2, RunsAre
<1>4. \A i \in DOMAIN h.runs : h.runs[i].job \in Nat /\ h.runs[i].job <= st.job /\ (st.job # 0 => h.runs[i].job # st.job)
  BY <1>2, RunsAre DEF OfJobs, Sound
<1>5. \A i \in DOMAIN g.runs : g.runs[i].job <= st.job /\ (g.runs[i].job = st.job /\ st.job # 0 => g.runs[i].active)
  BY <1>1, <1>2, <1>4 DEF Sound
<1>6. ASSUME NEW i \in DOMAIN g.runs, NEW m \in DOMAIN g.runs, i # m, g.runs[i].job = g.runs[m].job PROVE g.runs[i].job = 0
  <2>1. CASE i # g.active /\ m # g.active
    <3>1. i + d \in DOMAIN h.runs /\ m + d \in DOMAIN h.runs /\ i + d # m + d
      BY <1>1, <1>3, <1>6, <2>1
    <3>2. g.runs[i] = h.runs[i + d] /\ g.runs[m] = h.runs[m + d]
      BY <1>1, <1>6, <2>1
    <3> QED BY <1>6, <3>1, <3>2 DEF OfJobs
  <2>2. CASE i = g.active \/ m = g.active
    BY <1>1, <1>4, <1>6, <2>2
  <2> QED BY <2>1, <2>2
<1> QED BY <1>5, <1>6 DEF OfJobs

LEMMA EndJobs ==
    ASSUME NEW h, Sound(h), h.active # 0, NEW st \in Statuses, NEW g, g = EndRun(h, st),
           NEW j \in Nat, OfJobs(h.runs, j, TRUE)
    PROVE  OfJobs(g.runs, j, TRUE)
<1>1. DOMAIN g.runs = DOMAIN h.runs /\ \A i \in DOMAIN h.runs : g.runs[i].job = h.runs[i].job
  BY EndIs
<1> QED BY <1>1 DEF OfJobs

\* While no job begins, one that is over stays over.
LEMMA OverKept ==
    ASSUME TypeOK, PlayerInv, ShapeInv, [Next]_vars, fw'.job = fw.job, Over
    PROVE  Over'
<1>1. fw'.file = None /\ lineQ' = lineQ
  <2>1. CASE PlayerStep
    <3>1. fw'.job # fw.job + 1
      BY DEF TypeOK, Players
    <3> QED BY <2>1, <3>1, PlayerEffect DEF Over
  <2>2. CASE ~PlayerStep
    <3>1. ~ObserveLine
      BY DEF ObserveLine, Over
    <3> QED BY <2>2, <3>1, StepCases DEF Over
  <2> QED BY <2>1, <2>2
<1>2. hist'.hint = None
  <2>1. Sound(hist) /\ hist.hint = None
    BY DEF ShapeInv, Over
  <2>2. CASE ObserveStatus
    <3>1. hist' = HistoryStatus(hist, Head(statusQ)) /\ Head(statusQ) \in Statuses
      BY <2>2, TakeEffect DEF ObserveStatus
    <3>2. PICK s : /\ s = hist \/ (hist.active = 0 /\ s = StartRun(hist, Head(statusQ)))
                   /\ Sound(s)
                   /\ hist' = s \/ (s.active # 0 /\ hist' = EndRun(s, Head(statusQ)))
      BY <2>1, <3>1, StatusCases
    <3>3. s.hint = None
      BY <2>1, <3>1, <3>2, StartIs
    <3> QED BY <3>1, <3>2, <3>3, EndIs
  <2>3. CASE HintAges
    <3>1. hist' = [hist EXCEPT !.fresh = FALSE]
      BY <2>3 DEF HintAges
    <3> QED BY <2>1, <3>1 DEF Sound, Histories
  <2>4. CASE ClearRunHistory
    BY <2>4, NewHistoryIs DEF ClearRunHistory
  <2>5. CASE ImportBackup
    <3>1. PICK r : hist' = HistoryReplace(hist, r)
      BY <2>5 DEF ImportBackup
    <3>2. hist'.hint = hist.hint
      BY <2>1, <3>1 DEF HistoryReplace, Sound, Histories
    <3> QED BY <2>1, <3>2
  <2>6. CASE ExportBackup \/ UNCHANGED <<hist, backup>>
    BY <2>1, <2>6 DEF ExportBackup
  <2>7. ~ObserveLine
    BY DEF ObserveLine, Over
  <2> QED BY <2>2, <2>3, <2>4, <2>5, <2>6, <2>7, StepCases DEF HistoryStep
<1>3. \A i \in DOMAIN statusQ' : statusQ'[i].prog = NoProgress
  <2>1. statusQ \in Seq(Statuses) /\ \A i \in DOMAIN statusQ : statusQ[i].prog = NoProgress
    BY DEF TypeOK, Over
  <2>2. CASE statusQ' = statusQ
    BY <2>1, <2>2
  <2>3. CASE Observe /\ statusQ' # statusQ
    <3>1. statusQ' = Append(statusQ, Now) /\ Now \in Statuses
      BY <2>3, ObserveEffect
    <3>2. Now.prog = NoProgress
      BY DEF Now, Over
    <3> HIDE DEF Now
    <3>3. /\ Len(statusQ) \in Nat /\ DOMAIN statusQ = 1 .. Len(statusQ) /\ DOMAIN statusQ' = 1 .. Len(statusQ) + 1
          /\ statusQ'[Len(statusQ) + 1] = Now /\ \A i \in DOMAIN statusQ : statusQ'[i] = statusQ[i]
      BY <2>1, <3>1, AppendIs
    <3>4. \A i \in DOMAIN statusQ' : i \in DOMAIN statusQ \/ i = Len(statusQ) + 1
      BY <3>3
    <3> QED BY <2>1, <3>2, <3>3, <3>4
  <2>4. CASE ObserveStatus
    <3>1. statusQ # <<>> /\ statusQ' = Tail(statusQ)
      BY <2>4, TakeEffect
    <3>2. \A i \in DOMAIN Tail(statusQ) : i + 1 \in DOMAIN statusQ /\ Tail(statusQ)[i] = statusQ[i + 1]
      BY <2>1, <3>1, TailIs
    <3> QED BY <2>1, <3>1, <3>2
  <2>5. PlayerStep => statusQ' = statusQ
    BY PlayerQuiet
  <2> QED BY <2>2, <2>3, <2>4, <2>5, StepCases
<1> QED BY <1>1, <1>2, <1>3 DEF Over

LEMMA JobStays ==
    ASSUME TypeOK, PlayerInv, ShapeInv, [Next]_vars
    PROVE  /\ fw.job \in Nat /\ fw'.job \in Nat
           /\ (fw'.job = fw.job /\ (Over => Over')) \/ fw'.job = fw.job + 1
<1>1. fw.job \in Nat
  BY DEF TypeOK, Players
<1>2. fw'.job = fw.job \/ fw'.job = fw.job + 1
  <2>1. PlayerStep \/ fw' = fw
    BY StepCases
  <2> QED BY <2>1, PlayerEffect
<1> QED BY <1>1, <1>2, OverKept

LEMMA JobKept ==
    ASSUME TypeOK, PlayerInv, QueueInv, ShapeInv, JobInv, [Next]_vars
    PROVE  JobInv'
<1> SUFFICES ASSUME InStep PROVE OfJobs(hist.runs, fw.job, Over)' /\ OfJobs(backup, fw.job, Over)'
  BY DEF JobInv, OfJobs, Over
<1>o. PICK o \in BOOLEAN : o <=> Over
  <2>1. \E o \in BOOLEAN : o <=> Over
    BY DEF Over
  <2> QED BY <2>1
<1>p. PICK p \in BOOLEAN : p <=> Over'
  <2>1. \E p \in BOOLEAN : p <=> Over'
    BY DEF Over
  <2> QED BY <2>1
<1>1. OfJobs(hist.runs, fw.job, o) /\ OfJobs(backup, fw.job, o) /\ hist.runs \in Seq(Runs) /\ backup \in Seq(Runs) /\ Sound(hist)
  BY <1>o DEF JobInv, OfJobs, ShapeInv, Sound, Histories
<1>2. /\ fw.job \in Nat /\ fw'.job \in Nat
      /\ (fw'.job = fw.job /\ (o => p)) \/ fw'.job = fw.job + 1
  BY <1>o, <1>p, JobStays
<1> SUFFICES OfJobs(hist'.runs, fw'.job, p) /\ OfJobs(backup', fw'.job, p)
  BY <1>p DEF OfJobs
<1>3. OfJobs(backup', fw'.job, p)
  <2>1. CASE ExportBackup
    <3>1. backup' = hist.runs
      BY <2>1 DEF ExportBackup
    <3> QED BY <1>1, <1>2, <3>1, JobsSame
  <2>2. CASE backup' = backup
    BY <1>1, <1>2, <2>2, JobsSame
  <2>3. ExportBackup \/ backup' = backup
    BY StepCases DEF HistoryStep, ObserveStatus, ObserveLine, HintAges, ClearRunHistory, ImportBackup
  <2> QED BY <2>1, <2>2, <2>3
<1>4. OfJobs(hist'.runs, fw'.job, p)
  <2>1. CASE hist'.runs = hist.runs
    BY <1>1, <1>2, <2>1, JobsSame
  <2>2. CASE ObserveLine
    <3>1. hist' = HistoryLine(hist, Head(lineQ)) /\ lineQ # <<>> /\ lineQ \in Seq(Files)
      BY <2>2 DEF ObserveLine, TypeOK
    <3>2. Head(lineQ) \in Files
      BY <3>1, TailIs
    <3>3. /\ DOMAIN hist'.runs = DOMAIN hist.runs
          /\ \A i \in DOMAIN hist.runs : hist'.runs[i].job = hist.runs[i].job /\ hist'.runs[i].active = hist.runs[i].active
      BY <1>1, <3>1, <3>2, LineIs
    <3> DEFINE at == [i \in DOMAIN hist.runs |-> i]
    <3>4. at \in [DOMAIN hist'.runs -> DOMAIN hist.runs] /\ \A i \in DOMAIN hist.runs : at[i] = i
      BY <3>3
    <3> HIDE DEF at
    <3>5. Embeds(hist'.runs, hist.runs, at)
      BY <3>3, <3>4 DEF Embeds
    <3> QED BY <1>1, <1>2, <3>5, JobsEmbed
  <2>3. CASE ClearRunHistory
    <3>1. hist'.runs = <<>> /\ DOMAIN hist'.runs = {}
      BY <2>3, NewHistoryIs, EmptySeq DEF ClearRunHistory
    <3> QED BY <3>1 DEF OfJobs
  <2>4. CASE ImportBackup
    <3>1. PICK n \in 0 .. Len(backup) : \E at \in [1 .. n -> DOMAIN backup] :
            /\ \A i, j \in 1 .. n : i < j => at[i] < at[j]
            /\ hist' = HistoryReplace(hist, [i \in 1 .. n |-> backup[at[i]]])
      BY <2>4 DEF ImportBackup
    <3>2. PICK at \in [1 .. n -> DOMAIN backup] :
            /\ \A i, j \in 1 .. n : i < j => at[i] < at[j]
            /\ hist' = HistoryReplace(hist, [i \in 1 .. n |-> backup[at[i]]])
      BY <3>1
    <3>3. PICK r : r = [i \in 1 .. n |-> backup[at[i]]]
      OBVIOUS
    <3>8. r \in Seq(Runs) /\ DOMAIN r = 1 .. n /\ \A i \in 1 .. n : r[i] = backup[at[i]]
      BY <1>1, <3>3, ThinnedTyped
    <3>4. WellFormed(r)
      BY <3>2, <3>8, ThinnedIs DEF ShapeInv
    <3>5. hist' = HistoryReplace(hist, r)
      BY <3>2, <3>3
    <3>6. hist'.runs = r
      BY <1>1, <3>4, <3>5, <3>8, ReplaceIs
    <3>7. \A i, j \in 1 .. n : i # j => at[i] # at[j]
      <4>1. DOMAIN backup \subseteq Nat /\ n \in Nat
        BY <1>1, RunsAre
      <4>2. \A i \in 1 .. n : at[i] \in DOMAIN backup
        OBVIOUS
      <4>3. ASSUME NEW i \in 1 .. n, NEW j \in 1 .. n, i # j PROVE at[i] # at[j]
        <5>1. i < j \/ j < i
          BY <4>1, <4>3
        <5>2. at[i] < at[j] \/ at[j] < at[i]
          BY <3>2, <5>1
        <5>3. at[i] \in Nat /\ at[j] \in Nat
          BY <4>1, <4>2
        <5> QED BY <5>2, <5>3
      <4> QED BY <4>3
    <3>9. Embeds(r, backup, at)
      BY <3>7, <3>8 DEF Embeds
    <3> QED BY <1>1, <1>2, <3>6, <3>9, JobsEmbed
  <2>5. CASE ObserveStatus
    <3> DEFINE st == Head(statusQ)
    <3>1. /\ hist' = HistoryStatus(hist, st) /\ st \in Statuses /\ st = statusQ[1] /\ statusQ # <<>> /\ statusQ \in Seq(Statuses)
          /\ statusQ' = Tail(statusQ) /\ UNCHANGED <<fw, lineQ>> /\ (EndsRun(st.state) => lineQ = <<>>)
      BY <2>5, TakeEffect DEF ObserveStatus
    <3>2. 1 \in DOMAIN statusQ
      BY <3>1, TailIs
    <3>3. st.job = fw.job /\ (EndsRun(st.state) <=> st.prog = NoProgress) /\ (st.prog = NoProgress => fw.file = None)
      BY <3>1, <3>2 DEF QueueInv
    <3> HIDE DEF st
    <3>4. PICK s : /\ s = hist \/ (hist.active = 0 /\ StartsRun(hist, st) /\ s = StartRun(hist, st))
                   /\ Sound(s)
                   /\ hist' = s \/ (s.active # 0 /\ EndsRun(st.state) /\ hist' = EndRun(s, st))
      BY <1>1, <3>1, StatusCases
    <3>5. OfJobs(s.runs, fw.job, o)
      <4>1. CASE s = hist
        BY <1>1, <4>1
      <4>2. CASE hist.active = 0 /\ StartsRun(hist, st) /\ s = StartRun(hist, st)
        <5>1. ~Over
          BY <3>1, <3>2, <4>2 DEF Over, StartsRun
        <5>2. OfJobs(hist.runs, st.job, FALSE)
          BY <1>o, <1>1, <3>3, <5>1 DEF OfJobs
        <5>3. OfJobs(s.runs, st.job, FALSE)
          BY <1>1, <3>1, <4>2, <5>2, StartJobs
        <5> QED BY <3>3, <5>3 DEF OfJobs
      <4> QED BY <3>4, <4>1, <4>2
    <3>6. s.runs \in Seq(Runs)
      BY <3>4 DEF Sound, Histories
    <3>7. CASE hist' = s
      BY <1>2, <3>5, <3>6, <3>7, JobsSame
    <3>8. CASE s.active # 0 /\ EndsRun(st.state) /\ hist' = EndRun(s, st)
      <4>0. OfJobs(s.runs, fw.job, TRUE)
        BY <3>5 DEF OfJobs
      <4>1. OfJobs(hist'.runs, fw.job, TRUE)
        BY <1>2, <3>1, <3>4, <3>8, <4>0, EndJobs
      <4>2. hist'.hint = None
        BY <3>1, <3>4, <3>8, EndIs
      <4>3. \A i \in DOMAIN statusQ' : statusQ'[i].prog = NoProgress
        <5>1. \A i \in DOMAIN Tail(statusQ) : i + 1 \in DOMAIN statusQ /\ Tail(statusQ)[i] = statusQ[i + 1] /\ 1 < i + 1
          BY <3>1, TailIs
        <5>2. \A i \in DOMAIN statusQ : statusQ[i].job = fw.job
          BY DEF QueueInv
        <5> QED BY <3>1, <3>2, <3>3, <3>8, <5>1, <5>2 DEF QueueInv
      <4>4. Over'
        BY <3>1, <3>3, <3>8, <4>2, <4>3 DEF Over
      <4> QED BY <1>p, <3>1, <4>1, <4>4 DEF OfJobs
    <3> QED BY <3>4, <3>7, <3>8
  <2>6. CASE HintAges
    <3>1. hist' = [hist EXCEPT !.fresh = FALSE]
      BY <2>6 DEF HintAges
    <3>2. hist'.runs = hist.runs
      BY <1>1, <3>1 DEF Sound, Histories
    <3> QED BY <2>1, <3>2
  <2>7. CASE ExportBackup \/ UNCHANGED <<hist, backup>>
    BY <2>1, <2>7 DEF ExportBackup
  <2> QED BY <2>2, <2>3, <2>4, <2>5, <2>6, <2>7, StepCases DEF HistoryStep
<1> QED BY <1>3, <1>4

-----------------------------------------------------------------------------
(* The attention monitor.                                                   *)

LEMMA EventsAre ==
    ASSUME NEW e \in Seq(Events)
    PROVE  /\ Len(e) \in Nat /\ DOMAIN e = 1 .. Len(e)
           /\ \A i \in DOMAIN e : /\ e[i] \in Events /\ e[i].job \in Nat /\ e[i].marker \in Nat \cup {None}
                                  /\ e[i].active \in BOOLEAN
<1>1. Len(e) \in Nat /\ DOMAIN e = 1 .. Len(e)
  BY LenProperties
<1>2. \A i \in DOMAIN e : e[i] \in Events
  BY <1>1, ElementOfSeq
<1> QED BY <1>1, <1>2 DEF Events

\* One element of a sequence of events is replaced.
LEMMA ReplacedIs ==
    ASSUME NEW e \in Seq(Events), NEW a \in DOMAIN e, NEW x \in Events, NEW r, r = [e EXCEPT ![a] = x]
    PROVE  /\ r \in Seq(Events) /\ Len(r) = Len(e) /\ DOMAIN r = DOMAIN e /\ r[a] = x
           /\ \A i \in DOMAIN e : i # a => r[i] = e[i]
<1>1. Len(e) \in Nat /\ DOMAIN e = 1 .. Len(e) /\ \A i \in DOMAIN e : e[i] \in Events
  BY EventsAre
<1>2. DOMAIN r = DOMAIN e /\ r[a] = x /\ \A i \in DOMAIN e : i # a => r[i] = e[i]
  OBVIOUS
<1>3. r \in [1 .. Len(e) -> Events]
  BY <1>1
<1> QED BY <1>1, <1>2, <1>3

\* What becomes of the events of monitor m in monitor n.
Follow(m, st, marker, n) ==
    \E d \in Nat : \A i \in DOMAIN n.events :
      \/ /\ i + d \in DOMAIN m.events /\ n.events[i].job = m.events[i + d].job
         /\ \/ /\ n.events[i].marker = m.events[i + d].marker
               /\ i = n.active => m.active = i + d /\ (m.last = "Alarm" => n.last = "Alarm")
            \/ /\ i = n.active /\ i + d = m.active /\ m.events[m.active].marker = None
               /\ marker # None /\ n.events[i].marker = marker /\ m.last # "Alarm"
      \/ /\ i = n.active /\ n.events[i].job = st.job /\ n.events[i].marker = marker
         /\ KindFor(st.state, None) # ""

LEMMA KindIs ==
    ASSUME NEW s \in States, NEW marker \in Nat \cup {None}, marker # None => s \in Paused
    PROVE  /\ KindFor(s, marker) \in Kinds \cup {""}
           /\ KindFor(s, marker) = "" <=> KindFor(s, None) = ""
           /\ KindFor(s, marker) = "alarm" <=> s = "Alarm"
           /\ KindFor(s, marker) = "rotary_index" => s # "Alarm"
BY NoneIsNothing DEF KindFor, Kinds, States, Paused

LEMMA ExplainedIs ==
    ASSUME NEW e \in Events, NEW marker \in Nat \cup {None}, NEW x, x = Explained(e, marker)
    PROVE  /\ x \in Events /\ x.id = e.id /\ x.job = e.job /\ x.active = e.active /\ x.state = e.state
           /\ x.kind \in {e.kind, "rotary_index"}
           /\ x.marker = e.marker \/ (e.marker = None /\ marker # None /\ x.marker = marker)
           /\ x.kind = e.kind \/ marker # None
           /\ x # e => e.marker = None /\ marker # None
<1>1. CASE e.marker = None /\ marker # None
  <2>1. x = [e EXCEPT !.marker = marker, !.kind = "rotary_index"]
    BY <1>1 DEF Explained
  <2> QED BY <1>1, <2>1 DEF Events, Kinds
<1>2. CASE ~(e.marker = None /\ marker # None)
  BY <1>2 DEF Explained
<1> QED BY <1>1, <1>2

\* The state has not changed: a marker may explain the active event.
LEMMA SameState ==
    ASSUME NEW m, Episodes(m), NEW st \in Statuses, NEW marker \in Nat \cup {None}, marker # None => st.state \in Paused,
           st.state = m.last, NEW r, r = MonitorStatus(m, st, marker)
    PROVE  Episodes(r.m) /\ r.m.last = st.state /\ r.changes \in Seq(Changes) /\ Follow(m, st, marker, r.m)
<1> DEFINE now == m.events[m.active]
<1> DEFINE same == Explained(now, marker)
<1>1. m.events \in Seq(Events) /\ m = [events |-> m.events, next |-> m.next, active |-> m.active, last |-> m.last]
      /\ m.next \in Nat /\ m.active \in Nat /\ m.last \in States
  BY DEF Episodes, Monitors
<1>2. CASE m.active = 0 \/ same = now
  <2>1. r = [m |-> m, changes |-> <<>>]
    BY <1>2 DEF MonitorStatus
  <2>2. Follow(m, st, marker, m)
    <3>1. \A i \in DOMAIN m.events : i \in Nat /\ i + 0 = i
      BY <1>1, EventsAre
    <3> SUFFICES \A i \in DOMAIN m.events : i + 0 \in DOMAIN m.events /\ m.events[i].job = m.events[i + 0].job
                      /\ m.events[i].marker = m.events[i + 0].marker /\ (i = m.active => m.active = i + 0)
      BY DEF Follow
    <3> QED BY <3>1
  <2>3. <<>> \in Seq(Changes)
    OBVIOUS
  <2> QED BY <2>1, <2>2, <2>3
<1>3. CASE m.active # 0 /\ same # now
  <2>1. PICK a, x : a = m.events[m.active] /\ x = Explained(a, marker)
    OBVIOUS
  <2>2. /\ Len(m.events) \in Nat /\ DOMAIN m.events = 1 .. Len(m.events) /\ m.active \in DOMAIN m.events /\ a \in Events
    <3>1. Len(m.events) \in Nat /\ DOMAIN m.events = 1 .. Len(m.events) /\ \A i \in DOMAIN m.events : m.events[i] \in Events
      BY <1>1, EventsAre
    <3>2. m.active \in {0, Len(m.events)}
      BY DEF Episodes
    <3>3. m.active \in DOMAIN m.events
      BY <1>3, <3>1, <3>2
    <3> QED BY <2>1, <3>1, <3>3
  <2>3. x # a /\ r = [m |-> [m EXCEPT !.events = [m.events EXCEPT ![m.active] = x]],
                      changes |-> <<[kind |-> "updated", event |-> x]>>]
    BY <1>3, <2>1 DEF MonitorStatus
  <2> HIDE DEF now, same
  <2>4. /\ x \in Events /\ x.job = a.job /\ x.active = a.active /\ x.state = a.state
        /\ x.kind \in {a.kind, "rotary_index"} /\ a.marker = None /\ marker # None
        /\ x.marker = a.marker \/ x.marker = marker
    BY <2>1, <2>2, <2>3, ExplainedIs
  <2>5. PICK e : e = [m.events EXCEPT ![m.active] = x]
    OBVIOUS
  <2>6. r.m = [m EXCEPT !.events = e] /\ r.changes = <<[kind |-> "updated", event |-> x]>>
    BY <2>3, <2>5
  <2>7. r.m = [events |-> e, next |-> m.next, active |-> m.active, last |-> m.last]
    BY <1>1, <2>6
  <2>8. r.changes \in Seq(Changes)
    <3>1. [kind |-> "updated", event |-> x] \in Changes
      BY <2>4 DEF Changes
    <3> QED BY <2>6, <3>1
  <2>9. /\ e \in Seq(Events) /\ Len(e) = Len(m.events) /\ DOMAIN e = DOMAIN m.events /\ e[m.active] = x
        /\ \A i \in DOMAIN m.events : i # m.active => e[i] = m.events[i]
    BY <1>1, <2>2, <2>4, <2>5, ReplacedIs
  <2>10. r.m.events = e /\ r.m.active = m.active /\ r.m.last = m.last /\ r.m \in Monitors
    BY <1>1, <2>7, <2>9 DEF Monitors
  <2>11. st.state \in Paused /\ m.last \in Paused /\ m.last # "Alarm"
    BY <2>4 DEF Paused
  <2>12. x.kind # "alarm" /\ x.state = m.last
    BY <1>3, <2>1, <2>4, <2>11 DEF Episodes
  <2>13. Episodes(r.m)
    <3>1. r.m.active # 0 <=> KindFor(r.m.last, None) # ""
      BY <2>10 DEF Episodes
    <3>2. \A i \in DOMAIN e : e[i].active <=> i = m.active
      BY <1>3, <2>1, <2>2, <2>4, <2>9 DEF Episodes
    <3>3. r.m.active \in {0, Len(r.m.events)}
      BY <2>9, <2>10 DEF Episodes
    <3> QED BY <2>9, <2>10, <2>11, <2>12, <3>1, <3>2, <3>3 DEF Episodes
  <2>14. Follow(m, st, marker, r.m)
    <3> SUFFICES \A i \in DOMAIN e :
                   /\ i + 0 \in DOMAIN m.events /\ e[i].job = m.events[i + 0].job
                   /\ \/ e[i].marker = m.events[i + 0].marker /\ (i = m.active => m.active = i + 0)
                      \/ /\ i = m.active /\ i + 0 = m.active /\ m.events[m.active].marker = None
                         /\ marker # None /\ e[i].marker = marker /\ m.last # "Alarm"
      BY <2>10 DEF Follow
    <3>1. \A i \in DOMAIN e : i + 0 = i
      BY <2>2, <2>9
    <3>2. \A i \in DOMAIN e : i # m.active => e[i] = m.events[i]
      BY <2>9
    <3> QED BY <2>1, <2>2, <2>4, <2>9, <2>11, <3>1, <3>2
  <2> QED BY <2>8, <2>10, <2>13, <2>14
<1> QED BY <1>2, <1>3

\* The status shows another pause of the active episode.
GoesOn(m, st, marker) ==
    /\ st.state # m.last /\ m.active # 0 /\ KindFor(st.state, marker) # ""
    /\ Continues(m.events[m.active], st.state, KindFor(st.state, marker))

LEMMA SameEpisode ==
    ASSUME NEW m, Episodes(m), NEW st \in Statuses, NEW marker \in Nat \cup {None}, marker # None => st.state \in Paused,
           GoesOn(m, st, marker), NEW r, r = MonitorStatus(m, st, marker)
    PROVE  Episodes(r.m) /\ r.m.last = st.state /\ r.changes \in Seq(Changes) /\ Follow(m, st, marker, r.m)
<1>1. /\ m.events \in Seq(Events) /\ m = [events |-> m.events, next |-> m.next, active |-> m.active, last |-> m.last]
      /\ m.next \in Nat /\ m.active \in Nat /\ m.last \in States /\ st.state \in States
  BY DEF Episodes, Monitors, Statuses
<1>0. PICK kind : kind = KindFor(st.state, marker)
  OBVIOUS
<1>2. PICK a, y : a = m.events[m.active]
                  /\ y = [a EXCEPT !.state = st.state, !.kind = IF kind = "rotary_index" THEN kind ELSE @]
  OBVIOUS
<1>3. PICK x : x = Explained(y, marker)
  OBVIOUS
<1>a. m.active # 0 /\ kind # "" /\ Continues(a, st.state, kind)
  BY <1>0, <1>2 DEF GoesOn
<1>b. m.active # 0
  BY <1>a
<1>4. r = [m |-> [m EXCEPT !.events[m.active] = x, !.last = st.state],
           changes |-> <<[kind |-> "updated", event |-> x]>>]
  BY <1>0, <1>2, <1>3 DEF MonitorStatus, GoesOn
<1>5. /\ Len(m.events) \in Nat /\ DOMAIN m.events = 1 .. Len(m.events) /\ m.active \in DOMAIN m.events /\ a \in Events
  <2>1. Len(m.events) \in Nat /\ DOMAIN m.events = 1 .. Len(m.events) /\ \A i \in DOMAIN m.events : m.events[i] \in Events
    BY <1>1, EventsAre
  <2>2. m.active \in {0, Len(m.events)}
    BY DEF Episodes
  <2>3. m.active \in DOMAIN m.events
    BY <1>b, <2>1, <2>2
  <2> QED BY <1>2, <2>1, <2>3
<1>6. a.kind # "alarm" /\ kind # "alarm" /\ st.state # "Alarm"
  <2>1. a.kind # "alarm" /\ kind # "alarm"
    BY <1>a DEF Continues
  <2> QED BY <1>0, <1>1, <2>1, KindIs
<1>7. m.last # "Alarm"
  BY <1>2, <1>6, <1>a DEF Episodes
<1>8. y \in Events /\ y.job = a.job /\ y.active = a.active /\ y.state = st.state /\ y.marker = a.marker
      /\ y.kind \in {a.kind, "rotary_index"}
  <2>1. y = [a EXCEPT !.state = st.state, !.kind = IF kind = "rotary_index" THEN kind ELSE a.kind]
    BY <1>2
  <2> QED BY <1>1, <1>5, <2>1 DEF Events, Kinds
<1>9. /\ x \in Events /\ x.job = a.job /\ x.active = a.active /\ x.state = st.state
      /\ x.kind \in {a.kind, "rotary_index"}
      /\ x.marker = a.marker \/ (a.marker = None /\ marker # None /\ x.marker = marker)
  BY <1>3, <1>8, ExplainedIs
<1>10. PICK e : e = [m.events EXCEPT ![m.active] = x]
  OBVIOUS
<1>11. r.m = [m EXCEPT !.events = e, !.last = st.state] /\ r.changes = <<[kind |-> "updated", event |-> x]>>
  BY <1>4, <1>10
<1>12. r.m = [events |-> e, next |-> m.next, active |-> m.active, last |-> st.state]
  BY <1>1, <1>11
<1>13. r.changes \in Seq(Changes)
  <2>1. [kind |-> "updated", event |-> x] \in Changes
    BY <1>9 DEF Changes
  <2> QED BY <1>11, <2>1
<1>14. /\ e \in Seq(Events) /\ Len(e) = Len(m.events) /\ DOMAIN e = DOMAIN m.events /\ e[m.active] = x
       /\ \A i \in DOMAIN m.events : i # m.active => e[i] = m.events[i]
  BY <1>1, <1>5, <1>9, <1>10, ReplacedIs
<1>15. r.m.events = e /\ r.m.active = m.active /\ r.m.last = st.state /\ r.m \in Monitors
  BY <1>1, <1>12, <1>14 DEF Monitors
<1>16. Episodes(r.m)
  <2>1. KindFor(st.state, None) # ""
    BY <1>0, <1>1, <1>a, KindIs
  <2>2. \A i \in DOMAIN e : e[i].active <=> i = m.active
    BY <1>2, <1>5, <1>9, <1>14 DEF Episodes
  <2>3. r.m.active \in {0, Len(r.m.events)}
    BY <1>14, <1>15 DEF Episodes
  <2>4. e[m.active].state = st.state /\ (e[m.active].kind = "alarm" <=> st.state = "Alarm")
    BY <1>6, <1>9, <1>14
  <2>5. r.m.active # 0 <=> KindFor(r.m.last, None) # ""
    BY <1>b, <1>15, <2>1
  <2> QED BY <1>15, <2>2, <2>3, <2>4, <2>5 DEF Episodes
<1>17. Follow(m, st, marker, r.m)
  <2>1. \A i \in DOMAIN e : i + 0 = i
    BY <1>5, <1>14
  <2>2. \A i \in DOMAIN e : i # m.active => e[i] = m.events[i]
    BY <1>14
  <2>3. \A i \in DOMAIN e :
          /\ i + 0 \in DOMAIN m.events /\ e[i].job = m.events[i + 0].job
          /\ \/ e[i].marker = m.events[i + 0].marker /\ (i = m.active => m.active = i + 0 /\ m.last # "Alarm")
             \/ /\ i = m.active /\ i + 0 = m.active /\ m.events[m.active].marker = None
                /\ marker # None /\ e[i].marker = marker /\ m.last # "Alarm"
    BY <1>2, <1>5, <1>7, <1>9, <1>14, <2>1, <2>2
  <2>4. PICK n : n = r.m
    OBVIOUS
  <2>5. n.events = e /\ n.active = m.active
    BY <1>15, <2>4
  <2>6. Follow(m, st, marker, n)
    BY <2>3, <2>5 DEF Follow
  <2> QED BY <2>4, <2>6
<1> QED BY <1>13, <1>15, <1>16, <1>17

\* The active event is resolved, if there is one.
Resolved(m) ==
    IF m.active = 0 THEN m.events ELSE [m.events EXCEPT ![m.active] = [m.events[m.active] EXCEPT !.active = FALSE]]
Closing(m) ==
    IF m.active = 0 THEN <<>> ELSE <<[kind |-> "resolved", event |-> [m.events[m.active] EXCEPT !.active = FALSE]]>>

LEMMA ResolvedIs ==
    ASSUME NEW m, Episodes(m), NEW s, s = Resolved(m)
    PROVE  /\ s \in Seq(Events) /\ DOMAIN s = DOMAIN m.events /\ Len(s) \in Nat
           /\ \A i \in DOMAIN s : ~s[i].active /\ s[i].job = m.events[i].job /\ s[i].marker = m.events[i].marker
           /\ Closing(m) \in Seq(Changes)
<1>1. m.events \in Seq(Events) /\ m.active \in Nat
  BY DEF Episodes, Monitors
<1>2. /\ Len(m.events) \in Nat /\ DOMAIN m.events = 1 .. Len(m.events)
      /\ \A i \in DOMAIN m.events : m.events[i] \in Events
  BY <1>1, EventsAre
<1>3. \A i \in DOMAIN m.events : m.events[i].active <=> i = m.active
  BY DEF Episodes
<1>4. CASE m.active = 0
  <2>1. s = m.events /\ Closing(m) = <<>>
    BY <1>4 DEF Resolved, Closing
  <2>2. <<>> \in Seq(Changes)
    OBVIOUS
  <2>3. \A i \in DOMAIN m.events : i # 0
    BY <1>2
  <2> QED BY <1>1, <1>2, <1>3, <1>4, <2>1, <2>2, <2>3
<1>5. CASE m.active # 0
  <2>1. m.active \in {0, Len(m.events)}
    BY DEF Episodes
  <2>2. m.active \in DOMAIN m.events
    BY <1>2, <1>5, <2>1
  <2>3. PICK a, x : a = m.events[m.active] /\ x = [a EXCEPT !.active = FALSE]
    OBVIOUS
  <2>4. a \in Events
    BY <1>2, <2>2, <2>3
  <2>5. x \in Events /\ x.job = a.job /\ x.marker = a.marker /\ ~x.active
    BY <2>3, <2>4 DEF Events
  <2>6. s = [m.events EXCEPT ![m.active] = x] /\ Closing(m) = <<[kind |-> "resolved", event |-> x]>>
    BY <1>5, <2>3 DEF Resolved, Closing
  <2>7. Closing(m) \in Seq(Changes)
    <3>1. [kind |-> "resolved", event |-> x] \in Changes
      BY <2>5 DEF Changes
    <3> QED BY <2>6, <3>1
  <2>8. /\ s \in Seq(Events) /\ Len(s) = Len(m.events) /\ DOMAIN s = DOMAIN m.events /\ s[m.active] = x
        /\ \A i \in DOMAIN m.events : i # m.active => s[i] = m.events[i]
    BY <1>1, <2>2, <2>5, <2>6, ReplacedIs
  <2>9. \A i \in DOMAIN s : ~s[i].active /\ s[i].job = m.events[i].job /\ s[i].marker = m.events[i].marker
    <3>1. ~s[m.active].active /\ s[m.active].job = m.events[m.active].job /\ s[m.active].marker = m.events[m.active].marker
      BY <2>3, <2>5, <2>8
    <3>2. \A i \in DOMAIN s : i # m.active => s[i] = m.events[i] /\ ~m.events[i].active
      BY <1>3, <2>8
    <3> QED BY <3>1, <3>2
  <2> QED BY <1>2, <2>7, <2>8, <2>9
<1> QED BY <1>4, <1>5

\* The status asks for nobody.
Settles(m, st, marker) ==
    st.state # m.last /\ KindFor(st.state, marker) = ""

LEMMA NobodyAsked ==
    ASSUME NEW m, Episodes(m), NEW st \in Statuses, NEW marker \in Nat \cup {None}, marker # None => st.state \in Paused,
           Settles(m, st, marker), NEW r, r = MonitorStatus(m, st, marker)
    PROVE  Episodes(r.m) /\ r.m.last = st.state /\ r.changes \in Seq(Changes) /\ Follow(m, st, marker, r.m)
<1>1. /\ m.events \in Seq(Events) /\ m = [events |-> m.events, next |-> m.next, active |-> m.active, last |-> m.last]
      /\ m.next \in Nat /\ m.active \in Nat /\ m.last \in States /\ st.state \in States
  BY DEF Episodes, Monitors, Statuses
<1>2. PICK s : s = Resolved(m)
  OBVIOUS
<1>3. r = [m |-> [m EXCEPT !.events = s, !.active = 0, !.last = st.state], changes |-> Closing(m)]
  <2>1. st.state # m.last /\ KindFor(st.state, marker) = ""
    BY DEF Settles
  <2>2. MonitorStatus(m, st, marker)
        = [m |-> [m EXCEPT !.events = Resolved(m), !.active = 0, !.last = st.state], changes |-> Closing(m)]
    BY <2>1 DEF MonitorStatus, Resolved, Closing
  <2> QED BY <1>2, <2>2
<1>4. r.m = [events |-> s, next |-> m.next, active |-> 0, last |-> st.state] /\ r.changes = Closing(m)
  <2>1. r.m = [m EXCEPT !.events = s, !.active = 0, !.last = st.state] /\ r.changes = Closing(m)
    BY <1>3
  <2> QED BY <1>1, <2>1
<1>5. /\ s \in Seq(Events) /\ DOMAIN s = DOMAIN m.events
      /\ \A i \in DOMAIN s : ~s[i].active /\ s[i].job = m.events[i].job /\ s[i].marker = m.events[i].marker
      /\ Closing(m) \in Seq(Changes)
  BY <1>2, ResolvedIs
<1>6. r.m.events = s /\ r.m.active = 0 /\ r.m.last = st.state /\ r.m \in Monitors
  BY <1>1, <1>4, <1>5 DEF Monitors
<1>7. DOMAIN m.events = 1 .. Len(m.events) /\ Len(m.events) \in Nat
  BY <1>1, EventsAre
<1>8. \A i \in DOMAIN s : i # 0 /\ i + 0 = i
  BY <1>5, <1>7
<1>9. KindFor(st.state, None) = ""
  BY <1>1, KindIs DEF Settles
<1>10. Episodes(r.m)
  BY <1>5, <1>6, <1>8, <1>9 DEF Episodes
<1>11. Follow(m, st, marker, r.m)
  <2>1. r.m.events = s /\ r.m.active = 0
    BY <1>6
  <2>2. \A i \in DOMAIN r.m.events : i # r.m.active /\ i + 0 \in DOMAIN m.events
          /\ r.m.events[i].job = m.events[i + 0].job /\ r.m.events[i].marker = m.events[i + 0].marker
    BY <1>5, <1>8, <2>1
  <2> QED BY <2>2 DEF Follow
<1> QED BY <1>4, <1>5, <1>6, <1>10, <1>11

\* The status begins an episode.
Opens(m, st, marker) ==
    /\ st.state # m.last /\ KindFor(st.state, marker) # ""
    /\ ~(m.active # 0 /\ Continues(m.events[m.active], st.state, KindFor(st.state, marker)))

LEMMA NewEpisode ==
    ASSUME NEW m, Episodes(m), NEW st \in Statuses, NEW marker \in Nat \cup {None}, marker # None => st.state \in Paused,
           Opens(m, st, marker), NEW r, r = MonitorStatus(m, st, marker)
    PROVE  Episodes(r.m) /\ r.m.last = st.state /\ r.changes \in Seq(Changes) /\ Follow(m, st, marker, r.m)
<1>1. /\ m.events \in Seq(Events) /\ m.next \in Nat /\ m.active \in Nat
      /\ st.state \in States /\ st.prog \in Int /\ st.job \in Nat
  BY DEF Episodes, Monitors, Statuses
<1>2. PICK s, o, kind : /\ s = Resolved(m) /\ kind = KindFor(st.state, marker)
                        /\ o = [id |-> m.next, kind |-> kind, state |-> st.state, active |-> TRUE,
                                prog |-> st.prog, marker |-> marker, job |-> st.job]
  OBVIOUS
<1>3. PICK q, e : q = Append(s, o) /\ e = Newest(q, EventCap)
  OBVIOUS
<1>4. r = [m |-> [events |-> e, next |-> m.next + 1, active |-> Len(e), last |-> st.state],
           changes |-> Append(Closing(m), [kind |-> "opened", event |-> o])]
  BY <1>2, <1>3 DEF MonitorStatus, Opens, Resolved, Closing
<1>5. r.m = [events |-> e, next |-> m.next + 1, active |-> Len(e), last |-> st.state]
      /\ r.changes = Append(Closing(m), [kind |-> "opened", event |-> o])
  BY <1>4
<1>6. kind \in Kinds /\ kind # "" /\ (kind = "alarm" <=> st.state = "Alarm") /\ KindFor(st.state, None) # ""
  <2>1. KindFor(st.state, marker) # ""
    BY DEF Opens
  <2> QED BY <1>1, <1>2, <2>1, KindIs
<1>7. o \in Events /\ o.active /\ o.job = st.job /\ o.marker = marker /\ o.state = st.state /\ o.kind = kind
  BY <1>1, <1>2, <1>6 DEF Events
<1>8. /\ s \in Seq(Events) /\ DOMAIN s = DOMAIN m.events
      /\ \A i \in DOMAIN s : ~s[i].active /\ s[i].job = m.events[i].job /\ s[i].marker = m.events[i].marker
      /\ Closing(m) \in Seq(Changes)
  BY <1>2, ResolvedIs
<1>9. r.changes \in Seq(Changes)
  <2>1. [kind |-> "opened", event |-> o] \in Changes
    BY <1>7 DEF Changes
  <2> QED BY <1>5, <1>8, <2>1, AppendProperties
<1>10. /\ q \in Seq(Events) /\ Len(s) \in Nat /\ Len(q) = Len(s) + 1 /\ DOMAIN s = 1 .. Len(s)
       /\ q[Len(s) + 1] = o /\ \A i \in DOMAIN s : q[i] = s[i]
  BY <1>3, <1>7, <1>8, AppendIs
<1>11. EventCap \in Nat \ {0}
  BY HistoryAssumption
<1>12. /\ e \in Seq(Events) /\ Len(e) \in Nat /\ Len(e) # 0 /\ DOMAIN e = 1 .. Len(e)
       /\ EndOf(e, q)
  <2>1. /\ Newest(q, EventCap) \in Seq(Events) /\ Len(Newest(q, EventCap)) \in Nat
        /\ DOMAIN Newest(q, EventCap) = 1 .. Len(Newest(q, EventCap))
        /\ Len(Newest(q, EventCap)) = 0 <=> Len(q) = 0
        /\ EndOf(Newest(q, EventCap), q)
    BY <1>10, <1>11, NewestIs
  <2>2. Len(q) # 0
    BY <1>10
  <2> QED BY <1>3, <2>1, <2>2
<1>13. PICK d \in Nat : Len(e) + d = Len(q) /\ \A i \in DOMAIN e : i + d \in DOMAIN q /\ e[i] = q[i + d]
  BY <1>12 DEF EndOf
<1>14. e[Len(e)] = o
  BY <1>10, <1>12, <1>13
<1>15. \A i \in DOMAIN e : i # Len(e) => i + d \in DOMAIN s /\ e[i] = s[i + d]
  BY <1>10, <1>12, <1>13
<1>16. r.m.events = e /\ r.m.active = Len(e) /\ r.m.last = st.state /\ r.m \in Monitors
  BY <1>1, <1>5, <1>12 DEF Monitors
<1>17. Episodes(r.m)
  <2>1. r.m.active # 0 <=> KindFor(r.m.last, None) # ""
    BY <1>6, <1>12, <1>16
  <2>2. \A i \in DOMAIN e : e[i].active <=> i = Len(e)
    BY <1>7, <1>8, <1>14, <1>15
  <2>3. e[Len(e)].state = st.state /\ (e[Len(e)].kind = "alarm" <=> st.state = "Alarm")
    BY <1>6, <1>7, <1>14
  <2> QED BY <1>16, <2>1, <2>2, <2>3 DEF Episodes
<1>18. Follow(m, st, marker, r.m)
  <2> SUFFICES \A i \in DOMAIN e :
        \/ i + d \in DOMAIN m.events /\ e[i].job = m.events[i + d].job /\ e[i].marker = m.events[i + d].marker /\ i # Len(e)
        \/ i = Len(e) /\ e[i].job = st.job /\ e[i].marker = marker
    BY <1>6, <1>16 DEF Follow
  <2> QED BY <1>7, <1>8, <1>14, <1>15
<1> QED BY <1>9, <1>16, <1>17, <1>18

\* What the monitor makes of a status.
LEMMA MonitorIs ==
    ASSUME NEW m, Episodes(m), NEW st \in Statuses, NEW marker \in Nat \cup {None}, marker # None => st.state \in Paused,
           NEW r, r = MonitorStatus(m, st, marker)
    PROVE  Episodes(r.m) /\ r.m.last = st.state /\ r.changes \in Seq(Changes) /\ Follow(m, st, marker, r.m)
<1>1. (st.state = m.last) \/ GoesOn(m, st, marker) \/ Settles(m, st, marker) \/ Opens(m, st, marker)
  BY DEF GoesOn, Settles, Opens
<1> QED BY <1>1, SameState, SameEpisode, NobodyAsked, NewEpisode

-----------------------------------------------------------------------------
(* The markers.                                                             *)

\* A set of natural numbers with a bound has a greatest member.
LEMMA Greatest ==
    ASSUME NEW S, NEW n \in Nat, S \subseteq 0 .. n, S # {}
    PROVE  \E x \in S : \A y \in S : y <= x
<1>1. {n - y : y \in S} \subseteq Nat /\ {n - y : y \in S} # {}
  <2>1. \A y \in S : n - y \in Nat
    OBVIOUS
  <2> QED BY <2>1
<1>2. PICK k \in {n - y : y \in S} : \A y \in {n - z : z \in S} : <<y, k>> \notin OpToRel(<, Nat)
  BY <1>1, NatLessThanWellFounded, WFMin
<1>3. PICK x \in S : k = n - x
  BY <1>2
<1>4. ASSUME NEW y \in S PROVE y <= x
  <2>1. n - y \in {n - z : z \in S} /\ n - y \in Nat /\ k \in Nat
    BY <1>1, <1>2
  <2>2. <<n - y, k>>[1] = n - y /\ <<n - y, k>>[2] = k /\ <<n - y, k>> \in Nat \X Nat
    BY <2>1
  <2>3. ~(n - y < k)
    BY <1>2, <2>1, <2>2 DEF OpToRel
  <2> QED BY <1>3, <2>3
<1> QED BY <1>3, <1>4

LEMMA MarkersAre ==
    ASSUME NEW p \in Paths
    PROVE  /\ MarkersOf(p) \in Seq(Nat) /\ Len(MarkersOf(p)) \in Nat /\ DOMAIN MarkersOf(p) = 1 .. Len(MarkersOf(p))
           /\ \A i \in DOMAIN MarkersOf(p) : MarkersOf(p)[i] \in Nat
           /\ \A i, j \in DOMAIN MarkersOf(p) : i < j => MarkersOf(p)[i] < MarkersOf(p)[j]
<1>1. MarkersOf(p) \in Seq(Nat) /\ \A i, j \in DOMAIN MarkersOf(p) : i < j => MarkersOf(p)[i] < MarkersOf(p)[j]
  <2>1. CASE p = None
    <3>1. MarkersOf(p) = <<>> /\ DOMAIN <<>> = {} /\ <<>> \in Seq(Nat)
      BY <2>1 DEF MarkersOf
    <3> QED BY <3>1
  <2>2. CASE p # None
    BY <2>2, HistoryAssumption DEF MarkersOf, Paths
  <2> QED BY <2>1, <2>2
<1>2. Len(MarkersOf(p)) \in Nat /\ DOMAIN MarkersOf(p) = 1 .. Len(MarkersOf(p))
  BY <1>1, LenProperties
<1> QED BY <1>1, <1>2, ElementOfSeq

LEMMA SelectIs ==
    ASSUME NEW lines \in Seq(Nat), NEW next \in Nat \ {0}, NEW prog \in Int, NEW k, k = SelectMarker(lines, next, prog)
    PROVE  k = 0 \/ (k \in DOMAIN lines /\ k \in Nat /\ next <= k)
<1>1. Len(lines) \in Nat /\ DOMAIN lines = 1 .. Len(lines)
  BY LenProperties
<1>2. PICK passed : passed = {i \in next .. Len(lines) : lines[i] <= prog}
  OBVIOUS
<1>3. passed \subseteq next .. Len(lines) /\ passed \subseteq 0 .. Len(lines)
  BY <1>1, <1>2
<1>4. ASSUME passed # {}
      PROVE  (CHOOSE i \in passed : \A j \in passed : j <= i) \in passed
  <2>1. \E i \in passed : \A j \in passed : j <= i
    BY <1>1, <1>3, <1>4, Greatest
  <2> QED BY <2>1
<1>5. k = IF next > Len(lines) THEN 0
          ELSE IF prog > 0 THEN IF passed = {} THEN 0 ELSE CHOOSE i \in passed : \A j \in passed : j <= i
               ELSE next
  BY <1>2 DEF SelectMarker
<1>6. k = 0 \/ (k = next /\ next <= Len(lines)) \/ k \in passed
  BY <1>1, <1>4, <1>5
<1>7. k \in passed => k \in next .. Len(lines)
  BY <1>3
<1> HIDE DEF SelectMarker
<1> QED BY <1>1, <1>6, <1>7

\* What is known of the markers after a status.
LEMMA ContextIs ==
    ASSUME NEW old \in Metas, old.next # 0, NEW p \in Paths, NEW st \in Statuses,
           NEW ctx, ctx = AttentionContext(old, p, st)
    PROVE  /\ ctx.meta \in Metas /\ ctx.meta.next # 0 /\ ctx.meta.path = p /\ ctx.meta.last = st.state
           /\ ctx.marker \in Nat \cup {None}
           /\ ctx.marker # None =>
                /\ st.state \in Paused
                /\ \E k \in DOMAIN MarkersOf(p) : /\ MarkersOf(p)[k] = ctx.marker /\ k < ctx.meta.next
                                                  /\ old.path = p => old.next <= k
           /\ old.path = p /\ ~(st.state = "Run" /\ EndsRun(old.last)) => old.next <= ctx.meta.next
<1>1. old.next \in Nat \ {0} /\ old.path \in Paths /\ old.last \in States /\ st.state \in States /\ st.prog \in Int
  BY DEF Metas, Statuses
<1>2. PICK lines : lines = MarkersOf(p)
  OBVIOUS
<1>3. lines \in Seq(Nat) /\ Len(lines) \in Nat /\ DOMAIN lines = 1 .. Len(lines) /\ \A i \in DOMAIN lines : lines[i] \in Nat
  BY <1>2, MarkersAre
<1>4. PICK begins \in BOOLEAN : begins <=> st.state = "Run" /\ EndsRun(old.last)
  OBVIOUS
<1>5. PICK next : next = IF p # old.path \/ begins THEN 1 ELSE old.next
  OBVIOUS
<1>6. PICK at : at = IF st.state \in Paused /\ (old.last \notin Paused \/ p # old.path)
                     THEN SelectMarker(lines, next, st.prog) ELSE 0
  OBVIOUS
<1>7. PICK n, marker : n = (IF at = 0 THEN next ELSE at + 1) /\ marker = IF at = 0 THEN None ELSE lines[at]
  OBVIOUS
<1>8. ctx = [meta |-> [path |-> p, next |-> n, last |-> st.state], marker |-> marker]
  BY <1>2, <1>4, <1>5, <1>6, <1>7 DEF AttentionContext, MarkersOf
<1>9. next \in Nat \ {0} /\ (old.path = p /\ ~begins => next = old.next)
  BY <1>1, <1>5
<1>10. at = 0 \/ (at \in DOMAIN lines /\ at \in Nat /\ next <= at /\ st.state \in Paused)
  BY <1>1, <1>3, <1>6, <1>9, SelectIs
<1>11. n \in Nat /\ n # 0 /\ next <= n /\ marker \in Nat \cup {None} /\ (marker # None => at # 0 /\ marker = lines[at] /\ at < n)
  BY <1>3, <1>7, <1>9, <1>10
<1>12. ctx.meta = [path |-> p, next |-> n, last |-> st.state] /\ ctx.marker = marker
  BY <1>8
<1>13. ctx.meta \in Metas /\ ctx.meta.next = n /\ ctx.meta.path = p /\ ctx.meta.last = st.state
  BY <1>1, <1>11, <1>12 DEF Metas
<1>14. st.state \in Paused => ~begins
  BY <1>4 DEF Paused
<1>15. marker # None =>
         /\ st.state \in Paused
         /\ \E k \in DOMAIN lines : lines[k] = marker /\ k < n /\ (old.path = p => old.next <= k)
  <2> SUFFICES ASSUME marker # None
               PROVE  /\ st.state \in Paused
                      /\ at \in DOMAIN lines /\ lines[at] = marker /\ at < n /\ (old.path = p => old.next <= at)
    OBVIOUS
  <2> QED BY <1>9, <1>10, <1>11, <1>14
<1>16. old.path = p /\ ~begins => old.next <= n
  BY <1>9, <1>11
<1> QED BY <1>2, <1>4, <1>11, <1>12, <1>13, <1>15, <1>16

\* Past, after a step.
PastAfter(j) ==
    /\ \A i \in DOMAIN statusQ' : statusQ'[i].job = j => statusQ'[i].prog = NoProgress
    /\ fw'.job = j => fw'.file = None

\* No status tells of a job again that is over.
LEMMA PastStays ==
    ASSUME TypeOK, PlayerInv, [Next]_vars, NEW j \in Nat, j <= fw.job, Past(j)
    PROVE  PastAfter(j)
<1>1. fw.job \in Nat /\ statusQ \in Seq(Statuses)
  BY DEF TypeOK, Players
<1>2. CASE PlayerStep
  <2>1. statusQ' = statusQ
    BY <1>2, PlayerQuiet
  <2>2. fw'.job = j => fw'.file = None
    BY <1>1, <1>2, PlayerEffect DEF Past, PastAfter
  <2> QED BY <2>1, <2>2 DEF Past, PastAfter
<1>3. CASE Observe
  <2>1. fw' = fw
    BY <1>3 DEF Observe
  <2>2. Now \in Statuses /\ (statusQ' = statusQ \/ statusQ' = Append(statusQ, Now))
    BY <1>3, ObserveEffect
  <2>3. Now.job = j => Now.prog = NoProgress
    BY DEF Past, Now
  <2>4. \A i \in DOMAIN statusQ' : statusQ'[i].job = j => statusQ'[i].prog = NoProgress
    <3>1. PICK x : x = Now
      OBVIOUS
    <3>2. CASE statusQ' = statusQ
      BY <3>2 DEF Past, PastAfter
    <3>3. CASE statusQ' = Append(statusQ, x)
      <4>1. /\ DOMAIN statusQ = 1 .. Len(statusQ) /\ Len(statusQ) \in Nat /\ DOMAIN statusQ' = 1 .. Len(statusQ) + 1
            /\ statusQ'[Len(statusQ) + 1] = x /\ \A i \in DOMAIN statusQ : statusQ'[i] = statusQ[i]
        BY <1>1, <2>2, <3>1, <3>3, AppendIs
      <4>2. \A i \in DOMAIN statusQ' : i = Len(statusQ) + 1 \/ i \in DOMAIN statusQ
        BY <4>1
      <4>3. \A i \in DOMAIN statusQ : statusQ[i].job = j => statusQ[i].prog = NoProgress
        BY DEF Past, PastAfter
      <4> QED BY <2>3, <3>1, <4>1, <4>2, <4>3
    <3> QED BY <2>2, <3>1, <3>2, <3>3
  <2> QED BY <2>1, <2>4 DEF Past, PastAfter
<1>4. CASE ObserveStatus
  <2>1. fw' = fw
    BY <1>4 DEF ObserveStatus
  <2>2. statusQ # <<>> /\ statusQ' = Tail(statusQ)
    BY <1>4 DEF ObserveStatus
  <2>3. \A i \in DOMAIN statusQ' : i + 1 \in DOMAIN statusQ /\ statusQ'[i] = statusQ[i + 1]
    BY <1>1, <2>2, TailIs
  <2> QED BY <2>1, <2>3 DEF Past, PastAfter
<1>5. CASE UNCHANGED <<fw, statusQ>>
  BY <1>5 DEF Past, PastAfter
<1> QED BY <1>2, <1>3, <1>4, <1>5, StepCases

\* What the observer does with a status.
LEMMA StatusEffect ==
    ASSUME TypeOK, EpisodeInv, meta.next # 0, ObserveStatus
    PROVE  \E st \in Statuses, marker \in Nat \cup {None}, changes \in Seq(Changes) :
             /\ st = statusQ[1]
             /\ Episodes(att') /\ att'.last = st.state /\ Follow(att, st, marker, att')
             /\ meta' \in Metas /\ meta'.next # 0 /\ meta'.path = path /\ meta'.last = st.state
             /\ marker # None =>
                  /\ st.state \in Paused
                  /\ \E k \in DOMAIN MarkersOf(path) : /\ MarkersOf(path)[k] = marker /\ k < meta'.next
                                                       /\ meta.path = path => meta.next <= k
             /\ meta.path = path /\ ~(st.state = "Run" /\ EndsRun(meta.last)) => meta.next <= meta'.next
             /\ Publish(changes) /\ path' = path /\ fw' = fw
<1>1. PICK st : st = statusQ[1]
  OBVIOUS
<1>2. st \in Statuses /\ Head(statusQ) = st
  BY <1>1, TakeEffect
<1>3. PICK ctx : ctx = AttentionContext(meta, path, st)
  OBVIOUS
<1>4. PICK seen : seen = MonitorStatus(att, st, ctx.marker)
  OBVIOUS
<1>5. meta' = ctx.meta /\ att' = seen.m /\ Publish(seen.changes) /\ path' = path /\ fw' = fw
  BY <1>2, <1>3, <1>4 DEF ObserveStatus
<1>6. meta \in Metas /\ path \in Paths
  BY DEF TypeOK
<1>7. /\ ctx.meta \in Metas /\ ctx.meta.next # 0 /\ ctx.meta.path = path /\ ctx.meta.last = st.state
      /\ ctx.marker \in Nat \cup {None}
      /\ ctx.marker # None =>
           /\ st.state \in Paused
           /\ \E k \in DOMAIN MarkersOf(path) : /\ MarkersOf(path)[k] = ctx.marker /\ k < ctx.meta.next
                                                /\ meta.path = path => meta.next <= k
      /\ meta.path = path /\ ~(st.state = "Run" /\ EndsRun(meta.last)) => meta.next <= ctx.meta.next
  BY <1>2, <1>3, <1>6, ContextIs
<1>8. PICK marker : marker = ctx.marker
  OBVIOUS
<1>9. Episodes(seen.m) /\ seen.m.last = st.state /\ seen.changes \in Seq(Changes) /\ Follow(att, st, marker, seen.m)
  <2>1. Episodes(att)
    BY DEF EpisodeInv
  <2>2. marker \in Nat \cup {None} /\ (marker # None => st.state \in Paused) /\ seen = MonitorStatus(att, st, marker)
    BY <1>4, <1>7, <1>8
  <2> QED BY <1>2, <2>1, <2>2, MonitorIs
<1>10. PICK changes : changes = seen.changes
  OBVIOUS
<1>11. /\ Episodes(att') /\ att'.last = st.state /\ changes \in Seq(Changes) /\ Follow(att, st, marker, att') /\ Publish(changes)
  BY <1>5, <1>9, <1>10
<1>12. /\ meta' \in Metas /\ meta'.next # 0 /\ meta'.path = path /\ meta'.last = st.state /\ marker \in Nat \cup {None}
       /\ marker # None =>
            /\ st.state \in Paused
            /\ \E k \in DOMAIN MarkersOf(path) : /\ MarkersOf(path)[k] = marker /\ k < meta'.next
                                                 /\ meta.path = path => meta.next <= k
       /\ meta.path = path /\ ~(st.state = "Run" /\ EndsRun(meta.last)) => meta.next <= meta'.next
  BY <1>5, <1>7, <1>8
<1>13. st \in Statuses /\ path' = path /\ fw' = fw
  BY <1>2, <1>5
<1> HIDE DEF Publish
<1> QED BY <1>1, <1>11, <1>12, <1>13

LEMMA EpisodeKept ==
    ASSUME TypeOK, EpisodeInv, meta.next # 0, [Next]_vars
    PROVE  EpisodeInv' /\ meta' \in Metas /\ meta'.next # 0
<1>1. CASE ObserveStatus
  BY <1>1, StatusEffect DEF EpisodeInv
<1>2. CASE UNCHANGED <<att, meta>>
  BY <1>2 DEF EpisodeInv, TypeOK
<1> QED BY <1>1, <1>2, StepCases

\* A status that shows no progress is the last to tell of its job.
LEMMA EndIsPast ==
    ASSUME TypeOK, PlayerInv, QueueInv, ObserveStatus, NEW j \in Nat, j <= statusQ[1].job, EndsRun(statusQ[1].state)
    PROVE  PastAfter(j)
<1>1. /\ statusQ \in Seq(Statuses) /\ statusQ # <<>> /\ statusQ' = Tail(statusQ) /\ fw' = fw /\ statusQ[1] \in Statuses
      /\ fw.job \in Nat
  BY TakeEffect DEF ObserveStatus, TypeOK, Players
<1>2. /\ Len(statusQ) \in Nat \ {0} /\ DOMAIN statusQ = 1 .. Len(statusQ)
      /\ \A i \in DOMAIN statusQ' : i + 1 \in DOMAIN statusQ /\ statusQ'[i] = statusQ[i + 1] /\ 1 < i + 1
  BY <1>1, TailIs
<1>3. 1 \in DOMAIN statusQ /\ statusQ[1].job \in Nat /\ \A k \in DOMAIN statusQ : statusQ[k] \in Statuses /\ statusQ[k].job \in Nat
  <2>1. \A k \in DOMAIN statusQ : statusQ[k] \in Statuses
    BY <1>1, <1>2, ElementOfSeq
  <2> QED BY <1>2, <2>1 DEF Statuses
<1>4. statusQ[1].prog = NoProgress /\ statusQ[1].job <= fw.job /\ (statusQ[1].job = fw.job => fw.file = None)
  BY <1>3 DEF QueueInv
<1>5. \A i \in DOMAIN statusQ : 1 < i =>
        statusQ[1].job <= statusQ[i].job /\ (statusQ[1].job = statusQ[i].job => statusQ[i].prog = NoProgress)
  BY <1>3, <1>4 DEF QueueInv
<1>6. \A i \in DOMAIN statusQ' : statusQ'[i].job = j => statusQ'[i].prog = NoProgress
  BY <1>2, <1>3, <1>5
<1>7. fw'.job = j => fw'.file = None
  BY <1>1, <1>3, <1>4
<1> QED BY <1>6, <1>7 DEF Past, PastAfter

\* What becomes of one event.
Same(i, d) ==
    /\ i + d \in DOMAIN att.events /\ att'.events[i].job = att.events[i + d].job
    /\ att'.events[i].marker = att.events[i + d].marker
    /\ i = att'.active => att.active = i + d /\ (att.last = "Alarm" => att'.last = "Alarm")
Told(i, d, marker) ==
    /\ i + d \in DOMAIN att.events /\ att'.events[i].job = att.events[i + d].job
    /\ i = att'.active /\ i + d = att.active /\ att.events[att.active].marker = None
    /\ marker # None /\ att'.events[i].marker = marker /\ att.last # "Alarm"
Fresh(i, st, marker) ==
    /\ i = att'.active /\ att'.events[i].job = st.job /\ att'.events[i].marker = marker
    /\ KindFor(st.state, None) # ""

LEMMA MarkerTaken ==
    ASSUME TypeOK, PlayerInv, QueueInv, EpisodeInv, MarkerInv, ObserveStatus, [Next]_vars
    PROVE  MarkerInv'
<1> DEFINE o == att.events
<1> DEFINE e == att'.events
<1>1. PICK st \in Statuses, marker \in Nat \cup {None} :
             /\ st = statusQ[1]
             /\ Episodes(att') /\ att'.last = st.state /\ Follow(att, st, marker, att')
             /\ meta' \in Metas /\ meta'.next # 0 /\ meta'.path = path /\ meta'.last = st.state
             /\ marker # None =>
                  /\ st.state \in Paused
                  /\ \E k \in DOMAIN MarkersOf(path) : /\ MarkersOf(path)[k] = marker /\ k < meta'.next
                                                       /\ meta.path = path => meta.next <= k
             /\ meta.path = path /\ ~(st.state = "Run" /\ EndsRun(meta.last)) => meta.next <= meta'.next
             /\ path' = path /\ fw' = fw
  <2>1. meta.next # 0
    BY DEF MarkerInv
  <2> QED BY <2>1, StatusEffect
<1>2. PICK d \in Nat : \A i \in DOMAIN e : Same(i, d) \/ Told(i, d, marker) \/ Fresh(i, st, marker)
  <2>1. Follow(att, st, marker, att')
    BY <1>1
  <2> QED BY <2>1 DEF Follow, Same, Told, Fresh
<1>3. /\ Len(e) \in Nat /\ DOMAIN e = 1 .. Len(e) /\ att'.active \in {0, Len(e)}
      /\ \A i \in DOMAIN e : e[i].job \in Nat /\ e[i].marker \in Nat \cup {None}
  <2>1. e \in Seq(Events) /\ att'.active \in {0, Len(e)}
    BY <1>1 DEF Episodes, Monitors
  <2> QED BY <2>1, EventsAre
<1>4. /\ DOMAIN o = 1 .. Len(o) /\ att.active \in Nat
      /\ \A i \in DOMAIN o : o[i].job \in Nat /\ o[i].marker \in Nat \cup {None}
  <2>1. o \in Seq(Events) /\ att.active \in Nat
    BY DEF EpisodeInv, Episodes, Monitors
  <2> QED BY <2>1, EventsAre
<1>5. /\ statusQ \in Seq(Statuses) /\ 1 \in DOMAIN statusQ /\ st.job \in Nat /\ fw.job \in Nat /\ st.job <= fw.job
      /\ (EndsRun(st.state) <=> st.prog = NoProgress)
      /\ \A k \in DOMAIN statusQ' : k + 1 \in DOMAIN statusQ /\ statusQ'[k] = statusQ[k + 1] /\ st.job <= statusQ'[k].job
  <2>1. /\ statusQ \in Seq(Statuses) /\ statusQ # <<>> /\ statusQ' = Tail(statusQ) /\ fw.job \in Nat /\ st.job \in Nat
    BY <1>1, TakeEffect DEF TypeOK, Players, Statuses
  <2>2. /\ Len(statusQ) \in Nat \ {0} /\ DOMAIN statusQ = 1 .. Len(statusQ)
        /\ \A k \in DOMAIN statusQ' : k + 1 \in DOMAIN statusQ /\ statusQ'[k] = statusQ[k + 1] /\ 1 < k + 1
    BY <2>1, TailIs
  <2>3. 1 \in DOMAIN statusQ
    BY <2>2
  <2>4. st.job <= fw.job /\ (EndsRun(st.state) <=> st.prog = NoProgress)
    BY <1>1, <2>3 DEF QueueInv
  <2>5. \A k \in DOMAIN statusQ : 1 < k => st.job <= statusQ[k].job
    BY <1>1, <2>3 DEF QueueInv
  <2> QED BY <2>1, <2>2, <2>3, <2>4, <2>5
<1>6. \A i \in DOMAIN o : o[i].job <= st.job /\ o[i].job <= fw.job
  BY <1>1, <1>5 DEF MarkerInv
<1>7. \A i \in DOMAIN e : e[i].job <= st.job
  <2>1. \A i \in DOMAIN e : (i + d \in DOMAIN o /\ e[i].job = o[i + d].job) \/ e[i].job = st.job
    BY <1>2 DEF Same, Told, Fresh
  <2> QED BY <1>5, <1>6, <2>1
<1>8. EndsRun(st.state) => \A i \in DOMAIN e : PastAfter(e[i].job)
  <2> SUFFICES ASSUME EndsRun(st.state), NEW i \in DOMAIN e PROVE PastAfter(e[i].job)
    OBVIOUS
  <2>1. PICK j \in Nat : j = e[i].job
    BY <1>3
  <2>2. j <= statusQ[1].job
    BY <1>1, <1>7, <2>1
  <2>3. PastAfter(j)
    BY <1>1, <2>2, EndIsPast
  <2> QED BY <2>1, <2>3
<1>9. \A i \in DOMAIN e :
         /\ e[i].job <= fw'.job
         /\ \A k \in DOMAIN statusQ' : e[i].job <= statusQ'[k].job
         /\ EndsRun(meta'.last) => PastAfter(e[i].job)
  <2>1. \A k \in DOMAIN statusQ' : statusQ'[k].job \in Nat
    <3>1. \A k \in DOMAIN statusQ : statusQ[k] \in Statuses
      BY <1>5, LenProperties, ElementOfSeq
    <3> QED BY <1>5, <3>1 DEF Statuses
  <2>2. fw'.job = fw.job /\ meta'.last = st.state
    BY <1>1
  <2> QED BY <1>3, <1>5, <1>7, <1>8, <2>1, <2>2
<1>10. ASSUME "select" \notin scene.requests
       PROVE  /\ path' = scene.path
              /\ \A i \in DOMAIN e : PastAfter(e[i].job) \/ Before(meta'.next, path, e[i].marker)
              /\ att'.active # 0 /\ e[att'.active].marker = None /\ att'.last # "Alarm" =>
                   \A i \in DOMAIN e : e[i].job = e[att'.active].job => Before(meta'.next, path, e[i].marker)
              /\ MarkersGoForward'
  <2>1. /\ path' = scene.path /\ (DOMAIN o # {} => meta.path = path)
        /\ \A j \in DOMAIN o : Past(o[j].job) \/ Before(meta.next, path, o[j].marker)
        /\ att.active # 0 /\ o[att.active].marker = None /\ att.last # "Alarm" =>
             \A j \in DOMAIN o : o[j].job = o[att.active].job => Before(meta.next, path, o[j].marker)
        /\ \A i, j \in DOMAIN o : i < j /\ o[i].job = o[j].job /\ o[i].marker # None /\ o[j].marker # None
                                    => o[i].marker < o[j].marker
    BY <1>1, <1>10 DEF MarkerInv, Passed, MarkersGoForward
  <2>2. PICK begins \in BOOLEAN : begins <=> st.state = "Run" /\ EndsRun(meta.last)
    OBVIOUS
  <2>3. begins => att'.active = 0 /\ \A j \in DOMAIN o : Past(o[j].job)
    <3>1. KindFor("Run", None) = ""
      BY DEF KindFor, Paused
    <3>2. begins => att'.active = 0
      BY <1>1, <2>2, <3>1 DEF Episodes
    <3>3. begins => \A j \in DOMAIN o : Past(o[j].job)
      BY <2>2 DEF MarkerInv
    <3> QED BY <3>2, <3>3
  <2>4. meta.next \in Nat /\ meta'.next \in Nat /\ DOMAIN MarkersOf(path) \subseteq Nat
    <3>1. path \in Paths
      BY DEF TypeOK
    <3>2. DOMAIN MarkersOf(path) = 1 .. Len(MarkersOf(path)) /\ Len(MarkersOf(path)) \in Nat
      BY <3>1, MarkersAre
    <3> QED BY <1>1, <3>2 DEF TypeOK, Metas
  <2>5. \A j \in DOMAIN o : Before(meta.next, path, o[j].marker) /\ ~begins => Before(meta'.next, path, o[j].marker)
    <3>1. DOMAIN o # {} /\ ~begins => meta.next <= meta'.next
      BY <1>1, <2>1, <2>2
    <3>2. \A x : meta.next <= meta'.next /\ Before(meta.next, path, x) => Before(meta'.next, path, x)
      BY <2>4 DEF Before
    <3> QED BY <3>1, <3>2
  <2>6. Before(meta'.next, path, marker)
    BY <1>1 DEF Before
  <2>7. \A i \in DOMAIN e : PastAfter(e[i].job) \/ Before(meta'.next, path, e[i].marker)
    <3> SUFFICES ASSUME NEW i \in DOMAIN e PROVE PastAfter(e[i].job) \/ Before(meta'.next, path, e[i].marker)
      OBVIOUS
    <3>1. CASE Same(i, d)
      <4>1. i + d \in DOMAIN o /\ e[i].job = o[i + d].job /\ e[i].marker = o[i + d].marker
        BY <3>1 DEF Same
      <4>2. Past(o[i + d].job) => PastAfter(e[i].job)
        <5>1. PICK j \in Nat : j = o[i + d].job /\ j <= fw.job
          BY <1>4, <1>6, <4>1
        <5>2. Past(j) => PastAfter(j)
          BY <5>1, PastStays
        <5> QED BY <4>1, <5>1, <5>2
      <4> QED BY <2>1, <2>3, <2>5, <4>1, <4>2
    <3>2. CASE Told(i, d, marker) \/ Fresh(i, st, marker)
      BY <2>6, <3>2 DEF Told, Fresh
    <3> QED BY <1>2, <3>1, <3>2
  <2>8. \A j \in DOMAIN o : o[j].job = st.job /\ ~EndsRun(st.state) => Before(meta.next, path, o[j].marker)
    <3>1. \A j \in DOMAIN o : o[j].job = st.job /\ Past(o[j].job) => EndsRun(st.state)
      BY <1>1, <1>5 DEF Past
    <3> QED BY <2>1, <3>1
  <2>9. ASSUME att'.active # 0, e[att'.active].marker = None, att'.last # "Alarm",
               NEW i \in DOMAIN e, e[i].job = e[att'.active].job
        PROVE  Before(meta'.next, path, e[i].marker)
    <3>1. ~begins /\ att'.active \in DOMAIN e
      BY <1>3, <2>3, <2>9
    <3>2. CASE Same(i, d)
      <4>1. i + d \in DOMAIN o /\ e[i].job = o[i + d].job /\ e[i].marker = o[i + d].marker
        BY <3>2 DEF Same
      <4>2. CASE Same(att'.active, d)
        <5>1. /\ att.active = att'.active + d /\ att.active \in DOMAIN o /\ o[att.active].marker = None
              /\ att.last # "Alarm" /\ o[att.active].job = o[i + d].job
          BY <2>9, <4>1, <4>2 DEF Same
        <5>2. att.active # 0
          BY <1>4, <5>1
        <5>3. Before(meta.next, path, o[i + d].marker)
          BY <2>1, <4>1, <5>1, <5>2
        <5> QED BY <2>5, <3>1, <4>1, <5>3
      <4>3. CASE Told(att'.active, d, marker)
        BY <2>9, <4>3 DEF Told
      <4>4. CASE Fresh(att'.active, st, marker)
        <5>1. o[i + d].job = st.job /\ KindFor(st.state, None) # ""
          BY <2>9, <4>1, <4>4 DEF Fresh
        <5>2. st.state # "Alarm"
          BY <1>1, <2>9
        <5>3. ~EndsRun(st.state)
          BY <5>1, <5>2 DEF EndsRun, KindFor, Paused
        <5> QED BY <2>5, <2>8, <3>1, <4>1, <5>1, <5>3
      <4> QED BY <1>2, <3>1, <4>2, <4>3, <4>4
    <3>3. CASE Told(i, d, marker) \/ Fresh(i, st, marker)
      BY <2>6, <3>3 DEF Told, Fresh
    <3> QED BY <1>2, <3>2, <3>3
  <2>10. \A j \in DOMAIN o : /\ marker # None /\ o[j].marker # None /\ Before(meta.next, path, o[j].marker)
                             => o[j].marker < marker
    <3> SUFFICES ASSUME NEW j \in DOMAIN o, marker # None, o[j].marker # None, Before(meta.next, path, o[j].marker)
                 PROVE  o[j].marker < marker
      OBVIOUS
    <3>1. meta.path = path
      BY <2>1
    <3>2. PICK k \in DOMAIN MarkersOf(path) : MarkersOf(path)[k] = marker /\ meta.next <= k
      BY <1>1, <3>1
    <3>3. PICK n \in DOMAIN MarkersOf(path) : MarkersOf(path)[n] = o[j].marker /\ n < meta.next
      BY DEF Before
    <3>4. n < k
      BY <2>4, <3>2, <3>3
    <3>5. path \in Paths
      BY DEF TypeOK
    <3> QED BY <3>2, <3>3, <3>4, <3>5, MarkersAre
  <2>11. ASSUME NEW i \in DOMAIN e, NEW j \in DOMAIN e, i < j, e[i].job = e[j].job, e[i].marker # None, e[j].marker # None
         PROVE  e[i].marker < e[j].marker
    <3>1. i # att'.active
      BY <1>3, <2>11
    <3>2. i + d \in DOMAIN o /\ e[i].job = o[i + d].job /\ e[i].marker = o[i + d].marker
      BY <1>2, <3>1 DEF Same, Told, Fresh
    <3>3. CASE Same(j, d)
      <4>1. j + d \in DOMAIN o /\ e[j].job = o[j + d].job /\ e[j].marker = o[j + d].marker
        BY <3>3 DEF Same
      <4>2. i + d < j + d
        BY <1>3, <2>11
      <4> QED BY <2>1, <2>11, <3>2, <4>1, <4>2
    <3>4. CASE Told(j, d, marker)
      <4>1. /\ att.active \in DOMAIN o /\ e[j].job = o[att.active].job /\ o[att.active].marker = None
            /\ marker # None /\ e[j].marker = marker /\ att.last # "Alarm"
        BY <3>4 DEF Told
      <4>2. att.active # 0
        BY <1>4, <4>1
      <4>3. Before(meta.next, path, o[i + d].marker)
        BY <2>1, <2>11, <3>2, <4>1, <4>2
      <4> QED BY <2>10, <2>11, <3>2, <4>1, <4>3
    <3>5. CASE Fresh(j, st, marker)
      <4>1. e[j].job = st.job /\ e[j].marker = marker /\ st.state \in Paused
        BY <1>1, <2>11, <3>5 DEF Fresh
      <4>2. ~EndsRun(st.state)
        BY <4>1 DEF EndsRun, Paused
      <4> QED BY <2>8, <2>10, <2>11, <3>2, <4>1, <4>2
    <3> QED BY <1>2, <3>3, <3>4, <3>5
  <2>12. MarkersGoForward'
    BY <2>11 DEF MarkersGoForward
  <2> QED BY <2>1, <2>7, <2>9, <2>12
<1>11. scene' = scene
  BY StepCases
<1> QED BY <1>1, <1>9, <1>10, <1>11 DEF MarkerInv, Passed, Past, PastAfter

LEMMA MarkerKept ==
    ASSUME TypeOK, PlayerInv, QueueInv, EpisodeInv, MarkerInv, [Next]_vars
    PROVE  MarkerInv'
<1>1. CASE ObserveStatus
  BY <1>1, MarkerTaken
<1>2. CASE ~ObserveStatus
  <2>1. att' = att /\ meta' = meta /\ scene' = scene
    BY <1>2, StepCases
  <2>2. \A i \in DOMAIN att.events : att.events[i].job \in Nat /\ att.events[i].job <= fw.job
    <3>1. att.events \in Seq(Events)
      BY DEF TypeOK, Monitors
    <3> QED BY <3>1, EventsAre DEF MarkerInv
  <2>3. fw.job \in Nat /\ fw'.job \in Nat /\ fw.job <= fw'.job
    <3>1. fw.job \in Nat
      BY DEF TypeOK, Players
    <3>2. CASE PlayerStep
      BY <3>1, <3>2, PlayerEffect
    <3>3. CASE UNCHANGED fw
      BY <3>1, <3>3
    <3> QED BY <3>2, <3>3, StepCases
  <2>4. \A k \in DOMAIN statusQ' : (k \in DOMAIN statusQ /\ statusQ'[k] = statusQ[k]) \/ statusQ'[k].job = fw.job
    <3>1. CASE statusQ' = statusQ
      BY <3>1
    <3>2. CASE Observe
      <4>1. PICK x : x = Now
        OBVIOUS
      <4>2. statusQ \in Seq(Statuses) /\ x \in Statuses /\ (statusQ' = statusQ \/ statusQ' = Append(statusQ, x))
        BY <3>2, <4>1, ObserveEffect DEF TypeOK
      <4>3. x.job = fw.job
        BY <4>1 DEF Now
      <4>4. /\ DOMAIN statusQ = 1 .. Len(statusQ) /\ Len(statusQ) \in Nat /\ DOMAIN Append(statusQ, x) = 1 .. Len(statusQ) + 1
            /\ Append(statusQ, x)[Len(statusQ) + 1] = x /\ \A k \in DOMAIN statusQ : Append(statusQ, x)[k] = statusQ[k]
        BY <4>2, AppendIs
      <4>5. \A k \in DOMAIN Append(statusQ, x) : k \in DOMAIN statusQ \/ k = Len(statusQ) + 1
        BY <4>4
      <4> QED BY <4>2, <4>3, <4>4, <4>5
    <3> QED BY <1>2, <3>1, <3>2, PlayerQuiet, StepCases
  <2>5. \A i \in DOMAIN att.events : Past(att.events[i].job) => PastAfter(att.events[i].job)
    BY <2>2, PastStays
  <2>6. \A i \in DOMAIN att.events :
          /\ att.events[i].job <= fw'.job
          /\ \A k \in DOMAIN statusQ' : att.events[i].job <= statusQ'[k].job
          /\ EndsRun(meta.last) => PastAfter(att.events[i].job)
    <3>1. \A i \in DOMAIN att.events :
            /\ \A k \in DOMAIN statusQ : att.events[i].job <= statusQ[k].job
            /\ EndsRun(meta.last) => Past(att.events[i].job)
      BY DEF MarkerInv
    <3>2. ASSUME NEW i \in DOMAIN att.events, NEW k \in DOMAIN statusQ'
          PROVE  att.events[i].job <= statusQ'[k].job
      BY <2>2, <2>4, <3>1
    <3> QED BY <2>2, <2>3, <2>5, <3>1, <3>2
  <2>7. "select" \notin scene.requests => path' = path
    BY StepCases
  <2>8. "select" \notin scene.requests =>
          /\ path' = scene.path
          /\ meta.path # path' => att.events = <<>>
          /\ \A i \in DOMAIN att.events : PastAfter(att.events[i].job) \/ Before(meta.next, path', att.events[i].marker)
          /\ att.active # 0 /\ att.events[att.active].marker = None /\ att.last # "Alarm" =>
               \A i \in DOMAIN att.events : att.events[i].job = att.events[att.active].job
                                              => Before(meta.next, path', att.events[i].marker)
          /\ MarkersGoForward
    BY <2>5, <2>7 DEF MarkerInv, Passed
  <2>9. meta.next # 0 /\ MarkersGoForward' = MarkersGoForward
    BY <2>1 DEF MarkerInv, MarkersGoForward
  <2> QED BY <2>1, <2>6, <2>8, <2>9 DEF MarkerInv, Passed, Past, PastAfter
<1> QED BY <1>1, <1>2

-----------------------------------------------------------------------------
(* The dispatcher.                                                          *)

NewDelivery(d, kind, event) == [id |-> d.next, kind |-> kind, event |-> event, state |-> "sending"]

\* A delivery joins the ones that are retained.
Grown(q, o, new) ==
    \E s \in Nat : \A i \in DOMAIN q : \/ i + s \in DOMAIN o /\ i # Len(q) /\ q[i] = o[i + s]
                                       \/ i = Len(q) /\ q[i] = new

LEMMA BegunIs ==
    ASSUME NEW d \in Dispatchers, NEW kind \in {"opened", "resolved", "test"}, NEW event \in Nat,
           NEW r, r = Begun(d, kind, event)
    PROVE  /\ r = [d EXCEPT !.deliveries = r.deliveries, !.next = d.next + 1]
           /\ r.deliveries \in Seq(Deliveries)
           /\ Grown(r.deliveries, d.deliveries, NewDelivery(d, kind, event))
<1>1. d.deliveries \in Seq(Deliveries) /\ d.next \in Nat /\ DeliveryCap \in Nat \ {0}
  BY Caps DEF Dispatchers
<1>0. PICK new : new = NewDelivery(d, kind, event)
  OBVIOUS
<1>2. new \in Deliveries
  BY <1>0, <1>1 DEF Deliveries, NewDelivery
<1>3. PICK q, e : q = Append(d.deliveries, new) /\ e = Newest(q, DeliveryCap)
  OBVIOUS
<1>4. r = [d EXCEPT !.deliveries = e, !.next = d.next + 1]
  BY <1>0, <1>3 DEF Begun, NewDelivery
<1>5. r.deliveries = e
  BY <1>4 DEF Dispatchers
<1>6. /\ q \in Seq(Deliveries) /\ Len(d.deliveries) \in Nat /\ Len(q) = Len(d.deliveries) + 1
      /\ DOMAIN d.deliveries = 1 .. Len(d.deliveries)
      /\ q[Len(d.deliveries) + 1] = new /\ \A i \in DOMAIN d.deliveries : q[i] = d.deliveries[i]
  BY <1>1, <1>2, <1>3, AppendIs
<1>7. /\ e \in Seq(Deliveries) /\ Len(e) \in Nat /\ DOMAIN e = 1 .. Len(e) /\ DOMAIN q = 1 .. Len(q)
      /\ EndOf(e, q)
  <2>1. /\ Newest(q, DeliveryCap) \in Seq(Deliveries) /\ Len(Newest(q, DeliveryCap)) \in Nat /\ DOMAIN q = 1 .. Len(q)
        /\ DOMAIN Newest(q, DeliveryCap) = 1 .. Len(Newest(q, DeliveryCap))
        /\ EndOf(Newest(q, DeliveryCap), q)
    BY <1>1, <1>6, NewestIs
  <2> QED BY <1>3, <2>1
<1>8. PICK s \in Nat : Len(e) + s = Len(q) /\ \A i \in DOMAIN e : i + s \in DOMAIN q /\ e[i] = q[i + s]
  BY <1>7 DEF EndOf
<1>9. \A i \in DOMAIN e : \/ i + s \in DOMAIN d.deliveries /\ i # Len(e) /\ e[i] = d.deliveries[i + s]
                          \/ i = Len(e) /\ e[i] = new
  <2>1. ASSUME NEW i \in DOMAIN e, i # Len(e) PROVE i + s \in DOMAIN d.deliveries /\ e[i] = d.deliveries[i + s]
    BY <1>6, <1>7, <1>8, <2>1
  <2>2. ASSUME NEW i \in DOMAIN e, i = Len(e) PROVE e[i] = new
    BY <1>6, <1>7, <1>8, <2>2
  <2> QED BY <2>1, <2>2
<1>10. Grown(e, d.deliveries, new)
  BY <1>9 DEF Grown
<1> QED BY <1>0, <1>4, <1>5, <1>7, <1>10

\* The parts of DeliveryInv, for a list of deliveries.
Keyed(q, seen) == \A i \in DOMAIN q : q[i].kind # "test" => <<q[i].kind, q[i].event>> \in seen
Once(q) == \A i, j \in DOMAIN q : q[i].kind # "test" /\ i # j /\ q[i].event = q[j].event => q[i].kind # q[j].kind
InProgress(q, ids) == \A i \in DOMAIN q : q[i].state = "sending" => q[i].id \in ids

LEMMA DeliveriesAre ==
    ASSUME NEW q \in Seq(Deliveries)
    PROVE  /\ DOMAIN q = 1 .. Len(q) /\ Len(q) \in Nat
           /\ \A i \in DOMAIN q : q[i] \in Deliveries /\ q[i].id \in Nat
<1>1. Len(q) \in Nat /\ DOMAIN q = 1 .. Len(q)
  BY LenProperties
<1>2. \A i \in DOMAIN q : q[i] \in Deliveries
  BY <1>1, ElementOfSeq
<1> QED BY <1>1, <1>2 DEF Deliveries

\* The key of a delivery is new, and kept from now on.
Marks(d, kind, event, seen) ==
    /\ kind # "test" => <<kind, event>> \notin d.seen
    /\ d.seen \subseteq seen
    /\ kind # "test" => <<kind, event>> \in seen

LEMMA BegunKeeps ==
    ASSUME NEW d \in Dispatchers, NEW kind \in {"opened", "resolved", "test"}, NEW event \in Nat,
           Keyed(d.deliveries, d.seen), Once(d.deliveries), NEW seen, Marks(d, kind, event, seen),
           NEW ids, InProgress(d.deliveries, ids), d.next \in ids,
           NEW r, r = Begun(d, kind, event)
    PROVE  Keyed(r.deliveries, seen) /\ Once(r.deliveries) /\ InProgress(r.deliveries, ids)
<1>1. PICK new : new = NewDelivery(d, kind, event)
  OBVIOUS
<1>2. new.id = d.next /\ new.kind = kind /\ new.event = event
  BY <1>1 DEF NewDelivery
<1>3. r.deliveries \in Seq(Deliveries)
  BY <1>1, BegunIs
<1>4. Grown(r.deliveries, d.deliveries, new)
  BY <1>1, BegunIs
<1>5. PICK q, o : q = r.deliveries /\ o = d.deliveries
  OBVIOUS
<1>a. PICK s \in Nat : \A i \in DOMAIN q : \/ i + s \in DOMAIN o /\ i # Len(q) /\ q[i] = o[i + s]
                                           \/ i = Len(q) /\ q[i] = new
  BY <1>4, <1>5 DEF Grown
<1>6. /\ DOMAIN q = 1 .. Len(q) /\ Len(q) \in Nat
      /\ \A i \in DOMAIN q : (i + s \in DOMAIN o /\ i # Len(q) /\ q[i] = o[i + s]) \/ (i = Len(q) /\ q[i] = new)
  BY <1>3, <1>5, <1>a, DeliveriesAre
<1>7. Keyed(q, seen)
  <2>1. \A i \in DOMAIN o : o[i].kind # "test" => <<o[i].kind, o[i].event>> \in seen
    BY <1>5 DEF Keyed, Marks
  <2>2. kind # "test" => <<kind, event>> \in seen
    BY DEF Marks
  <2> QED BY <1>2, <1>6, <2>1, <2>2 DEF Keyed
<1>8. InProgress(q, ids)
  BY <1>2, <1>5, <1>6 DEF InProgress
<1>9. Once(q)
  <2> SUFFICES ASSUME NEW i \in DOMAIN q, NEW j \in DOMAIN q,
                      q[i].kind # "test", i # j, q[i].event = q[j].event, q[i].kind = q[j].kind
               PROVE  FALSE
    BY DEF Once
  <2>1. ASSUME NEW k \in DOMAIN o, o[k].kind # "test", o[k].kind = kind, o[k].event = event PROVE FALSE
    <3>1. <<o[k].kind, o[k].event>> \in d.seen
      BY <1>5, <2>1 DEF Keyed
    <3> QED BY <2>1, <3>1 DEF Marks
  <2>2. CASE i # Len(q) /\ j # Len(q)
    <3>1. i + s \in DOMAIN o /\ q[i] = o[i + s] /\ j + s \in DOMAIN o /\ q[j] = o[j + s] /\ i + s # j + s
      BY <1>6, <2>2
    <3> QED BY <1>5, <3>1 DEF Once
  <2>3. CASE i = Len(q)
    <3>1. q[i] = new /\ j + s \in DOMAIN o /\ q[j] = o[j + s]
      BY <1>6, <2>3
    <3> QED BY <1>2, <2>1, <3>1
  <2>4. CASE j = Len(q)
    <3>1. q[j] = new /\ i + s \in DOMAIN o /\ q[i] = o[i + s]
      BY <1>6, <2>4
    <3> QED BY <1>2, <2>1, <3>1
  <2> QED BY <2>2, <2>3, <2>4
<1> QED BY <1>5, <1>7, <1>8, <1>9

LEMMA FinishedIs ==
    ASSUME NEW d \in Dispatchers, NEW id \in Nat, NEW r, r = Finished(d, id), NEW ids, InProgress(d.deliveries, ids),
           Keyed(d.deliveries, d.seen), Once(d.deliveries)
    PROVE  /\ r = [d EXCEPT !.deliveries = r.deliveries] /\ r.deliveries \in Seq(Deliveries)
           /\ InProgress(r.deliveries, ids \ {id}) /\ Keyed(r.deliveries, d.seen) /\ Once(r.deliveries)
<1>1. PICK o : o = d.deliveries
  OBVIOUS
<1>2. PICK q : q = [i \in DOMAIN o |-> IF o[i].id = id THEN [o[i] EXCEPT !.state = "done"] ELSE o[i]]
  OBVIOUS
<1>3. r = [d EXCEPT !.deliveries = q]
  BY <1>1, <1>2 DEF Finished
<1>4. r.deliveries = q
  BY <1>3 DEF Dispatchers
<1>5. o \in Seq(Deliveries)
  BY <1>1 DEF Dispatchers
<1>6. DOMAIN o = 1 .. Len(o) /\ Len(o) \in Nat /\ \A i \in DOMAIN o : o[i] \in Deliveries
  BY <1>5, DeliveriesAre
<1>7. ASSUME NEW i \in DOMAIN o
      PROVE  /\ q[i] \in Deliveries /\ q[i].kind = o[i].kind /\ q[i].event = o[i].event
             /\ q[i].state = "sending" => o[i].state = "sending" /\ q[i].id = o[i].id /\ o[i].id # id
  <2>1. PICK x : x = o[i]
    OBVIOUS
  <2>2. x \in Deliveries /\ q[i] = IF x.id = id THEN [x EXCEPT !.state = "done"] ELSE x
    BY <1>2, <1>6, <2>1
  <2>3. CASE x.id = id
    <3>1. q[i] = [x EXCEPT !.state = "done"]
      BY <2>2, <2>3
    <3>2. q[i] \in Deliveries /\ q[i].kind = x.kind /\ q[i].event = x.event /\ q[i].state = "done"
      BY <2>2, <3>1 DEF Deliveries
    <3> QED BY <2>1, <3>2
  <2>4. CASE x.id # id
    BY <2>1, <2>2, <2>4
  <2> QED BY <2>3, <2>4
<1>8. q \in Seq(Deliveries) /\ DOMAIN q = DOMAIN o
  <2>1. q \in [1 .. Len(o) -> Deliveries]
    <3>1. DOMAIN q = 1 .. Len(o) /\ q = [i \in DOMAIN q |-> q[i]]
      BY <1>2, <1>6
    <3> QED BY <1>6, <1>7, <3>1
  <2> QED BY <1>6, <2>1
<1>9. InProgress(q, ids \ {id})
  BY <1>1, <1>7, <1>8 DEF InProgress
<1>a. \A i \in DOMAIN q : q[i].kind = o[i].kind /\ q[i].event = o[i].event
  BY <1>7, <1>8
<1>b. Keyed(q, d.seen)
  BY <1>1, <1>8, <1>a DEF Keyed
<1>c. Once(q)
  BY <1>1, <1>8, <1>a DEF Once
<1>10. Keyed(q, d.seen) /\ Once(q)
  BY <1>b, <1>c
<1> QED BY <1>3, <1>4, <1>8, <1>9, <1>10

LEMMA DeliveryParts ==
    DeliveryInv <=> /\ disp.replay => disp.listens
                    /\ (disp.replay \/ ~disp.listens) => disp.sending = None
                    /\ Keyed(disp.deliveries, disp.seen) /\ Once(disp.deliveries)
                    /\ InProgress(disp.deliveries, tests \cup {disp.sending})
BY DEF DeliveryInv, Keyed, Once, InProgress, NotifiedOnce, NoDeliveryStuck

LEMMA HandleIs ==
    ASSUME disp \in Dispatchers, tests \subseteq Nat, DeliveryInv, disp.sending = None,
           NEW change \in Changes, NEW r, r = Handle(change)
    PROVE  /\ r \in Dispatchers /\ r.listens = disp.listens /\ r.replay = disp.replay
           /\ Keyed(r.deliveries, r.seen) /\ Once(r.deliveries) /\ InProgress(r.deliveries, tests \cup {r.sending})
<1>1. PICK key : key = <<change.kind, change.event.id>>
  OBVIOUS
<1>2. /\ change.kind \in {"opened", "updated", "resolved"} /\ change.event.id \in Nat
  BY DEF Changes, Events
<1>3. /\ Keyed(disp.deliveries, disp.seen) /\ Once(disp.deliveries) /\ InProgress(disp.deliveries, tests \cup {disp.sending})
  BY DeliveryParts
<1>4. CASE change.kind = "updated" \/ key \in disp.seen \/ r = disp
  <2>1. r = disp
    BY <1>1, <1>4 DEF Handle
  <2> QED BY <1>3, <2>1
<1>5. CASE change.kind # "updated" /\ key \notin disp.seen /\ r # disp
  <2>1. PICK kind, event, b : kind = change.kind /\ event = change.event.id /\ b = Begun(disp, kind, event)
    OBVIOUS
  <2>2. r = [b EXCEPT !.sending = disp.next, !.seen = @ \cup {key}]
    BY <1>1, <1>5, <2>1 DEF Handle
  <2>3. kind \in {"opened", "resolved"} /\ event \in Nat /\ key = <<kind, event>> /\ key \notin disp.seen
    BY <1>1, <1>2, <1>5, <2>1
  <2>4. b = [disp EXCEPT !.deliveries = b.deliveries, !.next = disp.next + 1] /\ b.deliveries \in Seq(Deliveries)
    BY <2>1, <2>3, BegunIs
  <2>5. PICK q : q = b.deliveries
    OBVIOUS
  <2>6. r = [seen |-> disp.seen \cup {key}, deliveries |-> q, next |-> disp.next + 1, sending |-> disp.next,
             listens |-> disp.listens, replay |-> disp.replay]
    <3>1. b = [seen |-> disp.seen, deliveries |-> q, next |-> disp.next + 1, sending |-> disp.sending,
               listens |-> disp.listens, replay |-> disp.replay]
      BY <2>4, <2>5 DEF Dispatchers
    <3> QED BY <2>2, <3>1
  <2>7. disp.next \in Nat /\ disp.seen \subseteq ({"opened", "resolved"} \X Nat) /\ disp.deliveries \in Seq(Deliveries)
        /\ disp.listens \in BOOLEAN /\ disp.replay \in BOOLEAN
    BY DEF Dispatchers
  <2>8. /\ r.deliveries = q /\ r.next = disp.next + 1 /\ r.sending = disp.next /\ r.seen = disp.seen \cup {key}
        /\ r.listens = disp.listens /\ r.replay = disp.replay
    BY <2>6
  <2>9. key \in {"opened", "resolved"} \X Nat
    BY <2>3
  <2>10. r \in Dispatchers
    <3>2. disp.seen \cup {key} \in SUBSET ({"opened", "resolved"} \X Nat) /\ q \in Seq(Deliveries)
          /\ disp.next + 1 \in Nat
      BY <2>4, <2>5, <2>7, <2>9
    <3> QED BY <2>6, <2>7, <3>2 DEF Dispatchers
  <2>11. InProgress(disp.deliveries, tests \cup {disp.next})
    <3>1. \A i \in DOMAIN disp.deliveries : disp.deliveries[i].id \in Nat
      BY <2>7, DeliveriesAre
    <3> QED BY <1>3, <3>1, NoneIsNothing DEF InProgress
  <2>12. Marks(disp, kind, event, disp.seen \cup {key})
    BY <2>3 DEF Marks
  <2>13. Keyed(q, disp.seen \cup {key}) /\ Once(q) /\ InProgress(q, tests \cup {disp.next})
    <3>1. PICK ids, seen : ids = tests \cup {disp.next} /\ seen = disp.seen \cup {key}
      OBVIOUS
    <3>2. disp.next \in ids /\ InProgress(disp.deliveries, ids) /\ Marks(disp, kind, event, seen)
      BY <2>11, <2>12, <3>1
    <3>3. Keyed(q, seen) /\ Once(q) /\ InProgress(q, ids)
      BY <1>3, <2>1, <2>3, <2>5, <3>2, BegunKeeps
    <3> QED BY <3>1, <3>3
  <2> QED BY <2>8, <2>10, <2>13
<1> QED BY <1>4, <1>5

LEMMA DispatchKept ==
    ASSUME TypeOK, EpisodeInv, DeliveryInv, [Next]_vars
    PROVE  disp' \in Dispatchers /\ tests' \subseteq Nat /\ DeliveryInv'
<1> DEFINE Kept == /\ disp'.replay => disp'.listens
                   /\ (disp'.replay \/ ~disp'.listens) => disp'.sending = None
                   /\ Keyed(disp'.deliveries, disp'.seen) /\ Once(disp'.deliveries)
                   /\ InProgress(disp'.deliveries, tests' \cup {disp'.sending})
<1>a. Kept => DeliveryInv'
  BY DEF DeliveryInv, Keyed, Once, InProgress, NotifiedOnce, NoDeliveryStuck
<1>1. /\ disp \in Dispatchers /\ tests \subseteq Nat /\ disp.next \in Nat /\ disp.sending \in Nat \cup {None}
      /\ disp.deliveries \in Seq(Deliveries) /\ disp.listens \in BOOLEAN /\ disp.replay \in BOOLEAN
      /\ disp.seen \subseteq ({"opened", "resolved"} \X Nat)
      /\ disp = [seen |-> disp.seen, deliveries |-> disp.deliveries, next |-> disp.next, sending |-> disp.sending,
                 listens |-> disp.listens, replay |-> disp.replay]
  BY DEF TypeOK, Dispatchers
<1>2. /\ disp.replay => disp.listens
      /\ (disp.replay \/ ~disp.listens) => disp.sending = None
      /\ Keyed(disp.deliveries, disp.seen) /\ Once(disp.deliveries) /\ InProgress(disp.deliveries, tests \cup {disp.sending})
  BY DeliveryParts
<1>3. CASE UNCHANGED <<disp, tests>>
  <2>1. disp' = disp /\ tests' = tests
    BY <1>3
  <2> QED BY <1>1, <1>2, <1>a, <2>1
<1>4. CASE SendTest
  <2>1. disp' = Begun(disp, "test", 0) /\ tests' = tests \cup {disp.next}
    BY <1>4 DEF SendTest
  <2>2. disp' = [disp EXCEPT !.deliveries = disp'.deliveries, !.next = disp.next + 1] /\ disp'.deliveries \in Seq(Deliveries)
    BY <1>1, <2>1, BegunIs
  <2>3. PICK q, r : q = disp'.deliveries /\ r = disp'
    OBVIOUS
  <2>4. r = [seen |-> disp.seen, deliveries |-> q, next |-> disp.next + 1, sending |-> disp.sending,
             listens |-> disp.listens, replay |-> disp.replay] /\ q \in Seq(Deliveries)
    <3>1. r = [disp EXCEPT !.deliveries = q, !.next = disp.next + 1] /\ q \in Seq(Deliveries)
      BY <2>2, <2>3
    <3> QED BY <1>1, <3>1
  <2>5. r \in Dispatchers
    BY <1>1, <2>4 DEF Dispatchers
  <2>6. Keyed(q, disp.seen) /\ Once(q) /\ InProgress(q, tests' \cup {disp.sending})
    <3>1. PICK ids, seen : ids = tests' \cup {disp.sending} /\ seen = disp.seen
      OBVIOUS
    <3>2. disp.next \in ids /\ InProgress(disp.deliveries, ids)
      BY <1>2, <2>1, <3>1 DEF InProgress
    <3>3. Marks(disp, "test", 0, seen)
      BY <3>1 DEF Marks
    <3>4. Keyed(r.deliveries, seen) /\ Once(r.deliveries) /\ InProgress(r.deliveries, ids)
      BY <1>1, <1>2, <2>1, <2>3, <3>2, <3>3, BegunKeeps
    <3> QED BY <2>3, <3>1, <3>4
  <2>7. disp'.seen = disp.seen /\ disp'.deliveries = q /\ disp'.sending = disp.sending /\ disp'.listens = disp.listens
        /\ disp'.replay = disp.replay
    BY <2>3, <2>4
  <2>8. Kept
    BY <1>2, <2>6, <2>7
  <2> QED BY <1>1, <1>a, <2>1, <2>3, <2>5, <2>8
<1>5. CASE TestReturns
  <2>1. PICK id \in tests : disp' = Finished(disp, id) /\ tests' = tests \ {id}
    BY <1>5 DEF TestReturns
  <2>2. PICK q, r, ids : q = disp'.deliveries /\ r = disp' /\ ids = tests \cup {disp.sending}
    OBVIOUS
  <2>a. id \in Nat /\ r = Finished(disp, id) /\ q = r.deliveries /\ InProgress(disp.deliveries, ids)
    BY <1>1, <1>2, <2>1, <2>2
  <2>b. r = [disp EXCEPT !.deliveries = r.deliveries] /\ r.deliveries \in Seq(Deliveries)
        /\ InProgress(r.deliveries, ids \ {id}) /\ Keyed(r.deliveries, disp.seen) /\ Once(r.deliveries)
    BY <1>1, <1>2, <2>a, FinishedIs
  <2>3. r = [disp EXCEPT !.deliveries = q] /\ q \in Seq(Deliveries)
        /\ InProgress(q, (tests \cup {disp.sending}) \ {id}) /\ Keyed(q, disp.seen) /\ Once(q)
    BY <2>2, <2>a, <2>b
  <2>4. r = [seen |-> disp.seen, deliveries |-> q, next |-> disp.next, sending |-> disp.sending,
             listens |-> disp.listens, replay |-> disp.replay]
    BY <1>1, <2>3
  <2>5. r \in Dispatchers
    BY <1>1, <2>3, <2>4 DEF Dispatchers
  <2>6. InProgress(q, tests' \cup {disp.sending})
    BY <2>1, <2>3 DEF InProgress
  <2>7. disp'.seen = disp.seen /\ disp'.deliveries = q /\ disp'.sending = disp.sending /\ disp'.listens = disp.listens
        /\ disp'.replay = disp.replay
    BY <2>2, <2>4
  <2>8. Kept
    BY <1>2, <2>3, <2>6, <2>7
  <2> QED BY <1>1, <1>a, <2>1, <2>2, <2>5, <2>8
<1>6. CASE SendReturns
  <2>1. disp.sending \in Nat /\ disp' = [Finished(disp, disp.sending) EXCEPT !.sending = None] /\ tests' = tests
    BY <1>1, <1>6 DEF SendReturns
  <2>2. PICK f, q, id, ids : id = disp.sending /\ f = Finished(disp, id) /\ q = f.deliveries /\ ids = tests \cup {disp.sending}
    OBVIOUS
  <2>a. id \in Nat /\ InProgress(disp.deliveries, ids) /\ f = Finished(disp, id) /\ disp \in Dispatchers
        /\ Keyed(disp.deliveries, disp.seen) /\ Once(disp.deliveries)
    BY <1>1, <1>2, <2>1, <2>2
  <2>b. f = [disp EXCEPT !.deliveries = f.deliveries] /\ f.deliveries \in Seq(Deliveries)
        /\ InProgress(f.deliveries, ids \ {id}) /\ Keyed(f.deliveries, disp.seen) /\ Once(f.deliveries)
    BY <2>a, FinishedIs
  <2>3. f = [disp EXCEPT !.deliveries = q] /\ q \in Seq(Deliveries)
        /\ InProgress(q, (tests \cup {disp.sending}) \ {disp.sending}) /\ Keyed(q, disp.seen) /\ Once(q)
    BY <2>2, <2>a, <2>b
  <2>4. disp' = [seen |-> disp.seen, deliveries |-> q, next |-> disp.next, sending |-> None,
                 listens |-> disp.listens, replay |-> disp.replay]
    <3>1. f = [seen |-> disp.seen, deliveries |-> q, next |-> disp.next, sending |-> disp.sending,
               listens |-> disp.listens, replay |-> disp.replay]
      BY <1>1, <2>3
    <3>2. disp' = [f EXCEPT !.sending = None]
      BY <2>1, <2>2
    <3> QED BY <3>1, <3>2
  <2>5. disp' \in Dispatchers
    BY <1>1, <2>3, <2>4 DEF Dispatchers
  <2>6. InProgress(q, tests' \cup {None})
    BY <2>1, <2>3 DEF InProgress
  <2>7. disp'.seen = disp.seen /\ disp'.deliveries = q /\ disp'.sending = None
        /\ disp'.listens = disp.listens /\ disp'.replay = disp.replay
    BY <2>4
  <2>8. Kept
    BY <1>2, <2>3, <2>6, <2>7
  <2> QED BY <1>1, <1>a, <2>1, <2>5, <2>8
<1>7. CASE Subscribe
  <2>1. disp' = [disp EXCEPT !.listens = TRUE, !.replay = TRUE] /\ tests' = tests /\ ~disp.listens
    BY <1>7 DEF Subscribe
  <2>2. disp' = [seen |-> disp.seen, deliveries |-> disp.deliveries, next |-> disp.next, sending |-> disp.sending,
                 listens |-> TRUE, replay |-> TRUE]
    BY <1>1, <2>1
  <2>3. disp' \in Dispatchers
    BY <1>1, <2>2 DEF Dispatchers
  <2>4. disp'.seen = disp.seen /\ disp'.deliveries = disp.deliveries /\ disp'.sending = disp.sending
    BY <2>2
  <2>5. Kept
    BY <1>2, <2>1, <2>4
  <2> QED BY <1>1, <1>a, <2>1, <2>3, <2>5
<1>8. CASE Replay
  <2>1. disp.replay /\ disp.sending = None /\ tests' = tests
    BY <1>2, <1>8 DEF Replay
  <2>2. PICK r : r = IF att.active = 0 THEN disp ELSE Handle([kind |-> "opened", event |-> att.events[att.active]])
    OBVIOUS
  <2>3. disp' = [r EXCEPT !.replay = FALSE]
    BY <1>8, <2>2 DEF Replay
  <2>4. /\ r \in Dispatchers /\ r.listens = disp.listens /\ r.replay = disp.replay
        /\ Keyed(r.deliveries, r.seen) /\ Once(r.deliveries) /\ InProgress(r.deliveries, tests \cup {r.sending})
    <3>1. CASE att.active = 0
      BY <1>1, <1>2, <2>2, <3>1
    <3>2. CASE att.active # 0
      <4>1. PICK change : change = [kind |-> "opened", event |-> att.events[att.active]]
        OBVIOUS
      <4>2. att.events \in Seq(Events) /\ att.active \in {0, Len(att.events)}
        BY DEF EpisodeInv, Episodes, Monitors
      <4>3. att.active \in DOMAIN att.events /\ att.events[att.active] \in Events
        BY <3>2, <4>2, EventsAre
      <4>4. change \in Changes
        BY <4>1, <4>3 DEF Changes
      <4>5. r = Handle(change)
        BY <2>2, <3>2, <4>1
      <4> QED BY <1>1, <2>1, <4>4, <4>5, HandleIs
    <3> QED BY <3>1, <3>2
  <2>5. disp' \in Dispatchers /\ disp'.deliveries = r.deliveries /\ disp'.seen = r.seen /\ disp'.sending = r.sending
        /\ disp'.listens = disp.listens /\ disp'.replay = FALSE
    BY <2>3, <2>4 DEF Dispatchers
  <2>6. disp.listens
    BY <1>2, <2>1
  <2>7. Kept
    BY <2>1, <2>4, <2>5, <2>6
  <2> QED BY <1>1, <1>a, <2>1, <2>5, <2>7
<1>9. CASE Dispatch
  <2>1. disp.listens /\ ~disp.replay /\ disp.sending = None /\ tests' = tests /\ changeQ # <<>>
        /\ disp' = Handle(Head(changeQ))
    BY <1>9 DEF Dispatch
  <2>2. Head(changeQ) \in Changes
    BY <2>1, TailIs DEF TypeOK
  <2>3. /\ disp' \in Dispatchers /\ disp'.listens = disp.listens /\ disp'.replay = disp.replay
        /\ Keyed(disp'.deliveries, disp'.seen) /\ Once(disp'.deliveries) /\ InProgress(disp'.deliveries, tests \cup {disp'.sending})
    BY <1>1, <2>1, <2>2, HandleIs
  <2>4. Kept
    BY <2>1, <2>3
  <2> QED BY <1>1, <1>a, <2>1, <2>3, <2>4
<1> QED BY <1>3, <1>4, <1>5, <1>6, <1>7, <1>8, <1>9, StepCases DEF DispatchStep

\* What the monitor publishes fits the subscription.
LEMMA Published ==
    ASSUME TypeOK, NEW changes \in Seq(Changes), Publish(changes)
    PROVE  changeQ' \in Seq(Changes) /\ Len(changeQ') <= ChangeCap /\ gone' \subseteq Nat
<1>1. changeQ \in Seq(Changes) /\ Len(changeQ) <= ChangeCap /\ gone \subseteq Nat /\ ChangeCap \in Nat
  BY Caps DEF TypeOK
<1>2. CASE ~disp.listens
  BY <1>1, <1>2 DEF Publish
<1>3. CASE disp.listens
  <2>1. PICK n : n = LET room == ChangeCap - Len(changeQ) IN IF Len(changes) < room THEN Len(changes) ELSE room
    OBVIOUS
  <2>2. Len(changes) \in Nat /\ Len(changeQ) \in Nat /\ DOMAIN changes = 1 .. Len(changes)
    BY <1>1, LenProperties
  <2>3. n \in Nat /\ n <= Len(changes) /\ Len(changeQ) + n <= ChangeCap
    BY <1>1, <2>1, <2>2
  <2>4. PICK a : a = Accepted(changes)
    OBVIOUS
  <2>5. a \in Seq(Changes) /\ Len(a) = n
    <3>1. a = SubSeq(changes, 1, n)
      BY <2>1, <2>4 DEF Accepted
    <3>2. CASE n = 0
      <4>1. a = <<>>
        BY <2>2, <3>1, <3>2, SubSeqProperties
      <4> QED BY <3>2, <4>1
    <3>3. CASE n # 0
      <4>1. \A i \in 1 .. n : changes[i] \in Changes
        BY <2>2, <2>3, ElementOfSeq
      <4> QED BY <2>2, <2>3, <3>1, <3>3, <4>1, SubSeqProperties
    <3> QED BY <3>2, <3>3
  <2>6. changeQ' = changeQ \o a
        /\ gone' = gone \cup {changes[i].event.id : i \in
             {j \in DOMAIN changes : changes[j].kind = "opened" /\ j > Len(a)}}
    BY <1>3, <2>4 DEF Publish
  <2>7. changeQ' \in Seq(Changes) /\ Len(changeQ') = Len(changeQ) + n
    BY <1>1, <2>5, <2>6, ConcatProperties
  <2>8. \A i \in DOMAIN changes : changes[i].event.id \in Nat
    <3>1. \A i \in DOMAIN changes : changes[i] \in Changes
      BY <2>2, ElementOfSeq
    <3> QED BY <3>1 DEF Changes, Events
  <2> QED BY <1>1, <2>3, <2>6, <2>7, <2>8
<1> QED BY <1>2, <1>3

LEMMA TypeKept ==
    ASSUME IInv, [Next]_vars
    PROVE  TypeOK'
<1>1. TypeOK /\ EpisodeInv /\ DeliveryInv /\ meta.next # 0 /\ PlayerInv /\ ShapeInv
  BY DEF IInv, MarkerInv
<1>2. scene' \in Scenes
  BY <1>1, StepCases DEF TypeOK
<1>3. fw' \in Players
  BY <1>1, StepCases, PlayerTyped DEF TypeOK
<1>4. path' \in Paths
  <2>1. CASE UNCHANGED path
    BY <1>1, <2>1 DEF TypeOK
  <2>2. CASE \E f \in Files : SetActivePath(f)
    BY <2>2 DEF SetActivePath, Paths
  <2> QED BY <2>1, <2>2, StepCases
<1>5. statusQ' \in Seq(Statuses) /\ Len(statusQ') <= StatusCap
  BY <1>1, StepCases, PlayerQuiet, ObserveEffect, TakeEffect DEF TypeOK
<1>6. lineQ' \in Seq(Files)
  <2>1. CASE PlayerStep
    BY <1>1, <2>1, PlayerTyped
  <2>2. CASE ObserveLine
    <3>1. lineQ \in Seq(Files) /\ lineQ # <<>> /\ lineQ' = Tail(lineQ)
      BY <1>1, <2>2 DEF TypeOK, ObserveLine
    <3> QED BY <3>1, TailIs
  <2>3. CASE UNCHANGED lineQ
    BY <1>1, <2>3 DEF TypeOK
  <2> QED BY <2>1, <2>2, <2>3, StepCases
<1>7. hist' \in Histories /\ backup' \in Seq(Runs)
  BY <1>1, ShapeKept DEF ShapeInv, Sound
<1>8. meta' \in Metas /\ att' \in Monitors
  BY <1>1, EpisodeKept DEF EpisodeInv, Episodes
<1>9. disp' \in Dispatchers /\ tests' \subseteq Nat
  BY <1>1, DispatchKept
<1>10. changeQ' \in Seq(Changes) /\ Len(changeQ') <= ChangeCap /\ gone' \subseteq Nat
  <2>1. changeQ \in Seq(Changes) /\ Len(changeQ) <= ChangeCap /\ gone \subseteq Nat /\ ChangeCap \in Nat
    BY <1>1, Caps DEF TypeOK
  <2>2. CASE ObserveStatus
    <3>1. PICK changes \in Seq(Changes) : Publish(changes)
      BY <1>1, <2>2, StatusEffect
    <3> QED BY <1>1, <3>1, Published
  <2>3. CASE Subscribe
    <3>1. changeQ' = changeQ /\ gone' = gone \cup {e.id : e \in {att.events[i] : i \in {att.active} \ {0}}}
      BY <2>3 DEF Subscribe
    <3>2. att.events \in Seq(Events) /\ att.active \in {0, Len(att.events)}
      BY <1>1 DEF EpisodeInv, Episodes, Monitors
    <3>3. \A i \in {att.active} \ {0} : i \in DOMAIN att.events /\ att.events[i] \in Events
      BY <3>2, EventsAre
    <3>4. \A e \in {att.events[i] : i \in {att.active} \ {0}} : e.id \in Nat
      BY <3>3 DEF Events
    <3> QED BY <2>1, <3>1, <3>4
  <2>4. CASE Dispatch
    <3>1. changeQ # <<>> /\ changeQ' = Tail(changeQ) /\ gone' = gone
      BY <2>4 DEF Dispatch
    <3> QED BY <2>1, <3>1, TailIs
  <2>5. CASE SendTest \/ TestReturns \/ Replay \/ SendReturns \/ UNCHANGED <<changeQ, gone>>
    BY <2>1, <2>5 DEF SendTest, TestReturns, Replay, SendReturns
  <2> QED BY <2>2, <2>3, <2>4, <2>5, StepCases DEF DispatchStep
<1>11. ops' \in Nat
  <2>1. ops \in Nat
    BY <1>1 DEF TypeOK
  <2>2. ops' = ops \/ ops' = ops + 1
    BY DEF Next, Step, vars, Play, Proceed, Interrupt, Observe, ObserveStatus, ObserveLine, HintAges, Request,
           TestReturns, Subscribe, Replay, Dispatch, SendReturns
  <2> QED BY <2>1, <2>2
<1> QED BY <1>2, <1>3, <1>4, <1>5, <1>6, <1>7, <1>8, <1>9, <1>10, <1>11 DEF TypeOK

-----------------------------------------------------------------------------
(* The theorems.                                                            *)

LEMMA InitHolds == Init => IInv
<1> SUFFICES ASSUME Init PROVE IInv
  OBVIOUS
<1>1. <<>> \in Seq(Statuses) /\ <<>> \in Seq(Files) /\ <<>> \in Seq(Runs) /\ <<>> \in Seq(Events) /\ <<>> \in Seq(Changes)
      /\ <<>> \in Seq(Deliveries) /\ Len(<<>>) = 0 /\ DOMAIN <<>> = {} /\ 0 \in 0 .. LastLine
      /\ StatusCap \in Nat /\ ChangeCap \in Nat
  BY Caps
<1>2. scene \in Bounds /\ scene.path \in Paths
  BY ObserversAssumption DEF Init, Bounds
<1>3. fw \in Players /\ path \in Paths /\ meta \in Metas /\ meta.next # 0 /\ path = scene.path /\ meta.last = "Unknown"
  <2>1. fw = [state |-> "Idle", file |-> None, line |-> 0, job |-> 0, holds |-> 0] /\ path = scene.path
        /\ meta = [path |-> None, next |-> 1, last |-> "Unknown"]
    BY DEF Init, NewMeta
  <2>2. "Idle" \in States /\ "Unknown" \in States /\ None \in Paths
    BY DEF States, Paths
  <2>3. fw \in Players
    BY <1>1, <2>1, <2>2 DEF Players
  <2>4. meta \in Metas /\ meta.next = 1 /\ meta.last = "Unknown"
    BY <2>1, <2>2 DEF Metas
  <2> QED BY <1>2, <2>1, <2>3, <2>4
<1>4. Episodes(att)
  <2>1. att.events = <<>> /\ att.active = 0 /\ att.last = "Unknown" /\ att \in Monitors
    BY <1>1 DEF Init, Monitors, States
  <2>2. KindFor("Unknown", None) = ""
    BY DEF KindFor, Paused
  <2> QED BY <1>1, <2>1, <2>2 DEF Episodes
<1>5. disp \in Dispatchers /\ disp.deliveries = <<>> /\ ~disp.listens /\ ~disp.replay /\ disp.sending = None
  BY <1>1 DEF Init, Dispatchers
<1>6. Sound(hist) /\ hist.runs = <<>> /\ hist \in Histories /\ backup = <<>> /\ WellFormed(<<>>)
  <2>1. Sound(hist) /\ hist.runs = <<>>
    BY NewHistoryIs DEF Init
  <2> QED BY <2>1 DEF Sound, Init
<1>7. TypeOK
  <2>1. scene \in Scenes /\ statusQ = <<>> /\ lineQ = <<>> /\ changeQ = <<>> /\ tests = {} /\ gone = {} /\ ops = 0
    BY DEF Init
  <2>2. att \in Monitors
    BY <1>4 DEF Episodes
  <2> QED BY <1>1, <1>3, <1>5, <1>6, <2>1, <2>2 DEF TypeOK
<1>8. PlayerInv /\ QueueInv
  BY <1>1 DEF Init, PlayerInv, QueueInv, EndsRun
<1>9. ShapeInv /\ JobInv
  BY <1>1, <1>6 DEF ShapeInv, JobInv, OfJobs
<1>10. MarkerInv
  <2>1. att.events = <<>> /\ att.active = 0
    BY DEF Init
  <2> QED BY <1>1, <1>3, <2>1 DEF MarkerInv, MarkersGoForward
<1>11. DeliveryInv
  BY <1>1, <1>5 DEF DeliveryInv, NotifiedOnce, NoDeliveryStuck
<1> QED BY <1>4, <1>7, <1>8, <1>9, <1>10, <1>11 DEF IInv, EpisodeInv

LEMMA StepHolds == IInv /\ [Next]_vars => IInv'
<1> SUFFICES ASSUME IInv, [Next]_vars PROVE IInv'
  OBVIOUS
<1>1. TypeOK /\ PlayerInv /\ QueueInv /\ ShapeInv /\ JobInv /\ EpisodeInv /\ MarkerInv /\ DeliveryInv /\ meta.next # 0
  BY DEF IInv, MarkerInv
<1> QED BY <1>1, TypeKept, QueueKept, ShapeKept, JobKept, EpisodeKept, MarkerKept, DispatchKept DEF IInv

LEMMA Invariance == Spec => []IInv
BY InitHolds, StepHolds, PTL DEF Spec

LEMMA InvImplies == IInv => TypeOK /\ RunsFollowJobs /\ EpisodesToldOnce
<1> SUFFICES ASSUME IInv PROVE TypeOK /\ RunsFollowJobs /\ EpisodesToldOnce
  OBVIOUS
<1>1. HistoryShape
  <2>1. hist.runs \in Seq(Runs) /\ WellFormed(hist.runs) /\ \A i \in DOMAIN hist.runs :
          (hist.runs[i].active <=> i = hist.active) /\ hist.runs[i].id < hist.next
    BY DEF IInv, ShapeInv, Sound, Histories
  <2>2. DOMAIN hist.runs = 1 .. Len(hist.runs) /\ Len(hist.runs) \in Nat
    BY <2>1, RunsAre
  <2>3. \A i \in DOMAIN hist.runs : \A j \in 1 .. i - 1 : j \in DOMAIN hist.runs /\ j < i
    BY <2>2
  <2> QED BY <2>1, <2>3 DEF HistoryShape, WellFormed
<1>2. InStep => OneRunPerJob
  BY DEF IInv, JobInv, OfJobs, OneRunPerJob
<1>3. EpisodeTracksState
  BY DEF IInv, EpisodeInv, Episodes, EpisodeTracksState
<1>4. MarkerExplainsOnePause
  BY DEF IInv, MarkerInv, MarkerExplainsOnePause
<1> QED BY <1>1, <1>2, <1>3, <1>4 DEF IInv, RunsFollowJobs, EpisodesToldOnce, DeliveryInv

\* Each component of the observers keeps its type, and the subscriptions stay
\* within their capacities.
THEOREM ObserversTyped == Spec => []TypeOK
BY Invariance, InvImplies, PTL

\* The run history has the active run last and no two runs with the same ID,
\* whatever is dropped, cleared, exported and imported, and as long as the
\* observers keep in step no job has two runs (runhistory.History).
THEOREM RunsStayJobs == Spec => []RunsFollowJobs
BY Invariance, InvImplies, PTL

\* A pause that needs a person is one event, explained by a marker of its own,
\* and sent once, whatever statuses and changes are dropped on the way
\* (attention.Monitor, attentionContext, notifications.Dispatcher).
THEOREM EpisodesStayTrue == Spec => []EpisodesToldOnce
BY Invariance, InvImplies, PTL
===============================================================================
