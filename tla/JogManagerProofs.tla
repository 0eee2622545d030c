-------------------------- MODULE JogManagerProofs --------------------------
(***************************************************************************)
(* Machine-checked proofs about module JogManager, for any number of        *)
(* sessions and clients, any queue capacities and any number of commands.   *)
(***************************************************************************)
EXTENDS JogManager, SequenceTheorems, FiniteSetTheorems, TLAPS

-----------------------------------------------------------------------------
(* Type correctness                                                         *)

\* The type invariant in three parts, by the actions that touch them.
QueueType ==
    /\ cmds \in [Sessions -> Seq(Commands)]
    /\ deferred \in [Sessions -> Seq(Commands)]

LeaseType ==
    /\ owner \in Sessions \cup {NoOne}
    /\ opMu \in Sessions \cup {NoOne}
    /\ lease \subseteq Sessions
    /\ leaseID \in [Sessions -> Nat]
    /\ inFlight \subseteq Sessions
    /\ retry \subseteq Sessions
    /\ pc \in [Callers -> SessionPC]

RestType ==
    /\ cancelled \subseteq Sessions
    /\ cur \in [Sessions -> Callers \cup {NoOne}]
    /\ exiting \subseteq Sessions
    /\ queries \subseteq [sess : Sessions, id : Nat, res : Results \cup {Pending}]
    /\ statusCh \in [Sessions -> Seq(StatusResults)]
    /\ target \in [Callers -> Sessions \cup {NoOne}]
    /\ asked \in [Callers -> Nat]
    /\ complete \subseteq Callers
    /\ sent \in Nat

\* TypeOK is the conjunction of its parts.
LEMMA TypeParts == TypeOK <=> QueueType /\ LeaseType /\ RestType
  BY DEF TypeOK, QueueType, LeaseType, RestType

\* Giving the lease up keeps the types of the lease.
LEMMA ReleaseType ==
  ASSUME LeaseType, NEW s \in Sessions, StartRelease(s)
  PROVE  /\ lease' \subseteq Sessions
         /\ leaseID' \in [Sessions -> Nat]
         /\ inFlight' \subseteq Sessions
         /\ retry' \subseteq Sessions
         /\ pc' \in [Callers -> SessionPC]
  BY DEF LeaseType, StartRelease, Goto, SessionPC, Callers

\* What handling a command does to the lease and to the status queries.
LEMMA HandleType ==
  ASSUME TypeOK, NEW s \in Sessions, NEW c \in Commands, Handle(s, c), opMu' = opMu
  PROVE  /\ LeaseType'
         /\ queries' \subseteq [sess : Sessions, id : Nat, res : Results \cup {Pending}]
         /\ cur' \in [Sessions -> Callers \cup {NoOne}]
         /\ target' \in [Callers -> Sessions \cup {NoOne}]
         /\ asked' \in [Callers -> Nat]
<1> USE TypeParts DEF LeaseType, RestType
<1>1. s \in Callers
  BY DEF Callers
<1>2. CASE c.typ = "arm" /\ HandleArm(s) /\ UNCHANGED <<leaseVars, queries, cur, target, asked>>
  BY <1>1, <1>2 DEF HandleArm, Goto, SessionPC, leaseVars
<1>3. CASE c.typ = "disarm" /\ HandleDisarm(s, c.by) /\ UNCHANGED <<owner, queries>>
  <2>1. c.by \in Callers \cup {NoOne}
    BY DEF Commands
  <2>2. CASE /\ owner \notin {NoOne, s}
             /\ target' = [target EXCEPT ![s] = owner]
             /\ asked' = [asked EXCEPT ![s] = leaseID[owner]]
             /\ Goto(s, "ask")
             /\ cur' = [cur EXCEPT ![s] = c.by]
             /\ UNCHANGED leaseVars
    BY <1>1, <1>3, <2>1, <2>2 DEF Goto, SessionPC, leaseVars
  <2>3. CASE /\ cur' = [cur EXCEPT ![s] = c.by]
             /\ StartRelease(s)
             /\ UNCHANGED <<target, asked>>
    BY <1>3, <2>1, <2>3, ReleaseType
  <2>4. QED
    BY <1>3, <2>2, <2>3 DEF HandleDisarm
<1>4. CASE c.typ = "control" /\ HandleControl(s) /\ UNCHANGED <<owner, queries, cur, target, asked>>
  <2>1. CASE UNCHANGED <<pc, leaseVars>>
    BY <1>4, <2>1 DEF leaseVars
  <2>2. CASE StartRelease(s)
    BY <1>4, <2>2, ReleaseType
  <2>3. QED
    BY <1>4, <2>1, <2>2 DEF HandleControl
<1>5. CASE c.typ = "move" /\ HandleMove(s) /\ UNCHANGED <<owner, cur, target, asked>>
  <2>1. CASE UNCHANGED <<pc, leaseVars, queries>>
    BY <1>5, <2>1 DEF leaseVars
  <2>2. CASE RequestStatus(s) /\ UNCHANGED <<pc, lease, leaseID, retry>>
    BY <1>5, <2>2 DEF RequestStatus, leaseVars
  <2>3. CASE StartRelease(s) /\ UNCHANGED queries
    BY <1>5, <2>3, ReleaseType
  <2>4. QED
    BY <1>5, <2>1, <2>2, <2>3 DEF HandleMove
<1>6. QED
  BY <1>2, <1>3, <1>4, <1>5 DEF Handle

\* A call that returns leaves well-formed queues behind.
LEMMA DisarmReturnsType ==
  ASSUME TypeOK, NEW c \in Callers, DisarmReturns(c)
  PROVE  TypeOK'
<1> USE TypeParts DEF QueueType, LeaseType, RestType
<1> DEFINE forget(m) == IF m.by = c THEN [m EXCEPT !.by = NoOne] ELSE m
<1>1. cmds' \in [Sessions -> Seq(Commands)]
  <2>1. ASSUME NEW s \in Sessions
        PROVE  [i \in DOMAIN cmds[s] |-> forget(cmds[s][i])] \in Seq(Commands)
    <3>1. cmds[s] \in Seq(Commands)
      OBVIOUS
    <3>2. ASSUME NEW m \in Commands PROVE forget(m) \in Commands
      BY DEF Commands
    <3>3. DOMAIN cmds[s] = 1 .. Len(cmds[s]) /\ Len(cmds[s]) \in Nat
      BY <3>1
    <3>4. \A i \in 1 .. Len(cmds[s]) : cmds[s][i] \in Commands
      BY <3>1
    <3> HIDE DEF forget
    <3>5. [i \in 1 .. Len(cmds[s]) |-> forget(cmds[s][i])] \in [1 .. Len(cmds[s]) -> Commands]
      BY <3>2, <3>4
    <3>6. QED
      BY <3>3, <3>5, SeqDef
  <2>2. QED
    BY <2>1 DEF DisarmReturns
<1>2. pc' \in [Callers -> SessionPC]
  BY DEF DisarmReturns, Goto, SessionPC
<1>3. cur' \in [Sessions -> Callers \cup {NoOne}]
  BY DEF DisarmReturns
<1>4. complete' \subseteq Callers
  BY DEF DisarmReturns, Callers
<1>5. target' \in [Callers -> Sessions \cup {NoOne}]
  BY DEF DisarmReturns
<1>6. QED
  BY <1>1, <1>2, <1>3, <1>4, <1>5 DEF TypeOK, DisarmReturns, leaseVars, statusVars

\* A command taken from a queue is a command, and the rest is a queue.
LEMMA QueueHead ==
  ASSUME NEW S, NEW q \in Seq(S), q # <<>>
  PROVE  Head(q) \in S /\ Tail(q) \in Seq(S)
  OBVIOUS

\* Every step keeps the types.
LEMMA TypeStep == TypeOK /\ [Next]_vars => TypeOK'
<1> SUFFICES ASSUME TypeOK, [Next]_vars PROVE TypeOK'
  OBVIOUS
<1> USE DEF loopVars, leaseVars, statusVars, waitVars
<1>0. QueueType /\ LeaseType /\ RestType
  BY TypeParts
<1>1. ASSUME NEW s \in Sessions, NEW typ \in CommandTypes, Enqueue(s, typ) PROVE TypeOK'
  <2>1. [typ |-> typ, by |-> NoOne] \in Commands
    BY DEF Commands
  <2>2. Append(cmds[s], [typ |-> typ, by |-> NoOne]) \in Seq(Commands)
    BY <1>0, <2>1 DEF QueueType
  <2>3. QED
    <3>1. cmds' \in [Sessions -> Seq(Commands)]
      BY <1>0, <1>1, <2>2 DEF Enqueue, QueueType
    <3>2. sent' \in Nat
      BY <1>0, <1>1 DEF Enqueue, RestType
    <3>3. QED
      BY <1>1, <3>1, <3>2 DEF Enqueue, TypeOK
<1>2. ASSUME NEW s \in Sessions, Disconnect(s) PROVE TypeOK'
  BY <1>2 DEF Disconnect, TypeOK
<1>3. ASSUME NEW s \in Sessions, JoinStatus(s) \/ Unregister(s) \/ Unclaim(s) \/ Acquire(s)
      PROVE TypeOK'
  BY <1>3 DEF JoinStatus, Unregister, Unclaim, Acquire, Goto, SessionPC, Callers, TypeOK
<1>4. ASSUME NEW s \in Sessions, ClearOwner(s) PROVE TypeOK'
  BY <1>4 DEF ClearOwner, Goto, SessionPC, Callers, TypeOK
<1>5. ASSUME NEW s \in Sessions, Verify(s) PROVE TypeOK'
  <2>1. pc' \in [Callers -> SessionPC]
    BY <1>0, <1>5 DEF Verify, Goto, SessionPC, Callers, LeaseType
  <2>2. /\ lease' \subseteq Sessions /\ inFlight' \subseteq Sessions
        /\ retry' \subseteq Sessions /\ opMu' \in Sessions \cup {NoOne}
    BY <1>0, <1>5 DEF Verify, LeaseType
  <2>3. leaseID' \in [Sessions -> Nat]
    BY <1>0, <1>5 DEF Verify, LeaseType
  <2>4. QED
    BY <1>5, <2>1, <2>2, <2>3 DEF Verify, TypeOK
<1>6. ASSUME NEW s \in Sessions, TakeCommand(s) PROVE TypeOK'
  <2> DEFINE c == Head(cmds[s])
  <2>1. c \in Commands /\ Tail(cmds[s]) \in Seq(Commands)
    BY <1>0, <1>6, QueueHead DEF QueueType, TakeCommand
  <2>2. cmds' \in [Sessions -> Seq(Commands)]
    BY <1>0, <1>6, <2>1 DEF QueueType, TakeCommand
  <2>3. CASE /\ deferred' = [deferred EXCEPT
                   ![s] = IF Len(@) < QueueCap THEN Append(@, c) ELSE @]
             /\ UNCHANGED <<owner, pc, leaseVars, queries, cur, target, asked>>
    <3>1. Append(deferred[s], c) \in Seq(Commands)
      BY <1>0, <2>1 DEF QueueType
    <3>2. QED
      BY <1>6, <2>2, <2>3, <3>1 DEF TakeCommand, TypeOK
  <2>4. CASE /\ deferred' = [deferred EXCEPT ![s] = IF Releases(c) THEN <<>> ELSE @]
             /\ Handle(s, c)
    <3>1. deferred' \in [Sessions -> Seq(Commands)]
      BY <1>0, <2>4 DEF QueueType
    <3>2. UNCHANGED <<opMu, cancelled, exiting, statusCh, complete, sent>>
      BY <1>6 DEF TakeCommand
    <3>3. QED
      BY <2>1, <2>2, <2>4, <3>1, <3>2, HandleType DEF TypeOK, LeaseType
  <2>5. QED
    BY <1>6, <2>3, <2>4 DEF TakeCommand
<1>7. ASSUME NEW s \in Sessions, TakeDeferred(s) PROVE TypeOK'
  <2>1. Head(deferred[s]) \in Commands /\ Tail(deferred[s]) \in Seq(Commands)
    BY <1>0, <1>7, QueueHead DEF QueueType, TakeDeferred
  <2>2. deferred' \in [Sessions -> Seq(Commands)] /\ UNCHANGED cmds
    BY <1>0, <1>7, <2>1 DEF QueueType, TakeDeferred
  <2>3. UNCHANGED <<opMu, cancelled, exiting, statusCh, complete, sent>>
    BY <1>7 DEF TakeDeferred
  <2>4. Handle(s, Head(deferred[s]))
    BY <1>7 DEF TakeDeferred
  <2>5. QED
    BY <2>1, <2>2, <2>3, <2>4, HandleType DEF TypeOK, LeaseType
<1>8. ASSUME NEW s \in Sessions, StatusTick(s) PROVE TypeOK'
  BY <1>8 DEF StatusTick, RequestStatus, TypeOK
<1>9. ASSUME NEW s \in Sessions, MotionEnds(s) \/ Aborted(s) PROVE TypeOK'
  BY <1>0, <1>9, ReleaseType DEF MotionEnds, Aborted, TypeOK
<1>10. ASSUME NEW s \in Sessions, Leave(s) PROVE TypeOK'
  BY <1>0, <1>10, ReleaseType DEF Leave, TypeOK
<1>11. ASSUME NEW s \in Sessions, TakeStatus(s) PROVE TypeOK'
  <2>1. Tail(statusCh[s]) \in Seq(StatusResults)
    BY <1>0, <1>11, QueueHead DEF RestType, TakeStatus
  <2>2. statusCh' \in [Sessions -> Seq(StatusResults)]
    BY <1>0, <1>11, <2>1 DEF RestType, TakeStatus
  <2>3. /\ StatusResult(s, Head(statusCh[s]))
        /\ UNCHANGED <<owner, opMu, cancelled, loopVars, queries, waitVars>>
    BY <1>11 DEF TakeStatus
  <2>4. CASE StartRelease(s)
    BY <1>0, <2>2, <2>3, <2>4, ReleaseType DEF TypeOK
  <2>5. CASE ~StartRelease(s)
    BY <2>2, <2>3, <2>5 DEF StatusResult, TypeOK
  <2>6. QED
    BY <2>4, <2>5
<1>12. ASSUME NEW q \in queries, NEW res \in Results, QueryReturns(q, res) PROVE TypeOK'
  BY <1>12 DEF QueryReturns, TypeOK
<1>13. ASSUME NEW q \in queries, QueryReports(q) PROVE TypeOK'
  <2>1. q \in [sess : Sessions, id : Nat, res : Results \cup {Pending}] /\ q.res # Pending
    BY <1>0, <1>13 DEF RestType, QueryReports
  <2>2. [id |-> q.id, res |-> q.res] \in StatusResults
    BY <2>1 DEF StatusResults
  <2>3. Append(statusCh[q.sess], [id |-> q.id, res |-> q.res]) \in Seq(StatusResults)
    BY <1>0, <2>1, <2>2 DEF RestType
  <2>4. QED
    BY <1>13, <2>1, <2>3 DEF QueryReports, TypeOK
<1>14. ASSUME NEW c \in Clients, DisarmActive(c) PROVE TypeOK'
  <2>1. pc' \in [Callers -> SessionPC]
    BY <1>0, <1>14 DEF DisarmActive, Goto, SessionPC, Callers, LeaseType
  <2>2. target' \in [Callers -> Sessions \cup {NoOne}]
    BY <1>0, <1>14 DEF DisarmActive, LeaseType, RestType
  <2>3. asked' \in [Callers -> Nat]
    BY <1>0, <1>14 DEF DisarmActive, LeaseType, RestType
  <2>4. QED
    BY <1>14, <2>1, <2>2, <2>3 DEF DisarmActive, TypeOK
<1>15. ASSUME NEW c \in Callers, AskDisarm(c) PROVE TypeOK'
  <2>1. [typ |-> "disarm", by |-> c] \in Commands
    BY DEF Commands, CommandTypes
  <2>2. cmds' \in [Sessions -> Seq(Commands)]
    <3>1. CASE target[c] \in Sessions
      BY <1>0, <1>15, <2>1, <3>1 DEF QueueType, AskDisarm
    <3>2. CASE target[c] \notin Sessions
      BY <1>0, <1>15, <3>2 DEF QueueType, AskDisarm
    <3>3. QED
      BY <3>1, <3>2
  <2>3. QED
    BY <1>15, <2>2 DEF AskDisarm, Goto, SessionPC, TypeOK
<1>16. ASSUME NEW c \in Callers, DisarmCompleted(c) \/ DisarmGivenUp(c) PROVE TypeOK'
  BY <1>16, DisarmReturnsType DEF DisarmCompleted, DisarmGivenUp
<1>17. CASE UNCHANGED vars
  BY <1>17 DEF vars, TypeOK
<1>18. QED
  BY <1>1, <1>2, <1>3, <1>4, <1>5, <1>6, <1>7, <1>8, <1>9, <1>10, <1>11, <1>12,
     <1>13, <1>14, <1>15, <1>16, <1>17 DEF Next, SessionStep

\* Every behaviour of the sessions keeps the types of the fields and queues of
\* jog.go: no step leaves a queue, a lease or a waiting call malformed.
THEOREM JogTypeCorrect == Spec => []TypeOK
<1>1. Init => TypeOK
  BY BoundAssumption DEF Init, TypeOK, SessionPC, Callers
<1>2. QED
  BY <1>1, TypeStep, PTL DEF Spec

-----------------------------------------------------------------------------
(* Who owns movement and the machine                                        *)

\* Ownership follows the program counters: a lease is used only by a loop
\* that is not inside another call, an arming or releasing session is the
\* owner, and whoever owns movement or the machine is one of these.
OwnInv ==
    /\ \A s \in lease : owner = s /\ opMu = s /\ pc[s] = "loop"
    /\ \A s \in Sessions :
          /\ pc[s] \in {"acquire", "verify", "unclaim", "join"} => owner = s
          /\ pc[s] \in {"verify", "join"} => opMu = s
          /\ opMu = s => s \in lease \/ pc[s] \in {"verify", "join"}
          /\ owner = s => \/ s \in lease
                          \/ pc[s] \in {"acquire", "verify", "unclaim", "join", "clear"}

\* The five things a command does to the lease, its owner and its queries.
Refused == UNCHANGED <<owner, pc, lease, leaseID, inFlight, queries, target, asked>>
Claims(s) ==
    /\ s \notin lease /\ owner \in {NoOne, s} /\ owner' = s /\ Goto(s, "acquire")
    /\ UNCHANGED <<lease, leaseID, inFlight, queries, target, asked>>
Asks(s) ==
    /\ owner \notin {NoOne, s} /\ Goto(s, "ask")
    /\ target' = [target EXCEPT ![s] = owner]
    /\ asked' = [asked EXCEPT ![s] = leaseID[owner]]
    /\ UNCHANGED <<owner, lease, leaseID, inFlight, queries>>
Releasing(s) == StartRelease(s) /\ UNCHANGED <<owner, queries, target, asked>>
Requests(s) == RequestStatus(s) /\ UNCHANGED <<owner, pc, lease, leaseID, target, asked>>

LEMMA HandleCases ==
  ASSUME NEW s \in Sessions, NEW c, Handle(s, c)
  PROVE  Refused \/ Claims(s) \/ Asks(s) \/ Releasing(s) \/ Requests(s)
<1> USE DEF Refused, Claims, Asks, Releasing, Requests, leaseVars
<1>1. CASE c.typ = "arm" /\ HandleArm(s) /\ UNCHANGED <<leaseVars, queries, cur, target, asked>>
  BY <1>1 DEF HandleArm
<1>2. CASE c.typ = "disarm" /\ HandleDisarm(s, c.by) /\ UNCHANGED <<owner, queries>>
  BY <1>2 DEF HandleDisarm
<1>3. CASE c.typ = "control" /\ HandleControl(s) /\ UNCHANGED <<owner, queries, cur, target, asked>>
  BY <1>3 DEF HandleControl
<1>4. CASE c.typ = "move" /\ HandleMove(s) /\ UNCHANGED <<owner, cur, target, asked>>
  BY <1>4 DEF HandleMove
<1>5. QED
  BY <1>1, <1>2, <1>3, <1>4 DEF Handle

\* A release that starts in the loop keeps the owner until it is complete.
LEMMA ReleaseOwn ==
  ASSUME TypeOK, OwnInv, NEW s \in Sessions, pc[s] = "loop",
         StartRelease(s), UNCHANGED <<owner, opMu>>
  PROVE  OwnInv'
  BY NameAssumption DEF TypeOK, OwnInv, StartRelease, Goto, Callers

\* What handling a command does to ownership.
LEMMA HandleOwn ==
  ASSUME TypeOK, OwnInv, NEW s \in Sessions, pc[s] = "loop", NEW c,
         Handle(s, c), UNCHANGED opMu
  PROVE  OwnInv'
<1>1. CASE Refused \/ Requests(s)
  BY <1>1 DEF OwnInv, Refused, Requests
<1>2. CASE Claims(s)
  BY <1>2, NameAssumption DEF TypeOK, OwnInv, Claims, Goto, Callers
<1>3. CASE Asks(s)
  BY <1>3, NameAssumption DEF TypeOK, OwnInv, Asks, Goto, Callers
<1>4. CASE Releasing(s)
  BY <1>4, ReleaseOwn DEF Releasing
<1>5. QED
  BY <1>1, <1>2, <1>3, <1>4, HandleCases

\* Every step preserves the ownership invariant.
LEMMA OwnStep == TypeOK /\ OwnInv /\ [Next]_vars => OwnInv'
<1> SUFFICES ASSUME TypeOK, OwnInv, [Next]_vars PROVE OwnInv'
  OBVIOUS
<1> USE DEF loopVars, leaseVars, statusVars, waitVars
<1>1. ASSUME NEW s \in Sessions, NEW typ \in CommandTypes, Enqueue(s, typ) PROVE OwnInv'
  BY <1>1 DEF Enqueue, OwnInv
<1>2. ASSUME NEW s \in Sessions, Disconnect(s) \/ StatusTick(s) PROVE OwnInv'
  BY <1>2 DEF Disconnect, StatusTick, OwnInv
<1>3. ASSUME NEW s \in Sessions, JoinStatus(s) PROVE OwnInv'
  BY <1>3, NameAssumption DEF JoinStatus, Goto, TypeOK, OwnInv, Callers
<1>4. ASSUME NEW s \in Sessions, ClearOwner(s) PROVE OwnInv'
  BY <1>4, NameAssumption DEF ClearOwner, Goto, TypeOK, OwnInv, Callers
<1>5. ASSUME NEW s \in Sessions, Unregister(s) PROVE OwnInv'
  BY <1>5, NameAssumption DEF Unregister, Goto, TypeOK, OwnInv, Callers
<1>6. ASSUME NEW s \in Sessions, Acquire(s) PROVE OwnInv'
  BY <1>6, NameAssumption DEF Acquire, Goto, TypeOK, OwnInv, Callers
<1>7. ASSUME NEW s \in Sessions, Verify(s) PROVE OwnInv'
  BY <1>7, NameAssumption DEF Verify, Goto, TypeOK, OwnInv, Callers
<1>8. ASSUME NEW s \in Sessions, Unclaim(s) PROVE OwnInv'
  BY <1>8, NameAssumption DEF Unclaim, Goto, TypeOK, OwnInv, Callers
<1>9. ASSUME NEW s \in Sessions, TakeCommand(s) PROVE OwnInv'
  <2>1. pc[s] = "loop" /\ UNCHANGED opMu
    BY <1>9 DEF TakeCommand, Selecting
  <2>2. CASE UNCHANGED <<owner, pc, leaseVars, queries, cur, target, asked>>
    BY <2>1, <2>2 DEF OwnInv
  <2>3. CASE Handle(s, Head(cmds[s]))
    BY <2>1, <2>3, HandleOwn
  <2>4. QED
    BY <1>9, <2>2, <2>3 DEF TakeCommand
<1>10. ASSUME NEW s \in Sessions, TakeDeferred(s) PROVE OwnInv'
  BY <1>10, HandleOwn DEF TakeDeferred
<1>11. ASSUME NEW s \in Sessions, MotionEnds(s) \/ Aborted(s) \/ Leave(s) PROVE OwnInv'
  BY <1>11, ReleaseOwn DEF MotionEnds, Aborted, Leave, Selecting
<1>12. ASSUME NEW s \in Sessions, TakeStatus(s) PROVE OwnInv'
  <2>1. pc[s] = "loop" /\ UNCHANGED <<owner, opMu>> /\ StatusResult(s, Head(statusCh[s]))
    BY <1>12 DEF TakeStatus, Selecting
  <2>2. CASE StartRelease(s)
    BY <2>1, <2>2, ReleaseOwn
  <2>3. CASE UNCHANGED <<pc, lease>>
    BY <2>1, <2>3 DEF OwnInv
  <2>4. QED
    BY <2>1, <2>2, <2>3 DEF StatusResult
<1>13. ASSUME NEW q \in queries, NEW res \in Results, QueryReturns(q, res) PROVE OwnInv'
  BY <1>13 DEF QueryReturns, OwnInv
<1>14. ASSUME NEW q \in queries, QueryReports(q) PROVE OwnInv'
  BY <1>14 DEF QueryReports, OwnInv
<1>15. ASSUME NEW c \in Clients, DisarmActive(c) PROVE OwnInv'
  BY <1>15, NameAssumption DEF DisarmActive, Goto, TypeOK, OwnInv, Callers
<1>16. ASSUME NEW c \in Callers, AskDisarm(c) PROVE OwnInv'
  BY <1>16, NameAssumption DEF AskDisarm, Goto, TypeOK, OwnInv, Callers
<1>17. ASSUME NEW c \in Callers, DisarmCompleted(c) \/ DisarmGivenUp(c) PROVE OwnInv'
  <2>1. pc[c] \in {"ask", "await"} /\ DisarmReturns(c)
    BY <1>17 DEF DisarmCompleted, DisarmGivenUp
  <2>2. PICK next \in {"closed", "loop"} : pc' = [pc EXCEPT ![c] = next]
    BY <2>1 DEF DisarmReturns, Goto
  <2>3. UNCHANGED <<owner, opMu, lease>>
    BY <2>1 DEF DisarmReturns
  <2>4. pc \in [Callers -> SessionPC] /\ Sessions \subseteq Callers
    BY DEF TypeOK, Callers
  <2>5. \A s \in Sessions : s # c => pc'[s] = pc[s]
    BY <2>2, <2>4
  <2>6. c \notin lease
    BY <2>1 DEF OwnInv
  <2>7. \A s \in lease : pc'[s] = "loop"
    BY <2>5, <2>6 DEF OwnInv, TypeOK
  <2>8. \A s \in Sessions : s = c => owner # s /\ opMu # s
    BY <2>1, <2>6 DEF OwnInv
  <2>9. pc'[c] \in {"closed", "loop"}
    BY <2>2, <2>4
  <2>10. QED
    BY <2>3, <2>5, <2>7, <2>8, <2>9 DEF OwnInv
<1>18. CASE UNCHANGED vars
  BY <1>18 DEF vars, OwnInv
<1>19. QED
  BY <1>1, <1>2, <1>3, <1>4, <1>5, <1>6, <1>7, <1>8, <1>9, <1>10, <1>11, <1>12,
     <1>13, <1>14, <1>15, <1>16, <1>17, <1>18 DEF Next, SessionStep

\* Movement has one owner: for any number of sessions that arm, disarm one
\* another, lose their connection or their machine, a session with a lease is
\* the owner and holds opMu, and nobody keeps either without arming, being
\* armed or releasing.
THEOREM JogLeaseHeldByOwner == Spec => []LeaseHeldByOwner
<1>1. Init => OwnInv
  BY NameAssumption DEF Init, OwnInv, Callers
<1>2. TypeOK /\ OwnInv => LeaseHeldByOwner
  BY NameAssumption DEF TypeOK, OwnInv, LeaseHeldByOwner
<1>3. QED
  BY <1>1, <1>2, OwnStep, JogTypeCorrect, PTL DEF Spec

-----------------------------------------------------------------------------
(* Sessions that wait for one another                                       *)

\* A session starts to wait only for the owner, and the owner does not wait:
\* a new edge of the waits-for graph ends at a session without one.
LEMMA NewWaitIsFree ==
  ASSUME TypeOK, OwnInv, owner # NoOne
  PROVE  owner \in Sessions \ Waiting
  BY DEF TypeOK, OwnInv, Waiting

\* Steps that let no session start to wait keep the graph free of circles.
LEMMA NoNewWait ==
  ASSUME NoWaitCycle, Waiting' \subseteq Waiting,
         \A s \in Waiting' : target'[s] = target[s]
  PROVE  NoWaitCycle'
  BY DEF NoWaitCycle

\* Every step preserves the absence of circles.
LEMMA WaitStep == TypeOK /\ OwnInv /\ NoWaitCycle /\ [Next]_vars => NoWaitCycle'
<1> SUFFICES ASSUME TypeOK, OwnInv, NoWaitCycle, [Next]_vars PROVE NoWaitCycle'
  OBVIOUS
<1> USE DEF loopVars, leaseVars, statusVars, waitVars
<1> DEFINE Calm == Waiting' \subseteq Waiting /\ \A s \in Waiting' : target'[s] = target[s]
<1>1. ASSUME NEW s \in Sessions, pc[s] = "loop", Asks(s) PROVE NoWaitCycle'
  <2>1. owner \in Sessions \ Waiting
    BY <1>1, NewWaitIsFree DEF Asks
  <2>2. Waiting' = Waiting \cup {s}
    BY <1>1 DEF Asks, Goto, TypeOK, Waiting, Callers
  <2>3. target'[s] = owner /\ owner # s
    BY <1>1 DEF Asks, TypeOK, Callers
  <2>4. \A r \in Waiting : target'[r] = target[r]
    BY <1>1 DEF Asks, TypeOK, Waiting, Callers
  <2>5. SUFFICES ASSUME NEW W \in SUBSET Waiting', W # {}
                 PROVE  \E r \in W : target'[r] \notin W
    BY DEF NoWaitCycle
  <2>6. CASE s \in W
    BY <2>1, <2>2, <2>3, <2>6
  <2>7. CASE s \notin W
    <3>1. W \in SUBSET Waiting
      BY <2>2, <2>7
    <3>2. PICK r \in W : target[r] \notin W
      BY <2>5, <3>1 DEF NoWaitCycle
    <3>3. QED
      BY <2>4, <3>1, <3>2
  <2>8. QED
    BY <2>6, <2>7
<1>2. ASSUME NEW s \in Sessions, NEW c, pc[s] = "loop", Handle(s, c) PROVE NoWaitCycle'
  <2>1. CASE Refused \/ Requests(s)
    <3>1. Calm
      BY <2>1 DEF Refused, Requests, Waiting
    <3>2. QED
      BY <3>1, NoNewWait
  <2>2. CASE Claims(s)
    <3>1. Calm
      BY <2>2 DEF Claims, Goto, TypeOK, Waiting, Callers
    <3>2. QED
      BY <3>1, NoNewWait
  <2>3. CASE Asks(s)
    BY <1>1, <1>2, <2>3
  <2>4. CASE Releasing(s)
    <3>1. Calm
      BY <2>4 DEF Releasing, StartRelease, Goto, TypeOK, Waiting, Callers
    <3>2. QED
      BY <3>1, NoNewWait
  <2>5. QED
    BY <1>2, <2>1, <2>2, <2>3, <2>4, HandleCases
<1>3. ASSUME NEW s \in Sessions, TakeCommand(s) PROVE NoWaitCycle'
  <2>1. CASE UNCHANGED <<owner, pc, leaseVars, queries, cur, target, asked>>
    BY <2>1, NoNewWait DEF Waiting
  <2>2. CASE Handle(s, Head(cmds[s]))
    BY <1>2, <1>3, <2>2 DEF TakeCommand, Selecting
  <2>3. QED
    BY <1>3, <2>1, <2>2 DEF TakeCommand
<1>4. ASSUME NEW s \in Sessions, TakeDeferred(s) PROVE NoWaitCycle'
  BY <1>2, <1>4 DEF TakeDeferred
<1>5. ASSUME NEW s \in Sessions,
             \/ JoinStatus(s) \/ ClearOwner(s) \/ Unregister(s)
             \/ Acquire(s) \/ Verify(s) \/ Unclaim(s)
      PROVE NoWaitCycle'
  <2>1. Calm
    BY <1>5 DEF JoinStatus, ClearOwner, Unregister, Acquire, Verify, Unclaim, Goto,
                TypeOK, Waiting, Callers
  <2>2. QED
    BY <2>1, NoNewWait
<1>6. ASSUME NEW s \in Sessions, MotionEnds(s) \/ Aborted(s) \/ Leave(s) PROVE NoWaitCycle'
  <2>1. Calm
    BY <1>6 DEF MotionEnds, Aborted, Leave, StartRelease, Goto, TypeOK, Waiting, Callers
  <2>2. QED
    BY <2>1, NoNewWait
<1>7. ASSUME NEW s \in Sessions, TakeStatus(s) PROVE NoWaitCycle'
  <2>1. StatusResult(s, Head(statusCh[s])) /\ UNCHANGED target
    BY <1>7 DEF TakeStatus
  <2>2. Calm
    BY <2>1 DEF StatusResult, StartRelease, Goto, TypeOK, Waiting, Callers
  <2>3. QED
    BY <2>2, NoNewWait
<1>8. CASE UNCHANGED <<pc, target>>
  BY <1>8, NoNewWait DEF Waiting
<1>9. ASSUME NEW c \in Clients, DisarmActive(c) PROVE NoWaitCycle'
  <2>1. Calm
    BY <1>9, NameAssumption DEF DisarmActive, Goto, TypeOK, Waiting, Callers
  <2>2. QED
    BY <2>1, NoNewWait
<1>10. ASSUME NEW c \in Callers, AskDisarm(c) PROVE NoWaitCycle'
  <2>1. Calm
    BY <1>10 DEF AskDisarm, Goto, TypeOK, Waiting, Callers
  <2>2. QED
    BY <2>1, NoNewWait
<1>11. ASSUME NEW c \in Callers, DisarmCompleted(c) \/ DisarmGivenUp(c) PROVE NoWaitCycle'
  <2>1. Calm
    BY <1>11 DEF DisarmCompleted, DisarmGivenUp, DisarmReturns, Goto, TypeOK, Waiting,
                 Callers
  <2>2. QED
    BY <2>1, NoNewWait
<1>12. ASSUME NEW s \in Sessions,
              Disconnect(s) \/ StatusTick(s) \/ (\E typ \in CommandTypes : Enqueue(s, typ))
       PROVE NoWaitCycle'
  BY <1>8, <1>12 DEF Disconnect, StatusTick, Enqueue
<1>13. ASSUME NEW q \in queries,
              QueryReports(q) \/ (\E res \in Results : QueryReturns(q, res))
       PROVE NoWaitCycle'
  BY <1>8, <1>13 DEF QueryReports, QueryReturns
<1>14. CASE UNCHANGED vars
  BY <1>8, <1>14 DEF vars
<1>15. QED
  BY <1>3, <1>4, <1>5, <1>6, <1>7, <1>9, <1>10, <1>11, <1>12, <1>13, <1>14
     DEF Next, SessionStep

\* Loops that wait inside handleCommand for the loop of another session never
\* wait in a circle, whatever number of sessions disarm one another: the two
\* seconds of disarmAndWait are not needed to break a deadlock.
THEOREM JogNoWaitCycle == Spec => []NoWaitCycle
<1>1. Init => OwnInv /\ NoWaitCycle
  BY NameAssumption DEF Init, OwnInv, NoWaitCycle, Waiting, Callers
<1>2. QED
  BY <1>1, OwnStep, WaitStep, JogTypeCorrect, PTL DEF Spec

-----------------------------------------------------------------------------
(* The status query and its answer                                          *)

\* A query belongs to the current lease, or the release of its lease is
\* waiting for it; there is one for each session.
QueryInv ==
    /\ \A q \in queries :
          \/ q.sess \in lease \cap inFlight /\ q.id = leaseID[q.sess]
          \/ pc[q.sess] = "join" /\ q.sess \notin lease /\ q.id < leaseID[q.sess]
    /\ \A q, r \in queries : q.sess = r.sess => q = r

\* An answer in statusCh is of the current lease only if that lease waits for
\* it and for nothing else.
AnswerInv ==
    \A s \in Sessions : \A i \in 1 .. Len(statusCh[s]) :
        /\ statusCh[s][i].id <= leaseID[s]
        /\ statusCh[s][i].id = leaseID[s] =>
              /\ s \in lease \cap inFlight
              /\ \A q \in queries : q.sess # s
              /\ \A j \in 1 .. Len(statusCh[s]) : j # i => statusCh[s][j].id # leaseID[s]

ReaderInv == QueryInv /\ AnswerInv

\* An answer carries the number of a lease.
LEMMA AnswerType ==
  ASSUME TypeOK, NEW s \in Sessions, NEW i \in 1 .. Len(statusCh[s])
  PROVE  statusCh[s][i].id \in Nat
<1>1. statusCh[s] \in Seq(StatusResults)
  BY DEF TypeOK
<1>2. statusCh[s][i] \in StatusResults
  BY <1>1, ElementOfSeq
<1>3. QED
  BY <1>2 DEF StatusResults

\* A release ends the currency of the query and of every answer.
LEMMA ReleaseReader ==
  ASSUME TypeOK, OwnInv, ReaderInv, NEW s \in Sessions, pc[s] = "loop",
         StartRelease(s), UNCHANGED <<queries, statusCh>>
  PROVE  ReaderInv'
<1>0. /\ leaseID \in [Sessions -> Nat]
      /\ \A q \in queries : q.sess \in Sessions /\ q.id \in Nat
      /\ queries' = queries /\ statusCh' = statusCh
  BY DEF TypeOK
<1>1. \A r \in Sessions \ {s} :
         /\ leaseID'[r] = leaseID[r] /\ pc'[r] = pc[r]
         /\ (r \in lease' <=> r \in lease) /\ (r \in inFlight' <=> r \in inFlight)
  BY DEF TypeOK, StartRelease, Goto, Callers
<1>2. /\ s \notin lease' /\ leaseID'[s] >= leaseID[s]
      /\ s \in lease => leaseID'[s] = leaseID[s] + 1 /\ pc'[s] = "join"
      /\ s \notin lease => leaseID'[s] = leaseID[s]
  BY DEF TypeOK, StartRelease, Goto, Callers
<1>3. QueryInv'
  <2>1. ASSUME NEW q \in queries
        PROVE  \/ q.sess \in lease' \cap inFlight' /\ q.id = leaseID'[q.sess]
               \/ pc'[q.sess] = "join" /\ q.sess \notin lease' /\ q.id < leaseID'[q.sess]
    <3>1. CASE q.sess = s
      <4>1. s \in lease /\ q.id = leaseID[s]
        BY <3>1 DEF ReaderInv, QueryInv
      <4>2. QED
        BY <1>0, <1>2, <3>1, <4>1
    <3>2. CASE q.sess # s
      BY <1>0, <1>1, <3>2 DEF ReaderInv, QueryInv
    <3>3. QED
      BY <3>1, <3>2
  <2>2. QED
    BY <1>0, <2>1 DEF ReaderInv, QueryInv
<1>4. AnswerInv'
  <2>1. SUFFICES ASSUME NEW r \in Sessions, NEW i \in 1 .. Len(statusCh[r])
                 PROVE /\ statusCh[r][i].id <= leaseID'[r]
                       /\ statusCh[r][i].id = leaseID'[r] =>
                             /\ r \in lease' \cap inFlight'
                             /\ \A q \in queries : q.sess # r
                             /\ \A j \in 1 .. Len(statusCh[r]) :
                                   j # i => statusCh[r][j].id # leaseID'[r]
    BY <1>0 DEF AnswerInv
  <2>2. CASE r # s
    BY <1>1, <2>2 DEF ReaderInv, AnswerInv
  <2>3. CASE r = s
    <3>1. statusCh[s][i].id \in Nat /\ leaseID[s] \in Nat
      BY <1>0, <2>3, AnswerType
    <3>2. statusCh[s][i].id <= leaseID[s] /\ (s \notin lease => statusCh[s][i].id # leaseID[s])
      BY <2>3 DEF ReaderInv, AnswerInv
    <3>3. QED
      BY <1>2, <2>3, <3>1, <3>2
  <2>4. QED
    BY <2>2, <2>3
<1>5. QED
  BY <1>3, <1>4 DEF ReaderInv

\* A new query starts when the session waits for none.
LEMMA RequestReader ==
  ASSUME TypeOK, OwnInv, ReaderInv, NEW s \in Sessions, pc[s] = "loop",
         RequestStatus(s), UNCHANGED <<pc, lease, leaseID, statusCh>>
  PROVE  ReaderInv'
<1>1. \A q \in queries : q.sess # s
  BY DEF ReaderInv, QueryInv, RequestStatus
<1>2. QueryInv'
  BY <1>1 DEF ReaderInv, QueryInv, RequestStatus
<1>3. AnswerInv'
  BY <1>1 DEF ReaderInv, AnswerInv, RequestStatus
<1>4. QED
  BY <1>2, <1>3 DEF ReaderInv

\* Steps of a loop or a call that leave the lease, the queries and the answers
\* alone, and no release in the middle.
LEMMA CalmReader ==
  ASSUME TypeOK, ReaderInv, UNCHANGED <<lease, leaseID, inFlight, queries, statusCh>>,
         \A s \in Sessions : pc[s] = "join" => pc'[s] = "join"
  PROVE  ReaderInv'
<1>1. QueryInv'
  BY DEF ReaderInv, QueryInv, TypeOK
<1>2. AnswerInv'
  BY DEF ReaderInv, AnswerInv
<1>3. QED
  BY <1>1, <1>2 DEF ReaderInv

LEMMA HandleReader ==
  ASSUME TypeOK, OwnInv, ReaderInv, NEW s \in Sessions, pc[s] = "loop", NEW c,
         Handle(s, c), UNCHANGED statusCh
  PROVE  ReaderInv'
<1>1. CASE Refused
  BY <1>1, CalmReader DEF Refused
<1>2. CASE Claims(s) \/ Asks(s)
  BY <1>2, CalmReader DEF Claims, Asks, Goto, TypeOK, Callers
<1>3. CASE Releasing(s)
  BY <1>3, ReleaseReader DEF Releasing
<1>4. CASE Requests(s)
  BY <1>4, RequestReader DEF Requests
<1>5. QED
  BY <1>1, <1>2, <1>3, <1>4, HandleCases

\* The loop takes one answer: the others are the ones that were behind it.
LEMMA TakeReader ==
  ASSUME TypeOK, OwnInv, ReaderInv, NEW s \in Sessions, TakeStatus(s)
  PROVE  ReaderInv'
<1> DEFINE r == Head(statusCh[s])
<1>1. /\ pc[s] = "loop" /\ statusCh[s] # <<>> /\ StatusResult(s, r)
      /\ statusCh' = [statusCh EXCEPT ![s] = Tail(@)] /\ UNCHANGED queries
  BY DEF TakeStatus, Selecting
<1>2. /\ statusCh[s] \in Seq(StatusResults) /\ Len(statusCh[s]) \in Nat \ {0}
      /\ r = statusCh[s][1]
      /\ Len(statusCh'[s]) = Len(statusCh[s]) - 1
      /\ \A i \in 1 .. Len(statusCh'[s]) :
            i + 1 \in 1 .. Len(statusCh[s]) /\ statusCh'[s][i] = statusCh[s][i + 1]
  BY <1>1 DEF TypeOK
<1>3. \A t \in Sessions \ {s} : statusCh'[t] = statusCh[t]
  BY <1>1 DEF TypeOK
<1>4. CASE UNCHANGED <<pc, leaseVars>>
  <2>1. QueryInv'
    BY <1>1, <1>4 DEF ReaderInv, QueryInv, leaseVars
  <2>2. AnswerInv'
    <3>0. leaseID' = leaseID /\ lease' = lease /\ inFlight' = inFlight /\ queries' = queries
      BY <1>1, <1>4 DEF leaseVars
    <3>1. SUFFICES ASSUME NEW t \in Sessions, NEW i \in 1 .. Len(statusCh'[t])
                   PROVE /\ statusCh'[t][i].id <= leaseID[t]
                         /\ statusCh'[t][i].id = leaseID[t] =>
                               /\ t \in lease \cap inFlight
                               /\ \A q \in queries : q.sess # t
                               /\ \A j \in 1 .. Len(statusCh'[t]) :
                                     j # i => statusCh'[t][j].id # leaseID[t]
      BY <3>0, Zenon DEF AnswerInv
    <3>2. CASE t # s
      BY <1>3, <3>2 DEF ReaderInv, AnswerInv
    <3>3. CASE t = s
      <4>1. \A j \in 1 .. Len(statusCh'[s]) :
               statusCh'[s][j] = statusCh[s][j + 1] /\ j + 1 \in 1 .. Len(statusCh[s])
        BY <1>2
      <4>2. \A j \in 1 .. Len(statusCh'[s]) : j # i => j + 1 # i + 1
        BY <3>3
      <4>3. QED
        BY <3>3, <4>1, <4>2 DEF ReaderInv, AnswerInv
    <3>4. QED
      BY <3>2, <3>3
  <2>3. QED
    BY <2>1, <2>2 DEF ReaderInv
<1>5. CASE /\ r.id = leaseID[s] /\ inFlight' = inFlight \ {s}
           /\ UNCHANGED <<pc, lease, leaseID>>
  <2>1. /\ \A q \in queries : q.sess # s
        /\ \A j \in 1 .. Len(statusCh[s]) : j # 1 => statusCh[s][j].id # leaseID[s]
    BY <1>2, <1>5 DEF ReaderInv, AnswerInv
  <2>2. QueryInv'
    BY <1>1, <1>5, <2>1 DEF ReaderInv, QueryInv
  <2>3. AnswerInv'
    <3>0. leaseID' = leaseID /\ lease' = lease /\ queries' = queries
      BY <1>1, <1>5
    <3>1. SUFFICES ASSUME NEW t \in Sessions, NEW i \in 1 .. Len(statusCh'[t])
                   PROVE /\ statusCh'[t][i].id <= leaseID[t]
                         /\ statusCh'[t][i].id = leaseID[t] =>
                               /\ t \in lease \cap inFlight'
                               /\ \A q \in queries : q.sess # t
                               /\ \A j \in 1 .. Len(statusCh'[t]) :
                                     j # i => statusCh'[t][j].id # leaseID[t]
      BY <3>0, Zenon DEF AnswerInv
    <3>2. CASE t # s
      BY <1>3, <1>5, <3>2 DEF ReaderInv, AnswerInv
    <3>3. CASE t = s
      <4>1. /\ statusCh'[s][i] = statusCh[s][i + 1] /\ i + 1 \in 1 .. Len(statusCh[s])
            /\ i + 1 # 1
        BY <1>2, <3>3
      <4>2. QED
        BY <2>1, <3>3, <4>1 DEF ReaderInv, AnswerInv
    <3>4. QED
      BY <3>2, <3>3
  <2>4. QED
    BY <2>2, <2>3 DEF ReaderInv
<1>6. CASE StartRelease(s) /\ r.id = leaseID[s] /\ s \in lease
  <2>1. \A q \in queries : q.sess # s
    BY <1>2, <1>6 DEF ReaderInv, AnswerInv
  <2>2. \A t \in Sessions \ {s} :
           /\ leaseID'[t] = leaseID[t] /\ pc'[t] = pc[t]
           /\ (t \in lease' <=> t \in lease) /\ (t \in inFlight' <=> t \in inFlight)
    BY <1>6 DEF StartRelease, Goto, TypeOK, Callers
  <2>3. leaseID[s] \in Nat /\ leaseID'[s] = leaseID[s] + 1
    BY <1>6 DEF StartRelease, TypeOK
  <2>4. QueryInv'
    BY <1>1, <2>1, <2>2 DEF ReaderInv, QueryInv, TypeOK
  <2>5. AnswerInv'
    <3>1. SUFFICES ASSUME NEW t \in Sessions, NEW i \in 1 .. Len(statusCh'[t])
                   PROVE /\ statusCh'[t][i].id <= leaseID'[t]
                         /\ statusCh'[t][i].id = leaseID'[t] =>
                               /\ t \in lease' \cap inFlight'
                               /\ \A q \in queries : q.sess # t
                               /\ \A j \in 1 .. Len(statusCh'[t]) :
                                     j # i => statusCh'[t][j].id # leaseID'[t]
      BY <1>1 DEF AnswerInv
    <3>2. CASE t # s
      BY <1>3, <2>2, <3>2 DEF ReaderInv, AnswerInv
    <3>3. CASE t = s
      <4>1. statusCh'[s][i] = statusCh[s][i + 1] /\ i + 1 \in 1 .. Len(statusCh[s])
        BY <1>2, <3>3
      <4>2. statusCh[s][i + 1].id <= leaseID[s] /\ statusCh[s][i + 1].id \in Nat
        BY <4>1, AnswerType DEF ReaderInv, AnswerInv
      <4>3. QED
        BY <2>3, <3>3, <4>1, <4>2
    <3>4. QED
      BY <3>2, <3>3
  <2>6. QED
    BY <2>4, <2>5 DEF ReaderInv
<1>7. QED
  BY <1>1, <1>4, <1>5, <1>6 DEF StatusResult

\* An answer goes from its goroutine into the channel, or is dropped.
LEMMA ReportReader ==
  ASSUME TypeOK, OwnInv, ReaderInv, NEW q \in queries, QueryReports(q)
  PROVE  ReaderInv'
<1> DEFINE s == q.sess
           a == [id |-> q.id, res |-> q.res]
<1>1. s \in Sessions /\ q.id \in Nat /\ leaseID[s] \in Nat
  BY DEF TypeOK
<1>2. /\ queries' = queries \ {q}
      /\ leaseID' = leaseID /\ lease' = lease /\ inFlight' = inFlight /\ pc' = pc
  BY DEF QueryReports, leaseVars
<1>3. QueryInv'
  BY <1>2 DEF ReaderInv, QueryInv
<1>4. \A r \in queries' : r.sess # s
  BY <1>2 DEF ReaderInv, QueryInv
<1>5. q.id <= leaseID[s] /\ (q.id = leaseID[s] => s \in lease \cap inFlight)
  BY <1>1 DEF ReaderInv, QueryInv
<1>6. \A i \in 1 .. Len(statusCh[s]) : statusCh[s][i].id # leaseID[s]
  BY <1>1 DEF ReaderInv, AnswerInv
<1>7. CASE UNCHANGED statusCh
  <2>1. AnswerInv'
    BY <1>2, <1>7 DEF ReaderInv, AnswerInv
  <2>2. QED
    BY <1>3, <2>1 DEF ReaderInv
<1>8. CASE statusCh' = [statusCh EXCEPT ![s] = Append(@, a)]
  <2>1. /\ Len(statusCh[s]) \in Nat
        /\ statusCh'[s] = Append(statusCh[s], a)
        /\ \A t \in Sessions \ {s} : statusCh'[t] = statusCh[t]
    BY <1>1, <1>8 DEF TypeOK
  <2>2. /\ Len(statusCh'[s]) = Len(statusCh[s]) + 1
        /\ \A i \in 1 .. Len(statusCh[s]) : statusCh'[s][i] = statusCh[s][i]
        /\ statusCh'[s][Len(statusCh[s]) + 1] = a
    <3>1. statusCh[s] \in Seq(StatusResults)
      BY <1>1 DEF TypeOK
    <3>2. QED
      BY <2>1, <3>1
  <2>3. a.id = q.id
    OBVIOUS
  <2> HIDE DEF a
  <2>4. AnswerInv'
    <3>1. SUFFICES ASSUME NEW t \in Sessions, NEW i \in 1 .. Len(statusCh'[t])
                   PROVE /\ statusCh'[t][i].id <= leaseID[t]
                         /\ statusCh'[t][i].id = leaseID[t] =>
                               /\ t \in lease \cap inFlight
                               /\ \A r \in queries' : r.sess # t
                               /\ \A j \in 1 .. Len(statusCh'[t]) :
                                     j # i => statusCh'[t][j].id # leaseID[t]
      BY <1>2, Zenon DEF AnswerInv
    <3>2. CASE t # s
      <4>1. statusCh'[t] = statusCh[t]
        BY <2>1, <3>2
      <4>2. QED
        BY <1>2, <4>1 DEF ReaderInv, AnswerInv
    <3>3. CASE t = s
      <4>1. \A j \in 1 .. Len(statusCh'[s]) :
               j \in 1 .. Len(statusCh[s]) \/ j = Len(statusCh[s]) + 1
        BY <2>1, <2>2
      <4>2. statusCh'[s][i].id <= leaseID[s]
        <5>1. CASE i \in 1 .. Len(statusCh[s])
          BY <1>1, <2>2, <5>1 DEF ReaderInv, AnswerInv
        <5>2. CASE i = Len(statusCh[s]) + 1
          BY <1>5, <2>2, <2>3, <5>2
        <5>3. QED
          BY <3>3, <4>1, <5>1, <5>2
      <4>3. ASSUME statusCh'[s][i].id = leaseID[s]
            PROVE  /\ s \in lease \cap inFlight
                   /\ \A j \in 1 .. Len(statusCh'[s]) :
                         j # i => statusCh'[s][j].id # leaseID[s]
        <5>1. i = Len(statusCh[s]) + 1
          BY <1>6, <2>2, <3>3, <4>1, <4>3
        <5>2. q.id = leaseID[s]
          BY <2>2, <2>3, <4>3, <5>1
        <5>3. \A j \in 1 .. Len(statusCh'[s]) : j # i => statusCh'[s][j].id # leaseID[s]
          BY <1>6, <2>2, <4>1, <5>1
        <5>4. QED
          BY <1>5, <5>2, <5>3
      <4>4. QED
        BY <1>4, <3>3, <4>2, <4>3
    <3>4. QED
      BY <3>2, <3>3
  <2>5. QED
    BY <1>3, <2>4 DEF ReaderInv
<1>9. QED
  BY <1>7, <1>8 DEF QueryReports

\* Every step preserves the invariant of queries and answers.
LEMMA ReaderStep == TypeOK /\ OwnInv /\ ReaderInv /\ [Next]_vars => ReaderInv'
<1> SUFFICES ASSUME TypeOK, OwnInv, ReaderInv, [Next]_vars PROVE ReaderInv'
  OBVIOUS
<1> USE DEF loopVars, leaseVars, statusVars, waitVars
<1>1. ASSUME NEW s \in Sessions, NEW typ \in CommandTypes, Enqueue(s, typ) PROVE ReaderInv'
  BY <1>1, CalmReader DEF Enqueue
<1>2. ASSUME NEW s \in Sessions, Disconnect(s) PROVE ReaderInv'
  BY <1>2, CalmReader DEF Disconnect
<1>3. ASSUME NEW s \in Sessions, ClearOwner(s) \/ Unregister(s) \/ Acquire(s) \/ Unclaim(s)
      PROVE ReaderInv'
  <2>1. UNCHANGED <<lease, leaseID, inFlight, queries, statusCh>>
    BY <1>3 DEF ClearOwner, Unregister, Acquire, Unclaim
  <2>2. \A r \in Sessions : pc[r] = "join" => pc'[r] = "join"
    BY <1>3 DEF ClearOwner, Unregister, Acquire, Unclaim, Goto, TypeOK, Callers
  <2>3. QED
    BY <2>1, <2>2, CalmReader
<1>4. ASSUME NEW s \in Sessions, JoinStatus(s) PROVE ReaderInv'
  <2>1. QueryInv'
    BY <1>4 DEF JoinStatus, Goto, TypeOK, Callers, ReaderInv, QueryInv
  <2>2. AnswerInv'
    BY <1>4 DEF JoinStatus, ReaderInv, AnswerInv
  <2>3. QED
    BY <2>1, <2>2 DEF ReaderInv
<1>5. ASSUME NEW s \in Sessions, Verify(s) PROVE ReaderInv'
  <2>1. s \notin lease /\ pc[s] = "verify" /\ \A q \in queries : q.sess # s
    BY <1>5 DEF Verify, OwnInv, ReaderInv, QueryInv
  <2>2. CASE UNCHANGED <<lease, leaseID, inFlight>> /\ Goto(s, "unclaim")
    <3>1. \A r \in Sessions : pc[r] = "join" => pc'[r] = "join"
      BY <2>1, <2>2 DEF Goto, TypeOK, Callers
    <3>2. QED
      BY <1>5, <2>2, <3>1, CalmReader DEF Verify
  <2>3. CASE /\ lease' = lease \cup {s} /\ inFlight' = inFlight \ {s}
             /\ leaseID' = [leaseID EXCEPT ![s] = @ + 1] /\ Goto(s, "loop")
    <3>1. queries' = queries /\ statusCh' = statusCh
      BY <1>5 DEF Verify
    <3>2. \A r \in Sessions \ {s} : leaseID'[r] = leaseID[r] /\ pc'[r] = pc[r]
      BY <2>3 DEF Goto, TypeOK, Callers
    <3>3. leaseID'[s] = leaseID[s] + 1 /\ leaseID[s] \in Nat
      BY <2>3 DEF TypeOK
    <3>4. QueryInv'
      BY <2>1, <2>3, <3>1, <3>2 DEF TypeOK, ReaderInv, QueryInv
    <3>5. AnswerInv'
      <4>1. SUFFICES ASSUME NEW r \in Sessions, NEW i \in 1 .. Len(statusCh[r])
                     PROVE /\ statusCh[r][i].id <= leaseID'[r]
                           /\ statusCh[r][i].id = leaseID'[r] =>
                                 /\ r \in lease' \cap inFlight'
                                 /\ \A q \in queries : q.sess # r
                                 /\ \A j \in 1 .. Len(statusCh[r]) :
                                       j # i => statusCh[r][j].id # leaseID'[r]
        BY <3>1 DEF AnswerInv
      <4>2. CASE r # s
        BY <2>3, <3>2, <4>2 DEF ReaderInv, AnswerInv
      <4>3. CASE r = s
        <5>1. statusCh[s][i].id <= leaseID[s] /\ statusCh[s][i].id \in Nat
          BY <4>3, AnswerType DEF ReaderInv, AnswerInv
        <5>2. QED
          BY <3>3, <4>3, <5>1
      <4>4. QED
        BY <4>2, <4>3
    <3>6. QED
      BY <3>4, <3>5 DEF ReaderInv
  <2>4. QED
    BY <1>5, <2>2, <2>3 DEF Verify
<1>6. ASSUME NEW s \in Sessions, TakeCommand(s) PROVE ReaderInv'
  <2>1. pc[s] = "loop" /\ UNCHANGED statusCh
    BY <1>6 DEF TakeCommand, Selecting
  <2>2. CASE UNCHANGED <<owner, pc, leaseVars, queries, cur, target, asked>>
    BY <2>1, <2>2, CalmReader
  <2>3. CASE Handle(s, Head(cmds[s]))
    BY <2>1, <2>3, HandleReader
  <2>4. QED
    BY <1>6, <2>2, <2>3 DEF TakeCommand
<1>7. ASSUME NEW s \in Sessions, TakeDeferred(s) PROVE ReaderInv'
  BY <1>7, HandleReader DEF TakeDeferred
<1>8. ASSUME NEW s \in Sessions, StatusTick(s) PROVE ReaderInv'
  BY <1>8, RequestReader DEF StatusTick, Selecting
<1>9. ASSUME NEW s \in Sessions, MotionEnds(s) \/ Aborted(s) \/ Leave(s) PROVE ReaderInv'
  BY <1>9, ReleaseReader DEF MotionEnds, Aborted, Leave, Selecting
<1>10. ASSUME NEW s \in Sessions, TakeStatus(s) PROVE ReaderInv'
  BY <1>10, TakeReader
<1>11. ASSUME NEW q \in queries, NEW res \in Results, QueryReturns(q, res) PROVE ReaderInv'
  <2> DEFINE n == [q EXCEPT !.res = res]
  <2>1. n.sess = q.sess /\ n.id = q.id
    BY DEF TypeOK
  <2>2. /\ queries' = (queries \ {q}) \cup {n}
        /\ UNCHANGED <<lease, leaseID, inFlight, statusCh, pc>>
    BY <1>11 DEF QueryReturns
  <2> HIDE DEF n
  <2>3. QueryInv'
    BY <2>1, <2>2 DEF ReaderInv, QueryInv
  <2>4. AnswerInv'
    BY <2>1, <2>2 DEF ReaderInv, AnswerInv
  <2>5. QED
    BY <2>3, <2>4 DEF ReaderInv
<1>12. ASSUME NEW q \in queries, QueryReports(q) PROVE ReaderInv'
  BY <1>12, ReportReader
<1>13. ASSUME NEW c \in Clients, DisarmActive(c) PROVE ReaderInv'
  <2>1. UNCHANGED <<lease, leaseID, inFlight, queries, statusCh>>
    BY <1>13 DEF DisarmActive
  <2>2. \A r \in Sessions : pc[r] = "join" => pc'[r] = "join"
    BY <1>13 DEF DisarmActive, Goto, TypeOK, Callers
  <2>3. QED
    BY <2>1, <2>2, CalmReader
<1>14. ASSUME NEW c \in Callers, AskDisarm(c) \/ DisarmCompleted(c) \/ DisarmGivenUp(c)
       PROVE ReaderInv'
  <2>1. UNCHANGED <<lease, leaseID, inFlight, queries, statusCh>>
    BY <1>14 DEF AskDisarm, DisarmCompleted, DisarmGivenUp, DisarmReturns
  <2>2. \A r \in Sessions : pc[r] = "join" => pc'[r] = "join"
    BY <1>14 DEF AskDisarm, DisarmCompleted, DisarmGivenUp, DisarmReturns, Goto, TypeOK,
                 Callers
  <2>3. QED
    BY <2>1, <2>2, CalmReader
<1>15. CASE UNCHANGED vars
  BY <1>15, CalmReader DEF vars
<1>16. QED
  BY <1>1, <1>2, <1>3, <1>4, <1>5, <1>6, <1>7, <1>8, <1>9, <1>10, <1>11, <1>12,
     <1>13, <1>14, <1>15 DEF Next, SessionStep

\* The connection of a lease has one reader of status frames, and none after
\* the lease is returned: release waits for the goroutine before it unlocks
\* opMu, and leaseID keeps answers of earlier leases apart.
THEOREM JogOneReader == Spec => []OneReaderInsideLease
<1>1. Init => OwnInv /\ ReaderInv
  BY NameAssumption DEF Init, OwnInv, ReaderInv, QueryInv, AnswerInv, Callers
<1>2. TypeOK /\ OwnInv /\ ReaderInv => OneReaderInsideLease
  BY DEF TypeOK, OwnInv, ReaderInv, QueryInv, OneReaderInsideLease
<1>3. QED
  BY <1>1, <1>2, OwnStep, ReaderStep, JogTypeCorrect, PTL DEF Spec

-----------------------------------------------------------------------------
(* The answer to a status query, and the completion of a disarm             *)

\* A live session that waits for an answer has one coming: the query is still
\* running, or its result is in the channel.
AnswerComing(s) ==
    \/ \E q \in queries : q.sess = s /\ q.id = leaseID[s]
    \/ \E i \in 1 .. Len(statusCh[s]) : statusCh[s][i].id = leaseID[s]

ComingInv == \A s \in inFlight \ cancelled : AnswerComing(s)

\* The lease for which the caller asks a session to disarm is over.
Gone(c) == target[c] \in lease => leaseID[target[c]] # asked[c]

\* A request names a caller that waits for the session whose queue holds it;
\* the caller a session will complete, and one that is complete, waits for a
\* lease that is gone; no caller asks about a lease yet to come; and only
\* moves are deferred.
RequestInv ==
    \A s \in Sessions : \A i \in 1 .. Len(cmds[s]) :
        cmds[s][i].by # NoOne =>
            pc[cmds[s][i].by] = "await" /\ target[cmds[s][i].by] = s

CurrentInv ==
    \A s \in Sessions : cur[s] # NoOne =>
        pc[cur[s]] = "await" /\ target[cur[s]] = s /\ Gone(cur[s])

CompleteInv == \A c \in complete : pc[c] = "await" /\ Gone(c)

AskedInv ==
    \A c \in Callers : pc[c] \in {"ask", "await"} =>
        target[c] \in Sessions /\ asked[c] <= leaseID[target[c]]

DeferredInv ==
    \A s \in Sessions : \A i \in 1 .. Len(deferred[s]) : deferred[s][i].typ = "move"

DisarmInv == RequestInv /\ CurrentInv /\ CompleteInv /\ AskedInv /\ DeferredInv

\* What another session does leaves the answer of this one on its way.
LEMMA ComingKept ==
  ASSUME NEW s, AnswerComing(s), leaseID'[s] = leaseID[s], statusCh'[s] = statusCh[s],
         \A q \in queries : q.sess = s => q \in queries'
  PROVE  AnswerComing(s)'
  BY DEF AnswerComing

\* Steps that start no query and neither take nor drop an answer.
LEMMA CalmComing ==
  ASSUME ComingInv, UNCHANGED <<queries, statusCh>>, inFlight' \subseteq inFlight,
         cancelled \subseteq cancelled', \A s \in inFlight' : leaseID'[s] = leaseID[s]
  PROVE  ComingInv'
<1> SUFFICES ASSUME NEW s \in inFlight' \ cancelled' PROVE AnswerComing(s)'
  BY DEF ComingInv
<1>1. AnswerComing(s)
  BY DEF ComingInv
<1>2. QED
  BY <1>1, ComingKept

\* A release waits for no answer any more.
LEMMA ReleaseComing ==
  ASSUME TypeOK, ComingInv, NEW s \in Sessions, StartRelease(s),
         UNCHANGED <<queries, statusCh, cancelled>>
  PROVE  ComingInv'
<1>1. inFlight' \subseteq inFlight
  BY DEF StartRelease
<1>2. \A r \in inFlight' : leaseID'[r] = leaseID[r]
  BY DEF StartRelease, TypeOK
<1>3. QED
  BY <1>1, <1>2, CalmComing

\* A new query brings the answer of the session that started it.
LEMMA RequestComing ==
  ASSUME TypeOK, ComingInv, NEW s \in Sessions, RequestStatus(s),
         UNCHANGED <<leaseID, statusCh, cancelled>>
  PROVE  ComingInv'
<1> DEFINE n == [sess |-> s, id |-> leaseID[s], res |-> Pending]
<1>1. queries' = queries \cup {n} /\ inFlight' = inFlight \cup {s}
  BY DEF RequestStatus
<1>2. AnswerComing(s)'
  <2>1. n \in queries' /\ n.sess = s /\ n.id = leaseID'[s]
    BY <1>1
  <2>2. QED
    BY <2>1 DEF AnswerComing
<1>3. ASSUME NEW r \in inFlight' \ cancelled', r # s PROVE AnswerComing(r)'
  <2>1. AnswerComing(r)
    BY <1>1, <1>3 DEF ComingInv
  <2>2. QED
    BY <1>1, <2>1, ComingKept
<1>4. QED
  BY <1>2, <1>3 DEF ComingInv

LEMMA HandleComing ==
  ASSUME TypeOK, ComingInv, NEW s \in Sessions, NEW c, Handle(s, c),
         UNCHANGED <<statusCh, cancelled>>
  PROVE  ComingInv'
<1>1. CASE Refused \/ Claims(s) \/ Asks(s)
  BY <1>1, CalmComing DEF Refused, Claims, Asks
<1>2. CASE Releasing(s)
  BY <1>2, ReleaseComing DEF Releasing
<1>3. CASE Requests(s)
  BY <1>3, RequestComing DEF Requests
<1>4. QED
  BY <1>1, <1>2, <1>3, HandleCases

\* The answer taken is the one that was waited for, or the session still waits.
LEMMA TakeComing ==
  ASSUME TypeOK, ComingInv, NEW s \in Sessions, TakeStatus(s)
  PROVE  ComingInv'
<1> DEFINE r == Head(statusCh[s])
<1>1. /\ statusCh[s] # <<>> /\ StatusResult(s, r)
      /\ statusCh' = [statusCh EXCEPT ![s] = Tail(@)] /\ UNCHANGED <<queries, cancelled>>
  BY DEF TakeStatus, loopVars
<1>2. /\ Len(statusCh[s]) \in Nat \ {0}
      /\ r = statusCh[s][1]
      /\ Len(statusCh'[s]) = Len(statusCh[s]) - 1
      /\ \A i \in 2 .. Len(statusCh[s]) :
            i - 1 \in 1 .. Len(statusCh'[s]) /\ statusCh'[s][i - 1] = statusCh[s][i]
  BY <1>1 DEF TypeOK
<1>3. \A t \in Sessions \ {s} : statusCh'[t] = statusCh[t]
  BY <1>1 DEF TypeOK
<1>4. /\ inFlight' \subseteq inFlight
      /\ \A t \in Sessions \ {s} : leaseID'[t] = leaseID[t]
  BY <1>1 DEF StatusResult, StartRelease, leaseVars, TypeOK
<1>5. s \in inFlight' => r.id # leaseID[s] /\ leaseID' = leaseID
  BY <1>1 DEF StatusResult, StartRelease, leaseVars
<1>6. SUFFICES ASSUME NEW t \in inFlight' \ cancelled' PROVE AnswerComing(t)'
  BY DEF ComingInv
<1>7. AnswerComing(t) /\ t \in Sessions
  BY <1>1, <1>4 DEF ComingInv, TypeOK
<1>8. CASE t # s
  <2>1. leaseID'[t] = leaseID[t] /\ statusCh'[t] = statusCh[t]
    BY <1>3, <1>4, <1>7, <1>8
  <2>2. QED
    BY <1>1, <1>7, <2>1, ComingKept
<1>9. CASE t = s
  <2>0. r.id # leaseID[s] /\ leaseID' = leaseID
    BY <1>5, <1>9
  <2>1. CASE \E q \in queries : q.sess = s /\ q.id = leaseID[s]
    BY <1>1, <1>9, <2>0, <2>1 DEF AnswerComing
  <2>2. ASSUME NEW i \in 1 .. Len(statusCh[s]), statusCh[s][i].id = leaseID[s]
        PROVE  AnswerComing(s)'
    <3>1. i \in 2 .. Len(statusCh[s])
      BY <1>2, <2>0, <2>2
    <3>2. i - 1 \in 1 .. Len(statusCh'[s]) /\ statusCh'[s][i - 1].id = leaseID'[s]
      BY <1>2, <2>0, <2>2, <3>1
    <3>3. QED
      BY <3>2 DEF AnswerComing
  <2>3. QED
    BY <1>7, <1>9, <2>1, <2>2 DEF AnswerComing
<1>10. QED
  BY <1>8, <1>9

\* A query that is over has put its answer into the channel, or the session is.
LEMMA ReportComing ==
  ASSUME TypeOK, ComingInv, NEW q \in queries, QueryReports(q)
  PROVE  ComingInv'
<1> DEFINE s == q.sess
           a == [id |-> q.id, res |-> q.res]
<1>1. s \in Sessions /\ statusCh[s] \in Seq(StatusResults)
  BY DEF TypeOK
<1>2. /\ queries' = queries \ {q}
      /\ leaseID' = leaseID /\ inFlight' = inFlight /\ cancelled' = cancelled
  BY DEF QueryReports, leaseVars
<1>3. SUFFICES ASSUME NEW t \in inFlight \ cancelled PROVE AnswerComing(t)'
  BY <1>2 DEF ComingInv
<1>4. AnswerComing(t) /\ t \in Sessions
  BY DEF ComingInv, TypeOK
<1>5. CASE t # s
  <2>1. statusCh'[t] = statusCh[t]
    BY <1>4, <1>5 DEF QueryReports, TypeOK
  <2>2. \A p \in queries : p.sess = t => p \in queries'
    BY <1>2, <1>5
  <2>3. QED
    BY <1>2, <1>4, <2>1, <2>2, ComingKept
<1>6. CASE t = s
  <2>1. statusCh' = [statusCh EXCEPT ![s] = Append(@, a)]
    BY <1>6 DEF QueryReports
  <2>2. statusCh'[s] = Append(statusCh[s], a)
    BY <1>1, <2>1 DEF TypeOK
  <2>3. /\ Len(statusCh[s]) \in Nat
        /\ Len(statusCh'[s]) = Len(statusCh[s]) + 1
        /\ \A i \in 1 .. Len(statusCh[s]) : statusCh'[s][i] = statusCh[s][i]
        /\ statusCh'[s][Len(statusCh[s]) + 1] = a
    BY <1>1, <2>2
  <2>4. a.id = q.id
    OBVIOUS
  <2> HIDE DEF a
  <2>5. ASSUME NEW p \in queries, p.sess = s, p.id = leaseID[s] PROVE AnswerComing(s)'
    <3>1. CASE p = q
      <4>1. /\ Len(statusCh[s]) + 1 \in 1 .. Len(statusCh'[s])
            /\ statusCh'[s][Len(statusCh[s]) + 1].id = leaseID'[s]
        BY <1>2, <2>3, <2>4, <2>5, <3>1
      <4>2. QED
        BY <4>1 DEF AnswerComing
    <3>2. CASE p # q
      BY <1>2, <2>5, <3>2 DEF AnswerComing
    <3>3. QED
      BY <3>1, <3>2
  <2>6. ASSUME NEW i \in 1 .. Len(statusCh[s]), statusCh[s][i].id = leaseID[s]
        PROVE  AnswerComing(s)'
    <3>1. i \in 1 .. Len(statusCh'[s]) /\ statusCh'[s][i].id = leaseID'[s]
      BY <1>2, <2>3, <2>6
    <3>2. QED
      BY <3>1 DEF AnswerComing
  <2>7. QED
    BY <1>4, <1>6, <2>5, <2>6 DEF AnswerComing
<1>7. QED
  BY <1>5, <1>6

\* Every step leaves an answer coming to whoever waits for one.
LEMMA ComingStep == TypeOK /\ ComingInv /\ [Next]_vars => ComingInv'
<1> SUFFICES ASSUME TypeOK, ComingInv, [Next]_vars PROVE ComingInv'
  OBVIOUS
<1> USE DEF loopVars, leaseVars, statusVars, waitVars
<1>1. CASE /\ UNCHANGED <<leaseID, inFlight, queries, statusCh>>
           /\ cancelled \subseteq cancelled'
  BY <1>1, CalmComing
<1>2. ASSUME NEW s \in Sessions, \E typ \in CommandTypes : Enqueue(s, typ) PROVE ComingInv'
  BY <1>1, <1>2 DEF Enqueue
<1>3. ASSUME NEW s \in Sessions, Disconnect(s) PROVE ComingInv'
  BY <1>1, <1>3 DEF Disconnect
<1>4. ASSUME NEW s \in Sessions, \/ JoinStatus(s) \/ ClearOwner(s) \/ Unregister(s)
                                 \/ Acquire(s) \/ Unclaim(s)
      PROVE  ComingInv'
  BY <1>1, <1>4 DEF JoinStatus, ClearOwner, Unregister, Acquire, Unclaim
<1>5. ASSUME NEW s \in Sessions, Verify(s) PROVE ComingInv'
  <2>1. inFlight' \subseteq inFlight /\ UNCHANGED <<queries, statusCh, cancelled>>
    BY <1>5 DEF Verify
  <2>2. \A r \in inFlight' : leaseID'[r] = leaseID[r]
    BY <1>5 DEF Verify, TypeOK
  <2>3. QED
    BY <2>1, <2>2, CalmComing
<1>6. ASSUME NEW s \in Sessions, TakeCommand(s) PROVE ComingInv'
  <2>1. UNCHANGED <<statusCh, cancelled>>
    BY <1>6 DEF TakeCommand
  <2>2. CASE UNCHANGED <<leaseVars, queries>>
    BY <1>1, <2>1, <2>2
  <2>3. CASE Handle(s, Head(cmds[s]))
    BY <2>1, <2>3, HandleComing
  <2>4. QED
    BY <1>6, <2>2, <2>3 DEF TakeCommand
<1>7. ASSUME NEW s \in Sessions, TakeDeferred(s) PROVE ComingInv'
  BY <1>7, HandleComing DEF TakeDeferred
<1>8. ASSUME NEW s \in Sessions, StatusTick(s) PROVE ComingInv'
  BY <1>8, RequestComing DEF StatusTick
<1>9. ASSUME NEW s \in Sessions, MotionEnds(s) \/ Aborted(s) \/ Leave(s) PROVE ComingInv'
  BY <1>9, ReleaseComing DEF MotionEnds, Aborted, Leave
<1>10. ASSUME NEW s \in Sessions, TakeStatus(s) PROVE ComingInv'
  BY <1>10, TakeComing
<1>11. ASSUME NEW q \in queries, NEW res \in Results, QueryReturns(q, res) PROVE ComingInv'
  <2> DEFINE n == [q EXCEPT !.res = res]
  <2>1. n.sess = q.sess /\ n.id = q.id
    BY DEF TypeOK
  <2>2. /\ queries' = (queries \ {q}) \cup {n}
        /\ leaseID' = leaseID /\ inFlight' = inFlight /\ statusCh' = statusCh
        /\ cancelled' = cancelled
    BY <1>11 DEF QueryReturns
  <2> HIDE DEF n
  <2>3. \A s : AnswerComing(s) => AnswerComing(s)'
    BY <2>1, <2>2 DEF AnswerComing
  <2>4. QED
    BY <2>2, <2>3 DEF ComingInv
<1>12. ASSUME NEW q \in queries, QueryReports(q) PROVE ComingInv'
  BY <1>12, ReportComing
<1>13. ASSUME NEW c \in Clients, DisarmActive(c) PROVE ComingInv'
  BY <1>1, <1>13 DEF DisarmActive
<1>14. ASSUME NEW c \in Callers, AskDisarm(c) \/ DisarmCompleted(c) \/ DisarmGivenUp(c)
       PROVE ComingInv'
  BY <1>1, <1>14 DEF AskDisarm, DisarmCompleted, DisarmGivenUp, DisarmReturns
<1>15. CASE UNCHANGED vars
  BY <1>1, <1>15 DEF vars
<1>16. QED
  BY <1>2, <1>3, <1>4, <1>5, <1>6, <1>7, <1>8, <1>9, <1>10, <1>11, <1>12,
     <1>13, <1>14, <1>15 DEF Next, SessionStep

-----------------------------------------------------------------------------
(* What a step does to a caller of disarmAndWait                            *)

Held(c) == target'[c] = target[c] /\ asked'[c] = asked[c]

\* The call goes on.
GoesOn(c) ==
    /\ pc[c] \in {"ask", "await"} /\ pc'[c] \in {"ask", "await"} /\ Held(c)
    /\ pc[c] = "await" => pc'[c] = "await"
\* The call begins.
Begins(c) ==
    /\ pc[c] = "loop" /\ pc'[c] = "ask" /\ owner # NoOne
    /\ target'[c] = owner /\ asked'[c] = leaseID[owner]
    /\ UNCHANGED leaseID
\* The call returns.
Ends(c) == pc[c] \in {"ask", "await"} /\ DisarmReturns(c)
\* There is no call.
Elsewhere(c) == pc[c] \notin {"ask", "await"} /\ pc'[c] \notin {"ask", "await"}

CallerCase(c) == GoesOn(c) \/ Begins(c) \/ Ends(c) \/ Elsewhere(c)

\* A step that moves one program counter between places outside the call.
LEMMA OtherPlace ==
  ASSUME TypeOK, NEW s \in Sessions, NEW label, Goto(s, label),
         pc[s] \notin {"ask", "await"}, label \notin {"ask", "await"},
         UNCHANGED <<target, asked>>
  PROVE  \A c \in Callers : CallerCase(c)
<1> SUFFICES ASSUME NEW c \in Callers PROVE GoesOn(c) \/ Elsewhere(c)
  BY DEF CallerCase
<1>1. pc'[c] = IF c = s THEN label ELSE pc[c]
  BY DEF Goto, TypeOK, Callers
<1>2. QED
  BY <1>1 DEF GoesOn, Elsewhere, Held

LEMMA SamePlace ==
  ASSUME UNCHANGED <<pc, target, asked>>
  PROVE  \A c \in Callers : CallerCase(c)
  BY DEF CallerCase, GoesOn, Elsewhere, Held

LEMMA HandleCaller ==
  ASSUME TypeOK, NEW s \in Sessions, pc[s] = "loop", NEW m, Handle(s, m)
  PROVE  \A c \in Callers : CallerCase(c)
<1>1. CASE Refused \/ Requests(s)
  BY <1>1, SamePlace DEF Refused, Requests
<1>2. CASE Claims(s)
  BY <1>2, OtherPlace DEF Claims
<1>3. CASE Releasing(s)
  BY <1>3, OtherPlace DEF Releasing, StartRelease
<1>4. CASE Asks(s)
  <2> SUFFICES ASSUME NEW c \in Callers PROVE GoesOn(c) \/ Begins(c) \/ Elsewhere(c)
    BY DEF CallerCase
  <2>1. CASE c = s
    BY <1>4, <2>1 DEF Asks, Begins, Goto, TypeOK, Callers
  <2>2. CASE c # s
    BY <1>4, <2>2 DEF Asks, GoesOn, Elsewhere, Held, Goto, TypeOK, Callers
  <2>3. QED
    BY <2>1, <2>2
<1>5. QED
  BY <1>1, <1>2, <1>3, <1>4, HandleCases

\* Every step, seen by a caller.
LEMMA CallerCases ==
  ASSUME TypeOK, [Next]_vars
  PROVE  \A c \in Callers : CallerCase(c)
<1> USE DEF loopVars, leaseVars, statusVars, waitVars
<1>0. CASE UNCHANGED <<pc, target, asked>>
  BY <1>0, SamePlace
<1>1. ASSUME NEW s \in Sessions, (\E typ \in CommandTypes : Enqueue(s, typ)) \/ Disconnect(s)
      PROVE \A c \in Callers : CallerCase(c)
  BY <1>0, <1>1 DEF Enqueue, Disconnect
<1>2. ASSUME NEW s \in Sessions, JoinStatus(s) \/ Unregister(s) \/ Acquire(s) \/ Unclaim(s)
      PROVE \A c \in Callers : CallerCase(c)
  BY <1>2, OtherPlace DEF JoinStatus, Unregister, Acquire, Unclaim
<1>3. ASSUME NEW s \in Sessions, Verify(s)
      PROVE \A c \in Callers : CallerCase(c)
  BY <1>3, OtherPlace DEF Verify
<1>4. ASSUME NEW s \in Sessions, ClearOwner(s)
      PROVE \A c \in Callers : CallerCase(c)
  BY <1>4, OtherPlace DEF ClearOwner
<1>5. ASSUME NEW s \in Sessions, TakeCommand(s)
      PROVE \A c \in Callers : CallerCase(c)
  <2>1. pc[s] = "loop"
    BY <1>5 DEF TakeCommand, Selecting
  <2>2. QED
    BY <1>0, <1>5, <2>1, HandleCaller DEF TakeCommand
<1>6. ASSUME NEW s \in Sessions, TakeDeferred(s)
      PROVE \A c \in Callers : CallerCase(c)
  BY <1>6, HandleCaller DEF TakeDeferred
<1>7. ASSUME NEW s \in Sessions, StatusTick(s)
      PROVE \A c \in Callers : CallerCase(c)
  BY <1>0, <1>7 DEF StatusTick
<1>8. ASSUME NEW s \in Sessions, MotionEnds(s) \/ Aborted(s) \/ Leave(s)
      PROVE \A c \in Callers : CallerCase(c)
  BY <1>8, OtherPlace DEF MotionEnds, Aborted, Leave, Selecting, StartRelease
<1>9. ASSUME NEW s \in Sessions, TakeStatus(s)
      PROVE \A c \in Callers : CallerCase(c)
  <2>1. pc[s] = "loop" /\ UNCHANGED <<target, asked>>
    BY <1>9 DEF TakeStatus, Selecting
  <2>2. UNCHANGED pc \/ StartRelease(s)
    BY <1>9 DEF TakeStatus, StatusResult
  <2>3. QED
    BY <1>0, <2>1, <2>2, OtherPlace DEF StartRelease
<1>10. ASSUME NEW q \in queries, QueryReports(q) \/ \E res \in Results : QueryReturns(q, res)
       PROVE \A c \in Callers : CallerCase(c)
  BY <1>0, <1>10 DEF QueryReports, QueryReturns
<1>11. ASSUME NEW d \in Clients, DisarmActive(d)
       PROVE \A c \in Callers : CallerCase(c)
  <2> SUFFICES ASSUME NEW c \in Callers PROVE GoesOn(c) \/ Begins(c) \/ Elsewhere(c)
    BY DEF CallerCase
  <2>1. CASE c = d
    BY <1>11, <2>1 DEF DisarmActive, Begins, Elsewhere, Goto, TypeOK, Callers
  <2>2. CASE c # d
    BY <1>11, <2>2 DEF DisarmActive, GoesOn, Elsewhere, Held, Goto, TypeOK, Callers
  <2>3. QED
    BY <2>1, <2>2
<1>12. ASSUME NEW d \in Callers, AskDisarm(d)
       PROVE \A c \in Callers : CallerCase(c)
  <2> SUFFICES ASSUME NEW c \in Callers PROVE GoesOn(c) \/ Elsewhere(c)
    BY DEF CallerCase
  <2>1. CASE c = d
    BY <1>12, <2>1 DEF AskDisarm, GoesOn, Held, Goto, TypeOK
  <2>2. CASE c # d
    BY <1>12, <2>2 DEF AskDisarm, GoesOn, Elsewhere, Held, Goto, TypeOK
  <2>3. QED
    BY <2>1, <2>2
<1>13. ASSUME NEW d \in Callers, DisarmCompleted(d) \/ DisarmGivenUp(d)
       PROVE \A c \in Callers : CallerCase(c)
  <2> SUFFICES ASSUME NEW c \in Callers PROVE GoesOn(c) \/ Ends(c) \/ Elsewhere(c)
    BY DEF CallerCase
  <2>1. CASE c = d
    BY <1>13, <2>1 DEF DisarmCompleted, DisarmGivenUp, Ends
  <2>2. CASE c # d
    <3>1. DisarmReturns(d)
      BY <1>13 DEF DisarmCompleted, DisarmGivenUp
    <3>2. pc'[c] = pc[c] /\ target'[c] = target[c] /\ asked'[c] = asked[c]
      BY <2>2, <3>1 DEF DisarmReturns, Goto, TypeOK
    <3>3. QED
      BY <3>2 DEF GoesOn, Elsewhere, Held
  <2>3. QED
    BY <2>1, <2>2
<1>14. CASE UNCHANGED vars
  BY <1>0, <1>14 DEF vars
<1>15. QED
  BY <1>1, <1>2, <1>3, <1>4, <1>5, <1>6, <1>7, <1>8, <1>9, <1>10, <1>11, <1>12,
     <1>13, <1>14 DEF Next, SessionStep

\* A lease that is over does not come back under its number.
LeaseAdvances ==
    \A s \in Sessions :
        /\ leaseID'[s] >= leaseID[s]
        /\ s \in lease' => (s \in lease /\ leaseID'[s] = leaseID[s]) \/ leaseID'[s] > leaseID[s]

LEMMA ReleaseAdvances ==
  ASSUME TypeOK, NEW s \in Sessions, StartRelease(s)
  PROVE  LeaseAdvances
<1>1. \A r \in Sessions : leaseID[r] \in Nat
  BY DEF TypeOK
<1>2. \A r \in Sessions : leaseID'[r] = IF r = s /\ s \in lease THEN leaseID[r] + 1 ELSE leaseID[r]
  BY DEF StartRelease, TypeOK
<1>3. lease' \subseteq lease /\ s \notin lease'
  BY DEF StartRelease
<1>4. QED
  BY <1>1, <1>2, <1>3 DEF LeaseAdvances

LEMMA CalmAdvances ==
  ASSUME TypeOK, UNCHANGED <<lease, leaseID>>
  PROVE  LeaseAdvances
<1>1. \A r \in Sessions : leaseID[r] \in Nat
  BY DEF TypeOK
<1>2. QED
  BY <1>1 DEF LeaseAdvances

LEMMA HandleAdvances ==
  ASSUME TypeOK, NEW s \in Sessions, NEW m, Handle(s, m)
  PROVE  LeaseAdvances
<1>1. CASE Refused \/ Claims(s) \/ Asks(s) \/ Requests(s)
  BY <1>1, CalmAdvances DEF Refused, Claims, Asks, Requests
<1>2. CASE Releasing(s)
  BY <1>2, ReleaseAdvances DEF Releasing
<1>3. QED
  BY <1>1, <1>2, HandleCases

LEMMA AdvancesStep == TypeOK /\ [Next]_vars => LeaseAdvances
<1> SUFFICES ASSUME TypeOK, [Next]_vars PROVE LeaseAdvances
  OBVIOUS
<1> USE DEF loopVars, leaseVars, statusVars, waitVars
<1>0. CASE UNCHANGED <<lease, leaseID>>
  BY <1>0, CalmAdvances
<1>1. ASSUME NEW s \in Sessions,
             \/ \E typ \in CommandTypes : Enqueue(s, typ)
             \/ Disconnect(s) \/ StatusTick(s) \/ JoinStatus(s) \/ ClearOwner(s)
             \/ Unregister(s) \/ Acquire(s) \/ Unclaim(s)
      PROVE LeaseAdvances
  BY <1>0, <1>1 DEF Enqueue, Disconnect, StatusTick, RequestStatus, JoinStatus, ClearOwner,
                    Unregister, Acquire, Unclaim
<1>2. ASSUME NEW s \in Sessions, Verify(s) PROVE LeaseAdvances
  <2>1. CASE UNCHANGED leaseVars
    BY <1>0, <2>1
  <2>2. CASE lease' = lease \cup {s} /\ leaseID' = [leaseID EXCEPT ![s] = @ + 1]
    <3>1. \A r \in Sessions : leaseID[r] \in Nat
      BY DEF TypeOK
    <3>2. \A r \in Sessions : leaseID'[r] = IF r = s THEN leaseID[r] + 1 ELSE leaseID[r]
      BY <2>2 DEF TypeOK
    <3>3. QED
      BY <2>2, <3>1, <3>2 DEF LeaseAdvances
  <2>3. QED
    BY <1>2, <2>1, <2>2 DEF Verify
<1>3. ASSUME NEW s \in Sessions, TakeCommand(s) PROVE LeaseAdvances
  BY <1>0, <1>3, HandleAdvances DEF TakeCommand
<1>4. ASSUME NEW s \in Sessions, TakeDeferred(s) PROVE LeaseAdvances
  BY <1>4, HandleAdvances DEF TakeDeferred
<1>5. ASSUME NEW s \in Sessions, MotionEnds(s) \/ Aborted(s) \/ Leave(s) PROVE LeaseAdvances
  BY <1>5, ReleaseAdvances DEF MotionEnds, Aborted, Leave
<1>6. ASSUME NEW s \in Sessions, TakeStatus(s) PROVE LeaseAdvances
  <2>1. UNCHANGED <<lease, leaseID>> \/ StartRelease(s)
    BY <1>6 DEF TakeStatus, StatusResult
  <2>2. QED
    BY <1>0, <2>1, ReleaseAdvances
<1>7. ASSUME NEW q \in queries, QueryReports(q) \/ \E res \in Results : QueryReturns(q, res)
      PROVE LeaseAdvances
  BY <1>0, <1>7 DEF QueryReports, QueryReturns
<1>8. ASSUME NEW c \in Callers, \/ AskDisarm(c) \/ DisarmCompleted(c) \/ DisarmGivenUp(c)
                                \/ DisarmActive(c)
      PROVE LeaseAdvances
  BY <1>0, <1>8 DEF AskDisarm, DisarmCompleted, DisarmGivenUp, DisarmReturns, DisarmActive
<1>9. CASE UNCHANGED vars
  BY <1>0, <1>9 DEF vars
<1>10. QED
  BY <1>1, <1>2, <1>3, <1>4, <1>5, <1>6, <1>7, <1>8, <1>9 DEF Next, SessionStep, Callers

\* No caller asks about a lease yet to come.
LEMMA AskedStep == TypeOK /\ AskedInv /\ [Next]_vars => AskedInv'
<1> SUFFICES ASSUME TypeOK, AskedInv, [Next]_vars, NEW c \in Callers,
                    pc'[c] \in {"ask", "await"}
             PROVE  target'[c] \in Sessions /\ asked'[c] <= leaseID'[target'[c]]
  BY DEF AskedInv
<1>1. LeaseAdvances /\ CallerCase(c)
  BY AdvancesStep, CallerCases
<1>2. asked[c] \in Nat /\ \A s \in Sessions : leaseID[s] \in Nat /\ leaseID'[s] \in Nat
  BY TypeStep DEF TypeOK
<1>3. CASE GoesOn(c)
  <2>1. target'[c] = target[c] /\ asked'[c] = asked[c] /\ target[c] \in Sessions
    BY <1>3 DEF GoesOn, Held, AskedInv
  <2>2. asked[c] <= leaseID[target[c]] /\ leaseID[target[c]] <= leaseID'[target[c]]
    BY <1>1, <1>2, <1>3, <2>1 DEF GoesOn, AskedInv, LeaseAdvances
  <2>3. QED
    BY <1>2, <2>1, <2>2
<1>4. CASE Begins(c)
  <2>1. owner \in Sessions
    BY <1>4 DEF Begins, TypeOK
  <2>2. QED
    BY <1>2, <1>4, <2>1 DEF Begins
<1>5. CASE Ends(c)
  BY <1>5 DEF Ends, DisarmReturns, Goto, TypeOK
<1>6. QED
  BY <1>1, <1>3, <1>4, <1>5 DEF CallerCase, Elsewhere

\* A caller that waits for a lease that is gone does so until it returns.
LEMMA GoneKept ==
  ASSUME TypeOK, AskedInv, [Next]_vars, NEW c \in Callers, pc[c] = "await"
  PROVE  \/ pc'[c] = "await" /\ target'[c] = target[c] /\ (Gone(c) => Gone(c)')
         \/ DisarmReturns(c)
<1>1. LeaseAdvances /\ CallerCase(c)
  BY AdvancesStep, CallerCases
<1>2. asked[c] \in Nat /\ \A s \in Sessions : leaseID[s] \in Nat /\ leaseID'[s] \in Nat
  BY TypeStep DEF TypeOK
<1>3. CASE GoesOn(c)
  <2>1. /\ pc'[c] = "await" /\ target'[c] = target[c] /\ asked'[c] = asked[c]
        /\ target[c] \in Sessions /\ asked[c] <= leaseID[target[c]]
    BY <1>3 DEF GoesOn, Held, AskedInv
  <2>2. ASSUME Gone(c), target[c] \in lease' PROVE leaseID'[target[c]] # asked[c]
    BY <1>1, <1>2, <2>1, <2>2 DEF Gone, LeaseAdvances
  <2>3. QED
    BY <2>1, <2>2 DEF Gone
<1>4. QED
  BY <1>1, <1>3 DEF CallerCase, Begins, Ends, Elsewhere

\* Only a move is deferred.
LEMMA DeferredStep == TypeOK /\ DeferredInv /\ [Next]_vars => DeferredInv'
<1> SUFFICES ASSUME TypeOK, DeferredInv, [Next]_vars PROVE DeferredInv'
  OBVIOUS
<1> USE DEF loopVars, leaseVars, statusVars, waitVars
<1>0. CASE UNCHANGED deferred
  BY <1>0 DEF DeferredInv
<1>1. ASSUME NEW s \in Sessions, NEW d \in Seq(Commands), deferred' = [deferred EXCEPT ![s] = d],
             \A i \in 1 .. Len(d) : d[i].typ = "move"
      PROVE  DeferredInv'
  BY <1>1 DEF DeferredInv, TypeOK
<1>2. ASSUME NEW s \in Sessions, TakeCommand(s) PROVE DeferredInv'
  <2> DEFINE m == Head(cmds[s])
  <2>1. m \in Commands /\ deferred[s] \in Seq(Commands)
    BY <1>2, QueueHead DEF TakeCommand, TypeOK
  <2>2. \A i \in 1 .. Len(deferred[s]) : deferred[s][i].typ = "move"
    BY DEF DeferredInv
  <2>3. CASE deferred' = [deferred EXCEPT ![s] = Append(@, m)] /\ m.typ = "move"
    <3> HIDE DEF m
    <3>1. /\ Append(deferred[s], m) \in Seq(Commands)
          /\ Len(Append(deferred[s], m)) = Len(deferred[s]) + 1 /\ Len(deferred[s]) \in Nat
          /\ \A i \in 1 .. Len(deferred[s]) : Append(deferred[s], m)[i] = deferred[s][i]
          /\ Append(deferred[s], m)[Len(deferred[s]) + 1] = m
      BY <2>1, AppendProperties
    <3>2. \A i \in 1 .. Len(Append(deferred[s], m)) : Append(deferred[s], m)[i].typ = "move"
      BY <2>2, <2>3, <3>1
    <3>3. deferred' = [deferred EXCEPT ![s] = Append(deferred[s], m)]
      BY <2>3
    <3>4. QED
      BY <1>1, <3>1, <3>2, <3>3
  <2>4. CASE deferred' = [deferred EXCEPT ![s] = <<>>]
    <3>1. <<>> \in Seq(Commands) /\ \A i \in 1 .. Len(<<>>) : <<>>[i].typ = "move"
      OBVIOUS
    <3>2. QED
      BY <1>1, <2>4, <3>1
  <2>5. CASE deferred' = [deferred EXCEPT ![s] = @]
    BY <1>1, <2>1, <2>2, <2>5
  <2>6. \/ /\ m.typ = "move"
           /\ deferred' = [deferred EXCEPT ![s] = IF Len(@) < QueueCap THEN Append(@, m) ELSE @]
        \/ deferred' = [deferred EXCEPT ![s] = IF Releases(m) THEN <<>> ELSE @]
    BY <1>2 DEF TakeCommand
  <2> HIDE DEF m
  <2>7. QED
    BY <2>3, <2>4, <2>5, <2>6
<1>3. ASSUME NEW s \in Sessions, TakeDeferred(s) PROVE DeferredInv'
  <2>1. /\ deferred[s] \in Seq(Commands) /\ deferred[s] # <<>>
        /\ deferred' = [deferred EXCEPT ![s] = Tail(deferred[s])]
    BY <1>3 DEF TakeDeferred, TypeOK
  <2>2. /\ Tail(deferred[s]) \in Seq(Commands)
        /\ \A i \in 1 .. Len(Tail(deferred[s])) :
              i + 1 \in 1 .. Len(deferred[s]) /\ Tail(deferred[s])[i] = deferred[s][i + 1]
    BY <2>1
  <2>3. \A i \in 1 .. Len(Tail(deferred[s])) : Tail(deferred[s])[i].typ = "move"
    BY <2>2 DEF DeferredInv
  <2>4. QED
    BY <1>1, <2>1, <2>2, <2>3
<1>4. ASSUME NEW s \in Sessions,
             \/ \E typ \in CommandTypes : Enqueue(s, typ)
             \/ Disconnect(s) \/ TakeStatus(s) \/ StatusTick(s) \/ MotionEnds(s)
             \/ Aborted(s) \/ Leave(s) \/ JoinStatus(s) \/ ClearOwner(s)
             \/ Unregister(s) \/ Acquire(s) \/ Verify(s) \/ Unclaim(s)
      PROVE DeferredInv'
  BY <1>0, <1>4 DEF Enqueue, Disconnect, TakeStatus, StatusTick, MotionEnds, Aborted, Leave,
                    JoinStatus, ClearOwner, Unregister, Acquire, Verify, Unclaim
<1>5. ASSUME NEW q \in queries, QueryReports(q) \/ \E res \in Results : QueryReturns(q, res)
      PROVE DeferredInv'
  BY <1>0, <1>5 DEF QueryReports, QueryReturns
<1>6. ASSUME NEW c \in Callers, \/ AskDisarm(c) \/ DisarmCompleted(c) \/ DisarmGivenUp(c)
                                \/ DisarmActive(c)
      PROVE DeferredInv'
  BY <1>0, <1>6 DEF AskDisarm, DisarmCompleted, DisarmGivenUp, DisarmReturns, DisarmActive
<1>7. CASE UNCHANGED vars
  BY <1>0, <1>7 DEF vars
<1>8. QED
  BY <1>2, <1>3, <1>4, <1>5, <1>6, <1>7 DEF Next, SessionStep, Callers

\* A call that returns leaves no request with its name behind.
LEMMA Forgotten ==
  ASSUME TypeOK, NEW c \in Callers, DisarmReturns(c), NEW s \in Sessions
  PROVE  /\ Len(cmds'[s]) = Len(cmds[s])
         /\ \A i \in 1 .. Len(cmds'[s]) :
               /\ cmds'[s][i].by # c
               /\ cmds'[s][i].by # NoOne => cmds'[s][i].by = cmds[s][i].by
         /\ cur'[s] # c /\ (cur'[s] # NoOne => cur'[s] = cur[s])
<1> DEFINE forget(m) == IF m.by = c THEN [m EXCEPT !.by = NoOne] ELSE m
<1>1. cmds' = [r \in Sessions |-> [i \in DOMAIN cmds[r] |-> forget(cmds[r][i])]]
  BY DEF DisarmReturns
<1>2. cmds[s] \in Seq(Commands) /\ DOMAIN cmds[s] = 1 .. Len(cmds[s])
  BY DEF TypeOK
<1>3. cmds'[s] = [i \in DOMAIN cmds[s] |-> forget(cmds[s][i])]
  BY <1>1
<1>4. ASSUME NEW m \in Commands
      PROVE  forget(m).by # c /\ (forget(m).by # NoOne => forget(m).by = m.by)
  BY <1>4, NameAssumption DEF Commands
<1>5. \A i \in 1 .. Len(cmds[s]) : cmds[s][i] \in Commands /\ cmds'[s][i] = forget(cmds[s][i])
  BY <1>2, <1>3, ElementOfSeq
<1>6. Len(cmds'[s]) = Len(cmds[s])
  <2>1. cmds'[s] \in Seq(Commands)
    BY DisarmReturnsType DEF TypeOK
  <2>2. DOMAIN cmds'[s] = 1 .. Len(cmds[s])
    BY <1>2, <1>3
  <2>3. Len(cmds[s]) \in Nat
    BY <1>2
  <2>4. QED
    BY <2>1, <2>2, <2>3, LenProperties
<1>7. cur'[s] # c /\ (cur'[s] # NoOne => cur'[s] = cur[s])
  BY NameAssumption DEF DisarmReturns
<1> HIDE DEF forget
<1>8. QED
  BY <1>4, <1>5, <1>6, <1>7

\* Where the requests in a queue come from.
LEMMA RequestOrigin ==
  ASSUME TypeOK, [Next]_vars, NEW s \in Sessions, NEW i \in 1 .. Len(cmds'[s]),
         cmds'[s][i].by # NoOne
  PROVE  \/ \E j \in 1 .. Len(cmds[s]) : cmds[s][j].by = cmds'[s][i].by
         \/ /\ AskDisarm(cmds'[s][i].by) /\ target[cmds'[s][i].by] = s
            /\ cmds'[s][i].by \in Callers
<1> USE DEF loopVars, leaseVars, statusVars, waitVars
<1> DEFINE Goal == \/ \E j \in 1 .. Len(cmds[s]) : cmds[s][j].by = cmds'[s][i].by
                   \/ /\ AskDisarm(cmds'[s][i].by) /\ target[cmds'[s][i].by] = s
                      /\ cmds'[s][i].by \in Callers
<1>s. cmds[s] \in Seq(Commands)
  BY DEF TypeOK
<1>0. CASE cmds'[s] = cmds[s]
  BY <1>0
<1>a. ASSUME NEW m \in Commands, cmds'[s] = Append(cmds[s], m)
      PROVE  (\E j \in 1 .. Len(cmds[s]) : cmds[s][j].by = cmds'[s][i].by) \/ cmds'[s][i] = m
  <2>1. /\ Len(cmds'[s]) = Len(cmds[s]) + 1 /\ Len(cmds[s]) \in Nat
        /\ \A j \in 1 .. Len(cmds[s]) : cmds'[s][j] = cmds[s][j]
        /\ cmds'[s][Len(cmds[s]) + 1] = m
    BY <1>s, <1>a, AppendProperties
  <2>2. i \in 1 .. Len(cmds[s]) \/ i = Len(cmds[s]) + 1
    BY <2>1
  <2>3. QED
    BY <2>1, <2>2
<1>1. ASSUME NEW r \in Sessions, NEW typ \in CommandTypes, Enqueue(r, typ) PROVE Goal
  <2> DEFINE m == [typ |-> typ, by |-> NoOne]
  <2>1. CASE r # s
    BY <1>0, <1>1, <2>1 DEF Enqueue, TypeOK
  <2>2. CASE r = s
    <3>1. m \in Commands /\ m.by = NoOne
      BY DEF Commands
    <3>2. cmds'[s] = Append(cmds[s], m)
      BY <1>1, <2>2 DEF Enqueue, TypeOK
    <3> HIDE DEF m
    <3>3. QED
      BY <1>a, <3>1, <3>2
  <2>3. QED
    BY <2>1, <2>2
<1>2. ASSUME NEW c \in Callers, AskDisarm(c) PROVE Goal
  <2> DEFINE m == [typ |-> "disarm", by |-> c]
  <2>1. CASE target[c] # s
    BY <1>0, <1>2, <2>1 DEF AskDisarm, TypeOK
  <2>2. CASE target[c] = s
    <3>1. m \in Commands /\ m.by = c
      BY DEF Commands, CommandTypes
    <3>2. cmds'[s] = Append(cmds[s], m)
      BY <1>2, <2>2 DEF AskDisarm, TypeOK
    <3> HIDE DEF m
    <3>3. QED
      BY <1>2, <1>a, <2>2, <3>1, <3>2
  <2>3. QED
    BY <2>1, <2>2
<1>3. ASSUME NEW r \in Sessions, TakeCommand(r) PROVE Goal
  <2>1. CASE r # s
    BY <1>0, <1>3, <2>1 DEF TakeCommand, TypeOK
  <2>2. CASE r = s
    <3>1. cmds'[s] = Tail(cmds[s]) /\ cmds[s] # <<>>
      BY <1>3, <2>2 DEF TakeCommand, TypeOK
    <3>2. i + 1 \in 1 .. Len(cmds[s]) /\ cmds'[s][i] = cmds[s][i + 1]
      BY <1>s, <3>1
    <3>3. QED
      BY <3>2
  <2>3. QED
    BY <2>1, <2>2
<1>4. ASSUME NEW c \in Callers, DisarmReturns(c) PROVE Goal
  BY <1>4, Forgotten
<1>5. ASSUME NEW r \in Sessions,
             \/ Disconnect(r) \/ TakeStatus(r) \/ StatusTick(r) \/ MotionEnds(r)
             \/ Aborted(r) \/ Leave(r) \/ JoinStatus(r) \/ ClearOwner(r)
             \/ Unregister(r) \/ Acquire(r) \/ Verify(r) \/ Unclaim(r) \/ TakeDeferred(r)
      PROVE Goal
  BY <1>0, <1>5 DEF Disconnect, TakeStatus, StatusTick, MotionEnds, Aborted, Leave,
                    JoinStatus, ClearOwner, Unregister, Acquire, Verify, Unclaim, TakeDeferred
<1>6. ASSUME NEW q \in queries, QueryReports(q) \/ \E res \in Results : QueryReturns(q, res)
      PROVE Goal
  BY <1>0, <1>6 DEF QueryReports, QueryReturns
<1>7. ASSUME NEW c \in Clients, DisarmActive(c) PROVE Goal
  BY <1>0, <1>7 DEF DisarmActive
<1>8. CASE UNCHANGED vars
  BY <1>0, <1>8 DEF vars
<1>9. QED
  BY <1>1, <1>2, <1>3, <1>4, <1>5, <1>6, <1>7, <1>8
     DEF Next, SessionStep, DisarmCompleted, DisarmGivenUp

\* A request in a queue is waited for.
LEMMA RequestStep == TypeOK /\ RequestInv /\ AskedInv /\ [Next]_vars => RequestInv'
<1> SUFFICES ASSUME TypeOK, RequestInv, AskedInv, [Next]_vars, NEW s \in Sessions,
                    NEW i \in 1 .. Len(cmds'[s]), cmds'[s][i].by # NoOne
             PROVE  pc'[cmds'[s][i].by] = "await" /\ target'[cmds'[s][i].by] = s
  BY DEF RequestInv
<1> DEFINE b == cmds'[s][i].by
<1>1. b \in Callers
  <2>1. cmds'[s] \in Seq(Commands)
    BY TypeStep DEF TypeOK
  <2>2. cmds'[s][i] \in Commands
    BY <2>1, ElementOfSeq
  <2>3. QED
    BY <2>2 DEF Commands
<1>2. CASE \E j \in 1 .. Len(cmds[s]) : cmds[s][j].by = b
  <2>1. pc[b] = "await" /\ target[b] = s
    BY <1>2 DEF RequestInv
  <2>2. ~DisarmReturns(b)
    BY <1>1, Forgotten
  <2> HIDE DEF b
  <2>3. QED
    BY <1>1, <2>1, <2>2, GoneKept DEF b
<1>3. CASE AskDisarm(b) /\ target[b] = s
  BY <1>1, <1>3 DEF AskDisarm, Goto, TypeOK, waitVars
<1>4. QED
  BY <1>2, <1>3, RequestOrigin

\* Handling a command names the caller to complete only for a disarm, after
\* which the session has no lease.
LEMMA HandleCur ==
  ASSUME TypeOK, OwnInv, NEW s \in Sessions, NEW m, Handle(s, m)
  PROVE  \/ UNCHANGED cur
         \/ m.typ = "disarm" /\ cur' = [cur EXCEPT ![s] = m.by] /\ s \notin lease'
<1>1. CASE m.typ # "disarm"
  BY <1>1 DEF Handle
<1>2. CASE HandleDisarm(s, m.by) /\ m.typ = "disarm"
  <2>1. cur' = [cur EXCEPT ![s] = m.by]
    BY <1>2 DEF HandleDisarm
  <2>2. CASE owner \notin {NoOne, s} /\ UNCHANGED leaseVars
    BY <2>2, <1>2, <2>1 DEF OwnInv, leaseVars
  <2>3. CASE StartRelease(s)
    BY <1>2, <2>1, <2>3 DEF StartRelease
  <2>4. QED
    BY <1>2, <2>2, <2>3 DEF HandleDisarm
<1>3. QED
  BY <1>1, <1>2 DEF Handle

\* Where the caller to complete comes from.
LEMMA CurrentOrigin ==
  ASSUME TypeOK, OwnInv, DeferredInv, [Next]_vars, NEW s \in Sessions, cur'[s] # NoOne
  PROVE  \/ cur'[s] = cur[s]
         \/ /\ s \notin lease'
            /\ \E j \in 1 .. Len(cmds[s]) : cmds[s][j].by = cur'[s]
<1> USE DEF loopVars, leaseVars, statusVars, waitVars
<1> DEFINE Goal == \/ cur'[s] = cur[s]
                   \/ /\ s \notin lease'
                      /\ \E j \in 1 .. Len(cmds[s]) : cmds[s][j].by = cur'[s]
<1>0. CASE UNCHANGED cur
  BY <1>0
<1>1. ASSUME NEW r \in Sessions, ClearOwner(r) PROVE Goal
  BY <1>1 DEF ClearOwner, TypeOK
<1>2. ASSUME NEW r \in Sessions, TakeCommand(r) PROVE Goal
  <2>1. CASE Handle(r, Head(cmds[r])) /\ ~UNCHANGED cur
    <3>1. cur' = [cur EXCEPT ![r] = Head(cmds[r]).by] /\ r \notin lease'
      BY <2>1, HandleCur
    <3>2. CASE r # s
      BY <3>1, <3>2 DEF TypeOK
    <3>3. CASE r = s
      <4>1. cmds[s] \in Seq(Commands) /\ cmds[s] # <<>>
        BY <1>2, <3>3 DEF TakeCommand, TypeOK
      <4>2. 1 \in 1 .. Len(cmds[s]) /\ Head(cmds[s]) = cmds[s][1]
        BY <4>1
      <4>3. cur'[s] = Head(cmds[s]).by
        BY <3>1, <3>3 DEF TypeOK
      <4>4. QED
        BY <3>1, <3>3, <4>2, <4>3
    <3>4. QED
      BY <3>2, <3>3
  <2>2. QED
    BY <1>0, <1>2, <2>1 DEF TakeCommand
<1>3. ASSUME NEW r \in Sessions, TakeDeferred(r) PROVE Goal
  <2>1. deferred[r] \in Seq(Commands) /\ deferred[r] # <<>> /\ Handle(r, Head(deferred[r]))
    BY <1>3 DEF TakeDeferred, TypeOK
  <2>2. 1 \in 1 .. Len(deferred[r]) /\ Head(deferred[r]) = deferred[r][1]
    BY <2>1
  <2>3. Head(deferred[r]).typ = "move"
    BY <2>2 DEF DeferredInv
  <2>4. QED
    BY <1>0, <2>1, <2>3, HandleCur
<1>4. ASSUME NEW c \in Callers, DisarmReturns(c) PROVE Goal
  BY <1>4, Forgotten
<1>5. ASSUME NEW r \in Sessions,
             \/ \E typ \in CommandTypes : Enqueue(r, typ)
             \/ Disconnect(r) \/ TakeStatus(r) \/ StatusTick(r) \/ MotionEnds(r)
             \/ Aborted(r) \/ Leave(r) \/ JoinStatus(r)
             \/ Unregister(r) \/ Acquire(r) \/ Verify(r) \/ Unclaim(r)
      PROVE Goal
  BY <1>0, <1>5 DEF Enqueue, Disconnect, TakeStatus, StatusTick, MotionEnds, Aborted, Leave,
                    JoinStatus, Unregister, Acquire, Verify, Unclaim
<1>6. ASSUME NEW q \in queries, QueryReports(q) \/ \E res \in Results : QueryReturns(q, res)
      PROVE Goal
  BY <1>0, <1>6 DEF QueryReports, QueryReturns
<1>7. ASSUME NEW c \in Callers, AskDisarm(c) \/ DisarmActive(c) PROVE Goal
  BY <1>0, <1>7 DEF AskDisarm, DisarmActive
<1>8. CASE UNCHANGED vars
  BY <1>0, <1>8 DEF vars
<1>9. QED
  BY <1>1, <1>2, <1>3, <1>4, <1>5, <1>6, <1>7, <1>8
     DEF Next, SessionStep, DisarmCompleted, DisarmGivenUp, Callers

\* The caller a session will complete waits for a lease that is gone.
LEMMA CurrentStep == TypeOK /\ OwnInv /\ DisarmInv /\ [Next]_vars => CurrentInv'
<1> SUFFICES ASSUME TypeOK, OwnInv, DisarmInv, [Next]_vars, NEW s \in Sessions, cur'[s] # NoOne
             PROVE  /\ pc'[cur'[s]] = "await" /\ target'[cur'[s]] = s
                    /\ target'[cur'[s]] \in lease' => leaseID'[target'[cur'[s]]] # asked'[cur'[s]]
  BY DEF CurrentInv, Gone
<1>0. PICK b \in Callers : cur'[s] = b
  BY TypeStep DEF TypeOK
<1> SUFFICES /\ pc'[b] = "await" /\ target'[b] = s
             /\ target'[b] \in lease' => leaseID'[target'[b]] # asked'[b]
  BY <1>0
<1>1. b # NoOne
  BY NameAssumption
<1>2. ~DisarmReturns(b)
  BY <1>0, Forgotten
<1>3. CASE b = cur[s]
  <2>1. pc[b] = "await" /\ target[b] = s /\ Gone(b)
    BY <1>1, <1>3 DEF DisarmInv, CurrentInv
  <2>2. pc'[b] = "await" /\ target'[b] = target[b] /\ Gone(b)'
    BY <1>2, <2>1, GoneKept DEF DisarmInv
  <2>3. QED
    BY <2>1, <2>2 DEF Gone
<1>4. CASE s \notin lease' /\ \E j \in 1 .. Len(cmds[s]) : cmds[s][j].by = b
  <2>1. pc[b] = "await" /\ target[b] = s
    BY <1>1, <1>4 DEF DisarmInv, RequestInv
  <2>2. pc'[b] = "await" /\ target'[b] = s
    BY <1>2, <2>1, GoneKept DEF DisarmInv
  <2>3. QED
    BY <1>4, <2>2
<1>5. QED
  BY <1>0, <1>1, <1>3, <1>4, CurrentOrigin DEF DisarmInv

\* A caller is completed only by the session it asked, after the lease is gone.
LEMMA CompleteStep ==
    TypeOK /\ DisarmInv /\ NoWaitCycle /\ [Next]_vars => CompleteInv'
<1> SUFFICES ASSUME TypeOK, DisarmInv, NoWaitCycle, [Next]_vars, NEW c \in complete'
             PROVE  pc'[c] = "await" /\ Gone(c)'
  BY DEF CompleteInv
<1> USE DEF loopVars, leaseVars, statusVars, waitVars
<1>1. c \in complete \/ \E s \in Sessions : cur[s] = c /\ c # NoOne
  <2>0. CASE UNCHANGED complete
    BY <2>0
  <2>1. ASSUME NEW s \in Sessions, ClearOwner(s)
        PROVE  c \in complete \/ \E r \in Sessions : cur[r] = c /\ c # NoOne
    BY <2>1 DEF ClearOwner
  <2>2. ASSUME NEW d \in Callers, DisarmReturns(d)
        PROVE  c \in complete \/ \E r \in Sessions : cur[r] = c /\ c # NoOne
    BY <2>2 DEF DisarmReturns
  <2>3. CASE \E s \in Sessions : TakeCommand(s) \/ TakeDeferred(s)
    BY <2>0, <2>3 DEF TakeCommand, TakeDeferred
  <2>4. ASSUME NEW s \in Sessions,
               \/ \E typ \in CommandTypes : Enqueue(s, typ)
               \/ Disconnect(s) \/ TakeStatus(s) \/ StatusTick(s) \/ MotionEnds(s)
               \/ Aborted(s) \/ Leave(s) \/ JoinStatus(s)
               \/ Unregister(s) \/ Acquire(s) \/ Verify(s) \/ Unclaim(s)
        PROVE  UNCHANGED complete
    BY <2>4 DEF Enqueue, Disconnect, TakeStatus, StatusTick, MotionEnds, Aborted, Leave,
                JoinStatus, Unregister, Acquire, Verify, Unclaim
  <2>5. ASSUME NEW q \in queries, QueryReports(q) \/ \E res \in Results : QueryReturns(q, res)
        PROVE  UNCHANGED complete
    BY <2>5 DEF QueryReports, QueryReturns
  <2>6. ASSUME NEW d \in Callers, AskDisarm(d) \/ DisarmActive(d) PROVE UNCHANGED complete
    BY <2>6 DEF AskDisarm, DisarmActive
  <2>7. CASE UNCHANGED vars
    BY <2>0, <2>7 DEF vars
  <2>8. QED
    BY <2>0, <2>1, <2>2, <2>3, <2>4, <2>5, <2>6, <2>7
       DEF Next, SessionStep, DisarmCompleted, DisarmGivenUp, Callers
<1>2. c \in Callers /\ pc[c] = "await" /\ Gone(c)
  <2>1. c \in Callers
    BY TypeStep DEF TypeOK
  <2>2. QED
    BY <1>1, <2>1 DEF DisarmInv, CompleteInv, CurrentInv
<1>3. ~DisarmReturns(c)
  <2> SUFFICES ASSUME DisarmReturns(c) PROVE FALSE
    OBVIOUS
  <2>1. c \in Sessions /\ cur[c] = c /\ c # NoOne
    BY DEF DisarmReturns
  <2>2. target[c] = c /\ {c} \in SUBSET Waiting
    BY <1>2, <2>1 DEF DisarmInv, CurrentInv, Waiting
  <2>3. QED
    BY <2>2 DEF NoWaitCycle
<1>4. QED
  BY <1>2, <1>3, GoneKept DEF DisarmInv

\* All of the disarm invariant.
LEMMA DisarmStep ==
    TypeOK /\ OwnInv /\ NoWaitCycle /\ DisarmInv /\ [Next]_vars => DisarmInv'
<1>1. DisarmInv => RequestInv /\ AskedInv /\ DeferredInv
  BY DEF DisarmInv
<1>2. RequestInv' /\ CurrentInv' /\ CompleteInv' /\ AskedInv' /\ DeferredInv' => DisarmInv'
  BY DEF DisarmInv
<1>3. QED
  BY <1>1, <1>2, RequestStep, CurrentStep, CompleteStep, AskedStep, DeferredStep

\* The two counts of InFlightHasAnswer, from what the invariants say of the sets.
LEMMA AnswerCount ==
  ASSUME TypeOK, ReaderInv, ComingInv, NEW s \in Sessions \ cancelled
  PROVE  Current(s) = IF s \in inFlight THEN 1 ELSE 0
<1> DEFINE Q == {q \in queries : q.sess = s /\ q.id = leaseID[s]}
           A == {i \in DOMAIN statusCh[s] : statusCh[s][i].id = leaseID[s]}
<1>0. DOMAIN statusCh[s] = 1 .. Len(statusCh[s]) /\ leaseID[s] \in Nat
  BY DEF TypeOK
<1>1. Q = {} \/ \E q : Q = {q}
  BY DEF ReaderInv, QueryInv
<1>2. A = {} \/ \E i : A = {i} /\ Q = {}
  BY <1>0 DEF ReaderInv, AnswerInv
<1>3. s \in inFlight => Q # {} \/ A # {}
  BY <1>0 DEF ComingInv, AnswerComing
<1>4. s \notin inFlight => Q = {} /\ A = {}
  <2>1. ASSUME NEW q \in queries, q.sess = s, q.id = leaseID[s] PROVE s \in inFlight
    BY <1>0, <2>1 DEF ReaderInv, QueryInv
  <2>2. ASSUME NEW i \in 1 .. Len(statusCh[s]), statusCh[s][i].id = leaseID[s]
        PROVE  s \in inFlight
    BY <2>2 DEF ReaderInv, AnswerInv
  <2>3. QED
    BY <1>0, <2>1, <2>2
<1>5. Cardinality({}) = 0 /\ \A x : Cardinality({x}) = 1
  BY FS_EmptySet, FS_Singleton
<1>6. Current(s) = Cardinality(Q) + Cardinality(A)
  BY DEF Current
<1> HIDE DEF Q, A
<1>7. Cardinality(Q) = IF Q = {} THEN 0 ELSE 1
  BY <1>1, <1>5
<1>8. Cardinality(A) = IF A = {} THEN 0 ELSE 1
  BY <1>2, <1>5
<1>9. CASE s \in inFlight
  <2>1. (Q = {} /\ A # {}) \/ (Q # {} /\ A = {})
    BY <1>2, <1>3, <1>9
  <2>2. QED
    BY <1>6, <1>7, <1>8, <1>9, <2>1
<1>10. CASE s \notin inFlight
  BY <1>4, <1>6, <1>7, <1>8, <1>10
<1>11. QED
  BY <1>9, <1>10

\* What a loop is told is about what it asked for: a status query in flight has
\* exactly one answer coming, of its own lease, and a completed disarm means
\* that the lease it was asked for is over, also when the session asked had
\* lost ownership and passed the request on (handleStatusResult,
\* disarmAndWait, handleCommand).
THEOREM JogAnswersAreOwn == Spec => []AnswersAreOwn
<1> DEFINE Inv == OwnInv /\ NoWaitCycle /\ ReaderInv /\ ComingInv /\ DisarmInv
<1>1. Init => Inv
  <2> SUFFICES ASSUME Init PROVE Inv
    OBVIOUS
  <2>1. OwnInv /\ NoWaitCycle /\ ReaderInv /\ ComingInv
    BY NameAssumption DEF Init, OwnInv, NoWaitCycle, Waiting, Callers, ReaderInv, QueryInv,
                          AnswerInv, ComingInv
  <2>2. RequestInv /\ CurrentInv /\ CompleteInv /\ DeferredInv
    BY DEF Init, RequestInv, CurrentInv, CompleteInv, DeferredInv
  <2>3. AskedInv
    BY DEF Init, AskedInv
  <2>4. QED
    BY <2>1, <2>2, <2>3 DEF DisarmInv
<1>2. TypeOK /\ Inv /\ [Next]_vars => Inv'
  BY OwnStep, WaitStep, ReaderStep, ComingStep, DisarmStep
<1>3. TypeOK /\ Inv => AnswersAreOwn
  <2> SUFFICES ASSUME TypeOK, Inv PROVE AnswersAreOwn
    OBVIOUS
  <2>1. InFlightHasAnswer
    BY AnswerCount DEF InFlightHasAnswer
  <2>2. CompleteMeansDisarmed
    BY DEF CompleteMeansDisarmed, DisarmInv, CompleteInv, Gone
  <2>3. QED
    BY <2>1, <2>2 DEF AnswersAreOwn
<1> HIDE DEF Inv
<1>4. QED
  BY <1>1, <1>2, <1>3, JogTypeCorrect, PTL DEF Spec

=============================================================================
