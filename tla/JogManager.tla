----------------------------- MODULE JogManager -----------------------------
(***************************************************************************)
(* Movement control (internal/jog/jog.go): the Manager that lets one of the *)
(* connected UI sessions own movement, and the run loop of each Session:    *)
(* its command queue, the commands deferred behind a status query, arming,  *)
(* disarming (one's own lease or another session's), the status goroutine   *)
(* and the release of the machine lease.                                    *)
(*                                                                          *)
(* A step is one critical section of Manager.mu or Session.mu, or one       *)
(* blocking operation (lockOp, QueryState, statusWG.Wait, a channel).  What *)
(* a command writes to the machine, and the position it plans, are in       *)
(* JogPlanner; here a movement command is one of its effects on the lease.  *)
(***************************************************************************)
EXTENDS Naturals, Sequences, FiniteSets

CONSTANTS
    Sessions,      \* connected UI sessions
    Clients,       \* goroutines that call Manager.DisarmActive (WebDAV)
    NoOne,         \* nil
    QueueCap,      \* capacity of Session.cmds, and bound of deferred
    StatusCap,     \* capacity of Session.statusCh
    MaxCommands    \* bound: commands the UI sends to all the sessions

Callers == Sessions \cup Clients

ASSUME CapAssumption == QueueCap \in Nat \ {0} /\ StatusCap \in Nat \ {0}
ASSUME BoundAssumption == MaxCommands \in Nat
ASSUME NameAssumption ==
    /\ NoOne \notin Callers
    /\ Sessions \cap Clients = {}

VARIABLES
    owner,         \* Manager.owner
    opMu,          \* the session that holds Arbiter.opMu through AcquireJog
    cancelled,     \* sessions whose ctx is done
    pc,            \* where each session's loop, and each client, is
    cmds,          \* Session.cmds
    deferred,      \* the loop's deferred commands
    cur,           \* caller whose complete channel the loop closes next
    exiting,       \* sessions whose loop runs its deferred function
    lease,         \* sessions with Session.lease # nil
    leaseID,       \* Session.leaseID
    inFlight,      \* sessions with statusInFlight
    retry,         \* sessions with statusRetry
    queries,       \* status goroutines: [sess, id, res]
    statusCh,      \* Session.statusCh
    target,        \* disarmAndWait: the session the caller disarms
    asked,         \* disarmAndWait: the leaseID it found there
    complete,      \* callers whose complete channel is closed
    sent           \* commands sent so far

loopVars == <<cmds, deferred, exiting, sent>>
leaseVars == <<lease, leaseID, inFlight, retry>>
statusVars == <<queries, statusCh>>
waitVars == <<cur, target, asked, complete>>
vars == <<owner, opMu, cancelled, pc, cmds, deferred, cur, exiting, lease,
          leaseID, inFlight, retry, queries, statusCh, target, asked,
          complete, sent>>

CommandTypes == {"arm", "disarm", "control", "move"}
Commands == [typ : CommandTypes, by : Callers \cup {NoOne}]
\* What a status query brings: a joggable state; nothing in time, or a damaged
\* frame; another state, or the end of the connection.
Results == {"joggable", "none", "lost"}
Pending == "pending"
StatusResults == [id : Nat, res : Results]
SessionPC == {"loop", "acquire", "verify", "unclaim", "ask", "await", "join",
              "clear", "unregister", "closed"}

(***************************************************************************)
(* TypeOK: every variable has the shape of the field it models.             *)
(***************************************************************************)
TypeOK ==
    /\ owner \in Sessions \cup {NoOne}
    /\ opMu \in Sessions \cup {NoOne}
    /\ cancelled \subseteq Sessions
    /\ pc \in [Callers -> SessionPC]
    /\ cmds \in [Sessions -> Seq(Commands)]
    /\ deferred \in [Sessions -> Seq(Commands)]
    /\ cur \in [Sessions -> Callers \cup {NoOne}]
    /\ exiting \subseteq Sessions
    /\ lease \subseteq Sessions
    /\ leaseID \in [Sessions -> Nat]
    /\ inFlight \subseteq Sessions
    /\ retry \subseteq Sessions
    /\ queries \subseteq [sess : Sessions, id : Nat, res : Results \cup {Pending}]
    /\ statusCh \in [Sessions -> Seq(StatusResults)]
    /\ target \in [Callers -> Sessions \cup {NoOne}]
    /\ asked \in [Callers -> Nat]
    /\ complete \subseteq Callers
    /\ sent \in Nat

Init ==
    /\ owner = NoOne
    /\ opMu = NoOne
    /\ cancelled = {}
    /\ pc = [c \in Callers |-> "loop"]
    /\ cmds = [s \in Sessions |-> <<>>]
    /\ deferred = [s \in Sessions |-> <<>>]
    /\ cur = [s \in Sessions |-> NoOne]
    /\ exiting = {}
    /\ lease = {}
    /\ leaseID = [s \in Sessions |-> 0]
    /\ inFlight = {}
    /\ retry = {}
    /\ queries = {}
    /\ statusCh = [s \in Sessions |-> <<>>]
    /\ target = [c \in Callers |-> NoOne]
    /\ asked = [c \in Callers |-> 0]
    /\ complete = {}
    /\ sent = 0

Goto(c, label) == pc' = [pc EXCEPT ![c] = label]

-----------------------------------------------------------------------------
(* The outside: the UI and its connection.                                  *)

\* Session.enqueue; with the queue full the command is refused.
Enqueue(s, typ) ==
    /\ sent < MaxCommands
    /\ s \notin cancelled
    /\ Len(cmds[s]) < QueueCap
    /\ cmds' = [cmds EXCEPT ![s] = Append(@, [typ |-> typ, by |-> NoOne])]
    /\ sent' = sent + 1
    /\ UNCHANGED <<owner, opMu, cancelled, pc, deferred, exiting, leaseVars,
                   statusVars, waitVars>>

\* The WebSocket ends, or Session.Close: the session's ctx is cancelled.
Disconnect(s) ==
    /\ s \notin cancelled
    /\ cancelled' = cancelled \cup {s}
    /\ UNCHANGED <<owner, opMu, pc, loopVars, leaseVars, statusVars, waitVars>>

-----------------------------------------------------------------------------
(* Release of the lease                                                     *)

\* release, its critical section: the session has no lease from here on, but
\* the machine is given back only after statusWG.Wait.
StartRelease(s) ==
    /\ lease' = lease \ {s}
    /\ leaseID' = [leaseID EXCEPT ![s] = IF s \in lease THEN @ + 1 ELSE @]
    /\ inFlight' = inFlight \ {s}
    /\ retry' = retry \ {s}
    /\ Goto(s, IF s \in lease THEN "join" ELSE "clear")

\* Mutant: the lease is returned while its status query still reads.
JoinStatusEarly(s) ==
    /\ pc[s] = "join"
    /\ opMu' = NoOne
    /\ Goto(s, "clear")
    /\ UNCHANGED <<owner, cancelled, loopVars, leaseVars, statusVars, waitVars>>

\* statusWG.Wait returned; lease.Release unlocks opMu.
JoinStatus(s) ==
    /\ pc[s] = "join"
    /\ ~\E q \in queries : q.sess = s
    /\ opMu' = NoOne
    /\ Goto(s, "clear")
    /\ UNCHANGED <<owner, cancelled, loopVars, leaseVars, statusVars, waitVars>>

\* clearOwner, and the close of the complete channel as handleCommand returns.
ClearOwner(s) ==
    /\ pc[s] = "clear"
    /\ owner' = IF owner = s THEN NoOne ELSE owner
    /\ Goto(s, IF s \in exiting THEN "unregister" ELSE "loop")
    /\ complete' = complete \cup ({cur[s]} \ {NoOne})
    /\ cur' = [cur EXCEPT ![s] = NoOne]
    /\ UNCHANGED <<opMu, cancelled, loopVars, leaseVars, statusVars, target, asked>>

-----------------------------------------------------------------------------
(* The run loop                                                             *)

\* statusTransactionBusy
Busy(s) == s \in inFlight \cup retry

\* The loop takes deferred commands first, as soon as none needs to wait.
Selecting(s) == pc[s] = "loop" /\ s \in Sessions /\ (deferred[s] = <<>> \/ Busy(s))

\* requestStatus spawns the goroutine that queries the machine; nextStatusAt
\* may hold it back.
RequestStatus(s) ==
    /\ s \in lease \ inFlight
    /\ inFlight' = inFlight \cup {s}
    /\ queries' = queries \cup {[sess |-> s, id |-> leaseID[s], res |-> Pending]}

\* Mutant: a second UI takes movement over from the first.
HandleArmAnyone(s) ==
    /\ s \notin lease
    /\ owner' = s
    /\ Goto(s, "acquire")

\* handleArm up to AcquireJog: already armed, refused, or the owner from now on.
HandleArm(s) ==
    \/ /\ s \in lease \/ owner \notin {NoOne, s}
       /\ UNCHANGED <<owner, pc>>
    \/ /\ s \notin lease
       /\ owner \in {NoOne, s}
       /\ owner' = s
       /\ Goto(s, "acquire")

\* Mutant: the session waits for whoever owns movement, itself included.
HandleDisarmAnyOwner(s, by) ==
    \/ /\ owner # NoOne
       /\ target' = [target EXCEPT ![s] = owner]
       /\ asked' = [asked EXCEPT ![s] = leaseID[owner]]
       /\ Goto(s, "ask")
       /\ cur' = [cur EXCEPT ![s] = by]
       /\ UNCHANGED leaseVars
    \/ /\ owner = NoOne
       /\ cur' = [cur EXCEPT ![s] = by]
       /\ StartRelease(s)
       /\ UNCHANGED <<target, asked>>

\* "disarm": another owner is asked to disarm, otherwise release.
HandleDisarm(s, by) ==
    \/ /\ owner \notin {NoOne, s}
       /\ target' = [target EXCEPT ![s] = owner]
       /\ asked' = [asked EXCEPT ![s] = leaseID[owner]]
       /\ Goto(s, "ask")
       /\ cur' = [cur EXCEPT ![s] = by]
       /\ UNCHANGED leaseVars
    \/ /\ owner \in {NoOne, s}
       /\ cur' = [cur EXCEPT ![s] = by]
       /\ StartRelease(s)
       /\ UNCHANGED <<target, asked>>

\* "control" hold or halt: SendControl fails, or the lease is released.
HandleControl(s) ==
    \/ UNCHANGED <<pc, leaseVars>>
    \/ StartRelease(s)

\* step, origin, machine_origin, target: refused or written; a status is
\* requested; or the state was left or the write failed, and release.
HandleMove(s) ==
    \/ UNCHANGED <<pc, leaseVars, queries>>
    \/ /\ RequestStatus(s)
       /\ UNCHANGED <<pc, lease, leaseID, retry>>
    \/ /\ s \in lease
       /\ StartRelease(s)
       /\ UNCHANGED queries

\* handleCommand
Handle(s, c) ==
    \/ /\ c.typ = "arm"
       /\ HandleArm(s)
       /\ UNCHANGED <<leaseVars, queries, cur, target, asked>>
    \/ /\ c.typ = "disarm"
       /\ HandleDisarm(s, c.by)
       /\ UNCHANGED <<owner, queries>>
    \/ /\ c.typ = "control"
       /\ HandleControl(s)
       /\ UNCHANGED <<owner, queries, cur, target, asked>>
    \/ /\ c.typ = "move"
       /\ HandleMove(s)
       /\ UNCHANGED <<owner, cur, target, asked>>

\* commandReleasesLease
Releases(c) == c.typ \in {"disarm", "control"}

\* case cmd := <-s.cmds.  A move waits for the status query in flight (or is
\* refused with 16 waiting); a command that releases cancels the waiting ones.
TakeCommand(s) ==
    /\ Selecting(s)
    /\ cmds[s] # <<>>
    /\ cmds' = [cmds EXCEPT ![s] = Tail(@)]
    /\ LET c == Head(cmds[s]) IN
       \/ /\ c.typ = "move" /\ Busy(s)
          /\ deferred' = [deferred EXCEPT
                 ![s] = IF Len(@) < QueueCap THEN Append(@, c) ELSE @]
          /\ UNCHANGED <<owner, pc, leaseVars, queries, cur, target, asked>>
       \/ /\ ~(c.typ = "move" /\ Busy(s))
          /\ deferred' = [deferred EXCEPT ![s] = IF Releases(c) THEN <<>> ELSE @]
          /\ Handle(s, c)
    /\ UNCHANGED <<opMu, cancelled, exiting, statusCh, complete, sent>>

\* The deferred command at the head, once the status transaction is over.
TakeDeferred(s) ==
    /\ pc[s] = "loop" /\ deferred[s] # <<>> /\ ~Busy(s)
    /\ deferred' = [deferred EXCEPT ![s] = Tail(@)]
    /\ Handle(s, Head(deferred[s]))
    /\ UNCHANGED <<opMu, cancelled, cmds, exiting, statusCh, complete, sent>>

\* statusTick, and motionTick's requests.
StatusTick(s) ==
    /\ Selecting(s)
    /\ RequestStatus(s)
    /\ UNCHANGED <<owner, opMu, cancelled, pc, loopVars, lease, leaseID, retry,
                   statusCh, waitVars>>

\* motionTick gives the lease up: the machine left the joggable states, a
\* segment could not be written, or a target was never confirmed.
MotionEnds(s) ==
    /\ Selecting(s)
    /\ s \in lease
    /\ StartRelease(s)
    /\ UNCHANGED <<owner, opMu, cancelled, loopVars, statusVars, waitVars>>

\* case <-abort: at any time the relay may close lease.Abort, when the
\* controller wants its connection back.
Aborted(s) ==
    /\ Selecting(s)
    /\ s \in lease
    /\ StartRelease(s)
    /\ UNCHANGED <<owner, opMu, cancelled, loopVars, statusVars, waitVars>>

\* case <-s.ctx.Done(): the deferred function releases and unregisters.
Leave(s) ==
    /\ Selecting(s)
    /\ s \in cancelled
    /\ exiting' = exiting \cup {s}
    /\ StartRelease(s)
    /\ UNCHANGED <<owner, opMu, cancelled, cmds, deferred, sent, statusVars, waitVars>>

\* unregister
Unregister(s) ==
    /\ pc[s] = "unregister"
    /\ owner' = IF owner = s THEN NoOne ELSE owner
    /\ Goto(s, "closed")
    /\ UNCHANGED <<opMu, cancelled, loopVars, leaseVars, statusVars, waitVars>>

-----------------------------------------------------------------------------
(* handleArm from AcquireJog on                                             *)

\* AcquireJog gets opMu and the connection, or fails: not idle, no window, no
\* connection, or its two seconds (or the session) are over while another
\* operation holds opMu.
Acquire(s) ==
    /\ pc[s] = "acquire"
    /\ \/ opMu = NoOne /\ opMu' = s /\ Goto(s, "verify")
       \/ opMu' = opMu /\ Goto(s, "unclaim")
    /\ UNCHANGED <<owner, cancelled, loopVars, leaseVars, statusVars, waitVars>>

\* QueryState on the acquired connection: Idle with a position arms the
\* session, anything else gives the lease back.
Verify(s) ==
    /\ pc[s] = "verify"
    /\ \/ /\ lease' = lease \cup {s}
          /\ leaseID' = [leaseID EXCEPT ![s] = @ + 1]
          /\ inFlight' = inFlight \ {s}
          /\ retry' = retry \ {s}
          /\ Goto(s, "loop")
          /\ UNCHANGED opMu
       \/ /\ opMu' = NoOne
          /\ Goto(s, "unclaim")
          /\ UNCHANGED leaseVars
    /\ UNCHANGED <<owner, cancelled, loopVars, statusVars, waitVars>>

\* The deferred clearOwner of an arm that did not succeed.
Unclaim(s) ==
    /\ pc[s] = "unclaim"
    /\ owner' = IF owner = s THEN NoOne ELSE owner
    /\ Goto(s, "loop")
    /\ UNCHANGED <<opMu, cancelled, loopVars, leaseVars, statusVars, waitVars>>

-----------------------------------------------------------------------------
(* The status goroutine and its results                                     *)

\* QueryState returns: a reply, an error, or its time is up.
QueryReturns(q, res) ==
    /\ q.res = Pending
    /\ queries' = (queries \ {q}) \cup {[q EXCEPT !.res = res]}
    /\ UNCHANGED <<owner, opMu, cancelled, pc, loopVars, leaseVars, statusCh, waitVars>>

\* statusCh <- res, or the session is over; then statusWG.Done.
QueryReports(q) ==
    /\ q.res # Pending
    /\ queries' = queries \ {q}
    /\ \/ /\ Len(statusCh[q.sess]) < StatusCap
          /\ statusCh' = [statusCh EXCEPT
                 ![q.sess] = Append(@, [id |-> q.id, res |-> q.res])]
       \/ /\ q.sess \in cancelled
          /\ UNCHANGED statusCh
    /\ UNCHANGED <<owner, opMu, cancelled, pc, loopVars, leaseVars, waitVars>>

\* Mutant: results of an earlier lease are not told apart.
StatusResultAnyLease(s, r) ==
    \/ /\ r.res = "joggable"
       /\ inFlight' = inFlight \ {s}
       /\ retry' = retry \ {s}
       /\ UNCHANGED <<pc, lease, leaseID>>
    \/ /\ r.res = "none"
       /\ inFlight' = inFlight \ {s}
       /\ retry' = retry \cup {s}
       /\ UNCHANGED <<pc, lease, leaseID>>
    \/ /\ r.res \in {"none", "lost"}
       /\ StartRelease(s)

\* handleStatusResult: a result of an earlier lease is dropped; a joggable
\* state is taken over; without one the query is repeated until the last one
\* is too old; another state or a broken connection ends the lease.
StatusResult(s, r) ==
    \/ /\ r.id # leaseID[s]
       /\ UNCHANGED <<pc, leaseVars>>
    \/ /\ r.id = leaseID[s] /\ s \notin lease
       /\ inFlight' = inFlight \ {s}
       /\ UNCHANGED <<pc, lease, leaseID, retry>>
    \/ /\ r.id = leaseID[s] /\ s \in lease /\ r.res = "joggable"
       /\ inFlight' = inFlight \ {s}
       /\ retry' = retry \ {s}
       /\ UNCHANGED <<pc, lease, leaseID>>
    \/ /\ r.id = leaseID[s] /\ s \in lease /\ r.res = "none"
       /\ inFlight' = inFlight \ {s}
       /\ retry' = retry \cup {s}
       /\ UNCHANGED <<pc, lease, leaseID>>
    \/ /\ r.id = leaseID[s] /\ s \in lease /\ r.res \in {"none", "lost"}
       /\ StartRelease(s)

\* case res := <-s.statusCh
TakeStatus(s) ==
    /\ Selecting(s)
    /\ statusCh[s] # <<>>
    /\ statusCh' = [statusCh EXCEPT ![s] = Tail(@)]
    /\ StatusResult(s, Head(statusCh[s]))
    /\ UNCHANGED <<owner, opMu, cancelled, loopVars, queries, waitVars>>

-----------------------------------------------------------------------------
(* disarmAndWait, called by Manager.DisarmActive and by the "disarm" of a   *)
(* session that is not the owner.                                           *)

\* DisarmActive
DisarmActive(c) ==
    /\ c \in Clients
    /\ pc[c] = "loop"
    /\ \/ owner = NoOne /\ Goto(c, "closed") /\ UNCHANGED <<target, asked>>
       \/ /\ owner # NoOne
          /\ Goto(c, "ask")
          /\ target' = [target EXCEPT ![c] = owner]
          /\ asked' = [asked EXCEPT ![c] = leaseID[owner]]
    /\ UNCHANGED <<owner, opMu, cancelled, loopVars, leaseVars, statusVars, cur, complete>>

\* s.cmds <- cmd with a complete channel
AskDisarm(c) ==
    /\ pc[c] = "ask"
    /\ Len(cmds[target[c]]) < QueueCap
    /\ cmds' = [cmds EXCEPT ![target[c]] = Append(@, [typ |-> "disarm", by |-> c])]
    /\ Goto(c, "await")
    /\ UNCHANGED <<owner, opMu, cancelled, deferred, exiting, sent, leaseVars,
                   statusVars, waitVars>>

\* The call returns: a client is done, a session goes on and closes the
\* complete channel of the command it was handling.  Nobody listens any more
\* on the channel of a command the call leaves behind.
DisarmReturns(c) ==
    LET forget(m) == IF m.by = c THEN [m EXCEPT !.by = NoOne] ELSE m IN
    /\ Goto(c, IF c \in Clients THEN "closed" ELSE "loop")
    /\ cmds' = [s \in Sessions |-> [i \in DOMAIN cmds[s] |-> forget(cmds[s][i])]]
    /\ cur' = [s \in Sessions |-> IF s = c \/ cur[s] = c THEN NoOne ELSE cur[s]]
    /\ complete' = (complete \ {c})
                   \cup (IF c \in Sessions THEN {cur[c]} \ {NoOne} ELSE {})
    /\ target' = [target EXCEPT ![c] = NoOne]
    /\ UNCHANGED <<owner, opMu, cancelled, deferred, exiting, sent, leaseVars,
                   statusVars, asked>>

\* case <-complete
DisarmCompleted(c) ==
    /\ pc[c] = "await"
    /\ c \in complete
    /\ DisarmReturns(c)

\* case <-s.ctx.Done() of the session asked, or the caller's ctx (2 seconds,
\* or its own session's end)
DisarmGivenUp(c) ==
    /\ pc[c] \in {"ask", "await"}
    /\ DisarmReturns(c)

-----------------------------------------------------------------------------
SessionStep(s) ==
    \/ JoinStatus(s) \/ ClearOwner(s) \/ Unregister(s)
    \/ Acquire(s) \/ Verify(s) \/ Unclaim(s)
    \/ TakeDeferred(s)

Next ==
    \/ \E s \in Sessions :
          \/ \E typ \in CommandTypes : Enqueue(s, typ)
          \/ Disconnect(s)
          \/ TakeCommand(s) \/ TakeStatus(s) \/ StatusTick(s) \/ MotionEnds(s)
          \/ Aborted(s) \/ Leave(s)
          \/ SessionStep(s)
    \/ \E q \in queries : QueryReports(q) \/ \E res \in Results : QueryReturns(q, res)
    \/ \E c \in Callers : AskDisarm(c) \/ DisarmCompleted(c) \/ DisarmGivenUp(c)
    \/ \E c \in Clients : DisarmActive(c)

Spec == Init /\ [][Next]_vars

(***************************************************************************)
(* Fairness.  Every blocking operation of a loop ends by itself or has a    *)
(* timeout; Go's select chooses at random among the ready cases, so a case  *)
(* that is ready again and again is taken.                                  *)
(***************************************************************************)
Fairness ==
    /\ \A s \in Sessions :
          /\ WF_vars(SessionStep(s))
          /\ SF_vars(TakeCommand(s))
          /\ SF_vars(TakeStatus(s))
          /\ SF_vars(Leave(s))
          /\ WF_vars(\E q \in queries : q.sess = s /\ QueryReports(q))
          /\ WF_vars(\E q \in queries, res \in Results :
                        q.sess = s /\ QueryReturns(q, res))
    /\ \A c \in Callers : WF_vars(AskDisarm(c) \/ DisarmCompleted(c) \/ DisarmGivenUp(c))

FairSpec == Spec /\ Fairness

-----------------------------------------------------------------------------
(* Properties                                                               *)

\* At most one session controls movement (claimOwner, AcquireJog, release):
\* a session with a lease is the owner and holds the machine, and a session
\* that holds the machine, or owns movement, is arming, armed or giving it
\* back, so that no failed arm, abort or disconnect leaves either behind.
LeaseHeldByOwner ==
    /\ \A s \in lease : owner = s /\ opMu = s
    /\ \A s \in Sessions :
          /\ opMu = s => owner = s /\ (s \in lease \/ pc[s] \in {"verify", "join"})
          /\ owner = s => \/ s \in lease
                          \/ pc[s] \in {"acquire", "verify", "unclaim", "join", "clear"}

\* The machine connection of a lease has one reader of status frames, and
\* the lease is not given back while that goroutine may still read from it
\* (statusWG.Wait before lease.Release).
OneReaderInsideLease ==
    \A q \in queries :
        /\ opMu = q.sess
        /\ \A r \in queries : r.sess = q.sess => r = q

\* statusInFlight is set exactly while the one answer that can reset it is
\* under way (requestStatus, handleStatusResult, release), however many
\* answers of earlier leases are still queued: otherwise the moves deferred
\* behind it would wait for ever, or a second query would start.  (At the end
\* of the session the goroutine may drop its answer.)
Current(s) ==
    Cardinality({q \in queries : q.sess = s /\ q.id = leaseID[s]})
      + Cardinality({i \in DOMAIN statusCh[s] : statusCh[s][i].id = leaseID[s]})

InFlightHasAnswer ==
    \A s \in Sessions \ cancelled : Current(s) = IF s \in inFlight THEN 1 ELSE 0

\* Sessions that disarm one another never wait in a circle, although each
\* waits inside its own loop for the loop of another one (handleCommand,
\* disarmAndWait), and ownership may have moved on since they asked: of any
\* set of waiting sessions one waits for a session outside the set.
Waiting == {s \in Sessions : pc[s] \in {"ask", "await"}}

NoWaitCycle ==
    \A W \in SUBSET Waiting : W # {} => \E s \in W : target[s] \notin W

\* When disarmAndWait is told that the disarm is complete, the lease it was
\* called for has been given up, also when the session asked had lost
\* ownership meanwhile and passed the request on.
CompleteMeansDisarmed ==
    \A c \in complete :
        (pc[c] = "await" /\ asked[c] > 0) =>
            ~(target[c] \in lease /\ leaseID[target[c]] = asked[c])

(***************************************************************************)
(* AnswersAreOwn: what a loop is told is about what it asked for: a status   *)
(* query in flight will be answered in its own lease, and a completed        *)
(* disarm has happened (handleStatusResult, disarmAndWait).                  *)
(***************************************************************************)
AnswersAreOwn == InFlightHasAnswer /\ CompleteMeansDisarmed

\* A disarm that has reached the session's queue gives the machine back:
\* "Disarm releases the machine lease."
DisarmHonoured ==
    \A s \in Sessions :
        (opMu = s /\ \E i \in DOMAIN cmds[s] : cmds[s][i].typ = "disarm")
            ~> opMu # s

=============================================================================
