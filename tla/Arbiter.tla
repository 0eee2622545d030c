------------------------------ MODULE Arbiter -------------------------------
(***************************************************************************)
(* The session arbiter (internal/session/arbiter.go) and the life cycle of  *)
(* a relay session (internal/relay/relay.go, Server.handle): who owns the   *)
(* single machine connection, and how owner-mode operations, jog leases,    *)
(* realtime controls and controller sessions take it from one another.      *)
(*                                                                          *)
(* A step is one critical section of Arbiter.mu (or of Server.mu, or one    *)
(* atomic of Server.active), or one piece of I/O done outside the locks.    *)
(* The two mutexes guard different things: mu is never held across I/O, so  *)
(* it is not a variable; opMu is held for a whole machine operation.        *)
(* The machine-state gate (requireIdle) is abstracted to its outcomes.      *)
(***************************************************************************)
EXTENDS Naturals

CONSTANTS
    Callers,      \* goroutines that call WithMachine (sync, API, DAV, poll)
    Pollers,      \* the ones that do it through pollOnce
    Joggers,      \* goroutines that call AcquireJog
    Controls,     \* goroutines that call SendControl
    Sessions,     \* controller connections, each handled once
    NoProc,       \* value of opMu while it is free
    NoSession,    \* value of curMux while no session is up
    MaxConn       \* bound: how many owner sockets are dialled successfully

ASSUME MaxConnAssumption == MaxConn \in Nat
ASSUME ProcAssumption ==
    /\ NoProc \notin Callers \cup Joggers
    /\ NoSession \notin Sessions
    /\ Pollers \subseteq Callers
    /\ Callers \cap Joggers = {}
    /\ Sessions \cap (0 .. MaxConn) = {}

Workers == Callers \cup Joggers
ConnIds == 1 .. MaxConn
NoConn == 0
MaybeConn == 0 .. MaxConn

VARIABLES
    mode,         \* Arbiter.mode
    ownerConn,    \* Arbiter.ownerConn, NoConn for nil
    generation,   \* Arbiter.connectionGeneration
    opMu,         \* holder of Arbiter.opMu
    dials,        \* owner sockets dialled so far; the socket ids are 1..dials
    open,         \* owner sockets dialled and not yet closed by the proxy
    worker,       \* WithMachine / AcquireJog calls: where each one is
    control,      \* SendControl calls: where each one is
    session,      \* Server.handle: where each controller session is
    active,       \* Server.active
    curMux,       \* Server.curMux: the session whose mux accepts injections
    link,         \* sessions whose machine transport is open
    windows       \* sessions whose mux has an injection window open

arbiterVars == <<mode, ownerConn, generation>>
connVars == <<dials, open>>
relayVars == <<session, active, curMux, link>>
vars == <<mode, ownerConn, generation, opMu, dials, open, worker, control,
          session, active, curMux, link, windows>>

WorkerPC == {"idle", "lock", "mode", "acquire", "dial", "install", "inject",
             "window", "use", "failed"}
ControlPC == {"idle", "mode", "dial", "install", "send", "relay", "relaySend"}
SessionPC == {"new", "enter", "open", "mux", "pump", "clear", "exit",
              "deactivate", "done"}

WorkerState == [pc : WorkerPC, conn : MaybeConn, sess : Sessions \cup {NoSession}]
ControlState == [pc : ControlPC, conn : MaybeConn, sess : Sessions \cup {NoSession}]

IdleWorker == [pc |-> "idle", conn |-> NoConn, sess |-> NoSession]

(***************************************************************************)
(* TypeOK: every variable has the shape of the field or call it models.     *)
(***************************************************************************)
TypeOK ==
    /\ mode \in {"owner", "relay"}
    /\ ownerConn \in MaybeConn
    /\ generation \in Nat
    /\ opMu \in Workers \cup {NoProc}
    /\ dials \in MaybeConn
    /\ open \subseteq 1 .. dials
    /\ worker \in [Workers -> WorkerState]
    /\ \A w \in Workers : worker[w].pc = "window" => worker[w].sess # NoSession
    /\ control \in [Controls -> ControlState]
    /\ session \in [Sessions -> SessionPC]
    /\ active \in BOOLEAN
    /\ curMux \in Sessions \cup {NoSession}
    /\ link \subseteq Sessions
    /\ windows \subseteq Sessions

Init ==
    /\ mode = "owner"
    /\ ownerConn = NoConn
    /\ generation = 0
    /\ opMu = NoProc
    /\ dials = 0
    /\ open = {}
    /\ worker = [w \in Workers |-> IdleWorker]
    /\ control = [c \in Controls |-> IdleWorker]
    /\ session = [s \in Sessions |-> "new"]
    /\ active = FALSE
    /\ curMux = NoSession
    /\ link = {}
    /\ windows = {}

-----------------------------------------------------------------------------
(* Helpers shared by the calls.                                             *)

Goto(w, pc) == worker' = [worker EXCEPT ![w].pc = pc]

\* The call returns and its deferred opMu.Unlock runs.
Return(w) ==
    /\ worker' = [worker EXCEPT ![w] = IdleWorker]
    /\ opMu' = NoProc

\* dial() succeeded: a fresh socket, still private to the caller.
FreshSocket ==
    /\ dials < MaxConn
    /\ dials' = dials + 1
    /\ open' = open \cup {dials + 1}

\* ownerConn.Close(); ownerConn = nil
CloseOwner ==
    /\ open' = open \ {ownerConn}
    /\ ownerConn' = NoConn

-----------------------------------------------------------------------------
(* WithMachine and AcquireJog                                               *)

CallWithMachine(w) ==
    /\ w \in Callers \ Pollers
    /\ worker[w].pc = "idle"
    /\ Goto(w, "lock")
    /\ UNCHANGED <<arbiterVars, opMu, connVars, control, relayVars, windows>>

\* pollOnce looks at the mode before it calls WithMachine, which may find
\* another one when it gets opMu.
PollOnce(w) ==
    /\ w \in Pollers
    /\ worker[w].pc = "idle"
    /\ mode = "owner"
    /\ Goto(w, "lock")
    /\ UNCHANGED <<arbiterVars, opMu, connVars, control, relayVars, windows>>

\* AcquireJog starts its lockOp loop.
CallAcquireJog(w) ==
    /\ w \in Joggers
    /\ worker[w].pc = "idle"
    /\ Goto(w, "lock")
    /\ UNCHANGED <<arbiterVars, opMu, connVars, control, relayVars, windows>>

\* opMu.Lock of WithMachine, opMu.TryLock of lockOp.
LockOp(w) ==
    /\ worker[w].pc = "lock"
    /\ opMu = NoProc
    /\ opMu' = w
    /\ Goto(w, "mode")
    /\ UNCHANGED <<arbiterVars, connVars, control, relayVars, windows>>

\* lockOp's context is cancelled while opMu is held by somebody else.
LockOpCancelled(w) ==
    /\ w \in Joggers
    /\ worker[w].pc = "lock"
    /\ opMu # NoProc
    /\ Goto(w, "idle")
    /\ UNCHANGED <<arbiterVars, opMu, connVars, control, relayVars, windows>>

\* AcquireJog refuses when the tracker has no fresh Idle state.
JogNotIdle(w) ==
    /\ w \in Joggers
    /\ worker[w].pc = "mode"
    /\ Return(w)
    /\ UNCHANGED <<arbiterVars, connVars, control, relayVars, windows>>

\* The mode is read under mu and acted on after mu is released.
ReadMode(w) ==
    /\ worker[w].pc = "mode"
    /\ Goto(w, IF mode = "owner" THEN "acquire" ELSE "inject")
    /\ UNCHANGED <<arbiterVars, opMu, connVars, control, relayVars, windows>>

\* acquireOwnerConn up to the dial: the mode may have changed meanwhile.
AcquireOwner(w) ==
    /\ worker[w].pc = "acquire"
    /\ \/ /\ mode # "owner"                               \* ErrRelayActive
          /\ Return(w)
       \/ /\ mode = "owner"
          /\ ownerConn # NoConn
          /\ worker' = [worker EXCEPT ![w].pc = "use", ![w].conn = ownerConn]
          /\ opMu' = opMu
       \/ /\ mode = "owner"
          /\ ownerConn = NoConn
          /\ Goto(w, "dial")
          /\ opMu' = opMu
    /\ UNCHANGED <<arbiterVars, connVars, control, relayVars, windows>>

\* acquireOwnerConn's dial, outside mu.
DialOwner(w) ==
    /\ worker[w].pc = "dial"
    /\ \/ /\ Return(w)                                    \* dial error
          /\ UNCHANGED connVars
       \/ /\ FreshSocket
          /\ worker' = [worker EXCEPT ![w].pc = "install", ![w].conn = dials + 1]
          /\ opMu' = opMu
    /\ UNCHANGED <<arbiterVars, control, relayVars, windows>>

\* Mutant: the mode is not looked at again after the dial.
InstallOwnerBlindly(w) ==
    /\ worker[w].pc = "install"
    /\ ownerConn = NoConn
    /\ ownerConn' = worker[w].conn
    /\ generation' = generation + 1
    /\ Goto(w, "use")
    /\ UNCHANGED <<mode, opMu, open, dials, control, relayVars, windows>>

\* acquireOwnerConn after the dial: keep the socket only if it is still wanted.
\* The code closes an unwanted one just after it releases mu; nobody else knows
\* that socket, so the close is part of the step (ControlInstall likewise).
InstallOwner(w) ==
    /\ worker[w].pc = "install"
    /\ \/ /\ mode # "owner"
          /\ open' = open \ {worker[w].conn}
          /\ Return(w)
          /\ UNCHANGED arbiterVars
       \/ /\ mode = "owner"
          /\ ownerConn # NoConn
          /\ open' = open \ {worker[w].conn}
          /\ worker' = [worker EXCEPT ![w].pc = "use", ![w].conn = ownerConn]
          /\ UNCHANGED <<arbiterVars, opMu>>
       \/ /\ mode = "owner"
          /\ ownerConn = NoConn
          /\ ownerConn' = worker[w].conn
          /\ generation' = generation + 1
          /\ Goto(w, "use")
          /\ UNCHANGED <<mode, opMu, open>>
    /\ UNCHANGED <<dials, control, relayVars, windows>>

\* Server.AcquireMachine and AcquireInteractive read curMux; ErrNoSession
\* becomes ErrRelayActive.
AcquireMachine(w) ==
    /\ worker[w].pc = "inject"
    /\ \/ /\ curMux = NoSession
          /\ Return(w)
       \/ /\ curMux # NoSession
          /\ worker' = [worker EXCEPT ![w].pc = "window", ![w].sess = curMux]
          /\ opMu' = opMu
    /\ UNCHANGED <<arbiterVars, connVars, control, relayVars, windows>>

\* mux.AcquireInjection and mux.AcquireInteractive of the mux read above, whose
\* session may have ended.  ErrBusy when a window is open or the controller is
\* in a file transfer (which this module leaves to chance; see RelayMux).
OpenWindow(w) ==
    /\ worker[w].pc = "window"
    /\ \/ /\ Return(w)
          /\ UNCHANGED windows
       \/ /\ worker[w].sess \notin windows
          /\ windows' = windows \cup {worker[w].sess}
          /\ Goto(w, "use")
          /\ opMu' = opMu
    /\ UNCHANGED <<arbiterVars, connVars, control, relayVars>>

\* Mutant: release() is not deferred, so a failed callback skips it.
FinishUseKeepsWindow(w) ==
    /\ worker[w].pc = "use"
    /\ Return(w)
    /\ UNCHANGED <<arbiterVars, connVars, control, relayVars, windows>>

\* The callback (or the jog lease) is over and the connection stays: it
\* succeeded, failed for another reason than the connection, or ensureFreshIdle
\* refused.  In relay mode the injection window is released, whatever happened.
FinishUse(w) ==
    /\ worker[w].pc = "use"
    /\ windows' = windows \ {worker[w].sess}
    /\ Return(w)
    /\ UNCHANGED <<arbiterVars, connVars, control, relayVars>>

\* An I/O error on the owner connection: timeouts, resets, a socket that
\* EnterRelay closed under the callback.
ConnectionError(w) ==
    /\ worker[w].pc = "use"
    /\ worker[w].conn # NoConn
    /\ Goto(w, "failed")
    /\ UNCHANGED <<arbiterVars, opMu, connVars, control, relayVars, windows>>

\* Mutant: whatever connection is installed is closed.
DropOwnerAlways(w) ==
    /\ worker[w].pc = "failed"
    /\ CloseOwner
    /\ Return(w)
    /\ UNCHANGED <<mode, generation, dials, control, relayVars, windows>>

\* dropOwnerConn, and JogLease.Release with a connection error.
DropOwner(w) ==
    /\ worker[w].pc = "failed"
    /\ \/ ownerConn = worker[w].conn /\ CloseOwner
       \/ ownerConn # worker[w].conn /\ UNCHANGED <<open, ownerConn>>
    /\ Return(w)
    /\ UNCHANGED <<mode, generation, dials, control, relayVars, windows>>

-----------------------------------------------------------------------------
(* SendControl: feed hold, resume and halt, without opMu                    *)

CallSendControl(c) ==
    /\ control[c].pc = "idle"
    /\ control' = [control EXCEPT ![c].pc = "mode"]
    /\ UNCHANGED <<arbiterVars, opMu, connVars, worker, relayVars, windows>>

\* Mutant: SendControl waits for opMu like any other operation.
ControlModeLocks(c) ==
    /\ control[c].pc = "mode"
    /\ opMu = NoProc
    /\ \/ /\ mode # "owner"
          /\ control' = [control EXCEPT ![c].pc = "relay"]
       \/ /\ mode = "owner"
          /\ ownerConn # NoConn
          /\ control' = [control EXCEPT ![c].pc = "send", ![c].conn = ownerConn]
       \/ /\ mode = "owner"
          /\ ownerConn = NoConn
          /\ control' = [control EXCEPT ![c].pc = "dial"]
    /\ UNCHANGED <<arbiterVars, opMu, connVars, worker, relayVars, windows>>

\* The first critical section: mode and ownerConn are read together.
ControlMode(c) ==
    /\ control[c].pc = "mode"
    /\ \/ /\ mode # "owner"
          /\ control' = [control EXCEPT ![c].pc = "relay"]
       \/ /\ mode = "owner"
          /\ ownerConn # NoConn
          /\ control' = [control EXCEPT ![c].pc = "send", ![c].conn = ownerConn]
       \/ /\ mode = "owner"
          /\ ownerConn = NoConn
          /\ control' = [control EXCEPT ![c].pc = "dial"]
    /\ UNCHANGED <<arbiterVars, opMu, connVars, worker, relayVars, windows>>

ControlDial(c) ==
    /\ control[c].pc = "dial"
    /\ \/ /\ control' = [control EXCEPT ![c] = IdleWorker]
          /\ UNCHANGED connVars
       \/ /\ FreshSocket
          /\ control' = [control EXCEPT ![c].pc = "install", ![c].conn = dials + 1]
    /\ UNCHANGED <<arbiterVars, opMu, worker, relayVars, windows>>

\* The switch after SendControl's own dial.
ControlInstall(c) ==
    /\ control[c].pc = "install"
    /\ \/ /\ mode # "owner"
          /\ open' = open \ {control[c].conn}
          /\ control' = [control EXCEPT ![c].pc = "relay", ![c].conn = NoConn]
          /\ UNCHANGED ownerConn
       \/ /\ mode = "owner"
          /\ ownerConn # NoConn
          /\ open' = open \ {control[c].conn}
          /\ control' = [control EXCEPT ![c].pc = "send", ![c].conn = ownerConn]
          /\ UNCHANGED ownerConn
       \/ /\ mode = "owner"
          /\ ownerConn = NoConn
          /\ ownerConn' = control[c].conn
          /\ control' = [control EXCEPT ![c].pc = "send"]
          /\ UNCHANGED open
    /\ UNCHANGED <<mode, generation, opMu, dials, worker, relayVars, windows>>

\* conn.SendControl: written when the socket is still open, an error otherwise.
ControlSend(c) ==
    /\ control[c].pc = "send"
    /\ control' = [control EXCEPT ![c] = IdleWorker]
    /\ UNCHANGED <<arbiterVars, opMu, connVars, worker, relayVars, windows>>

\* sendControlRelay and Server.SendControl: ErrRelayActive or ErrNoSession when
\* there is nobody to write to, else the mux of the session that is up now.
ControlRelay(c) ==
    /\ control[c].pc = "relay"
    /\ \/ /\ curMux = NoSession
          /\ control' = [control EXCEPT ![c] = IdleWorker]
       \/ /\ curMux # NoSession
          /\ control' = [control EXCEPT ![c].pc = "relaySend", ![c].sess = curMux]
    /\ UNCHANGED <<arbiterVars, opMu, connVars, worker, relayVars, windows>>

\* mux.writeControl: fails when that session's transport is closed by now.
ControlRelaySend(c) ==
    /\ control[c].pc = "relaySend"
    /\ control' = [control EXCEPT ![c] = IdleWorker]
    /\ UNCHANGED <<arbiterVars, opMu, connVars, worker, relayVars, windows>>

-----------------------------------------------------------------------------
(* Server.handle: one controller session                                    *)

At(s, from, to) ==
    /\ session[s] = from
    /\ session' = [session EXCEPT ![s] = to]

\* active.CompareAndSwap: a second controller is refused.
Accept(s) ==
    /\ session[s] = "new"
    /\ session' = [session EXCEPT ![s] = IF active THEN "done" ELSE "enter"]
    /\ active' = TRUE
    /\ UNCHANGED <<arbiterVars, opMu, connVars, worker, control, curMux, link, windows>>

\* Observer.EnterRelay: the owner socket goes away with the mode change.
EnterRelay(s) ==
    /\ At(s, "enter", "open")
    /\ mode' = "relay"
    /\ generation' = generation + 1
    /\ CloseOwner
    /\ UNCHANGED <<opMu, dials, worker, control, active, curMux, link, windows>>

OpenMachine(s) ==
    /\ \/ At(s, "open", "exit") /\ UNCHANGED link           \* dial error
       \/ At(s, "open", "mux") /\ link' = link \cup {s}
    /\ UNCHANGED <<arbiterVars, opMu, connVars, worker, control, active, curMux, windows>>

StartMux(s) ==
    /\ At(s, "mux", "pump")
    /\ curMux' = s
    /\ UNCHANGED <<arbiterVars, opMu, connVars, worker, control, active, link, windows>>

\* Either pump ends and closeBoth closes the controller and the machine side.
PumpsEnd(s) ==
    /\ At(s, "pump", "clear")
    /\ link' = link \ {s}
    /\ UNCHANGED <<arbiterVars, opMu, connVars, worker, control, active, curMux, windows>>

\* The deferred calls, last first: curMux = nil, (machine.Close,) ExitRelay,
\* active = false.
ClearMux(s) ==
    /\ At(s, "clear", "exit")
    /\ curMux' = NoSession
    /\ UNCHANGED <<arbiterVars, opMu, connVars, worker, control, active, link, windows>>

ExitRelay(s) ==
    /\ At(s, "exit", "deactivate")
    /\ mode' = "owner"
    /\ UNCHANGED <<ownerConn, generation, opMu, connVars, worker, control,
                   active, curMux, link, windows>>

Deactivate(s) ==
    /\ At(s, "deactivate", "done")
    /\ active' = FALSE
    /\ UNCHANGED <<arbiterVars, opMu, connVars, worker, control, curMux, link, windows>>

-----------------------------------------------------------------------------
WorkerStep(w) ==
    \/ LockOp(w) \/ JogNotIdle(w) \/ ReadMode(w) \/ AcquireOwner(w)
    \/ DialOwner(w) \/ InstallOwner(w) \/ AcquireMachine(w) \/ OpenWindow(w)
    \/ FinishUse(w) \/ ConnectionError(w) \/ DropOwner(w)

\* The environment's part: when a call is made, and when one is cancelled.
WorkerCall(w) ==
    CallWithMachine(w) \/ PollOnce(w) \/ CallAcquireJog(w) \/ LockOpCancelled(w)

ControlStep(c) ==
    \/ ControlMode(c) \/ ControlDial(c)
    \/ ControlInstall(c) \/ ControlSend(c) \/ ControlRelay(c)
    \/ ControlRelaySend(c)

SessionStep(s) ==
    \/ Accept(s) \/ EnterRelay(s) \/ OpenMachine(s) \/ StartMux(s)
    \/ PumpsEnd(s) \/ ClearMux(s) \/ ExitRelay(s) \/ Deactivate(s)

Next ==
    \/ \E w \in Workers : WorkerStep(w) \/ WorkerCall(w)
    \/ \E c \in Controls : ControlStep(c) \/ CallSendControl(c)
    \/ \E s \in Sessions : SessionStep(s)

Spec == Init /\ [][Next]_vars
(***************************************************************************)
(* Fairness.  Go's mutex hands a lock to a waiter that has waited long      *)
(* enough, hence SF for LockOp of the callers; lockOp polls with TryLock    *)
(* and gets no such promise.  Dials and machine I/O have deadlines, so a    *)
(* call that has started goes on; a controller may stay forever.            *)
(***************************************************************************)
ControlFairness == \A c \in Controls : WF_vars(ControlStep(c))

CallerFairness ==
    /\ \A w \in Callers : SF_vars(LockOp(w)) /\ WF_vars(WorkerStep(w))
    /\ \A w \in Joggers : WF_vars(WorkerStep(w))

-----------------------------------------------------------------------------
(* Properties                                                               *)

\* Owner sockets on which somebody may still write a frame.
Writable ==
    {c \in open : \/ c = ownerConn
                  \/ \E w \in Workers : worker[w].pc = "use" /\ worker[w].conn = c
                  \/ \E k \in Controls : control[k].pc = "send" /\ control[k].conn = c}

\* Sockets a call has dialled and not yet installed or closed.
Private ==
    {worker[w].conn : w \in {v \in Workers : worker[v].pc = "install"}}
      \cup {control[k].conn : k \in {j \in Controls : control[j].pc = "install"}}

\* The sessions whose EnterRelay has run and whose ExitRelay has not.
InRelay == {s \in Sessions : session[s] \in {"open", "mux", "pump", "clear", "exit"}}

(***************************************************************************)
(* SingleConversation: of all the transports the proxy has to the machine - *)
(* owner sockets still in use by a callback or a control, and the relay's - *)
(* at most one can carry a frame ("two proxy sockets at once would make the *)
(* firmware route responses to the wrong one", relay.go).                   *)
(***************************************************************************)
SingleConversation == \A x, y \in Writable \cup link : x = y

(***************************************************************************)
(* NoStraySocket: a socket that is open is the owner connection or is still *)
(* in the hands of the call that dialled it; none outlives its lost race    *)
(* (acquireOwnerConn, SendControl, dropOwnerConn, EnterRelay).              *)
(***************************************************************************)
NoStraySocket == open \subseteq {ownerConn} \cup Private

(***************************************************************************)
(* RelayModeIffSession: the arbiter is in relay mode exactly while a        *)
(* session is between its EnterRelay and its ExitRelay, however sessions    *)
(* follow one another (the order of Server.handle's deferred calls).        *)
(***************************************************************************)
RelayModeIffSession == mode = "relay" <=> InRelay # {}

(***************************************************************************)
(* WindowOwned: an open injection window belongs to the operation that      *)
(* holds opMu now; a window nobody will release would make every later      *)
(* operation ErrBusy and hold the controller's frames for ever.             *)
(***************************************************************************)
WindowOwned ==
    \A s \in windows : /\ opMu \in Workers
                         /\ worker[opMu].pc = "use"
                         /\ worker[opMu].sess = s

(***************************************************************************)
(* NothingLeftBehind: nothing outlives the call or the session it belongs   *)
(* to: no open socket (NoStraySocket), no relay mode (RelayModeIffSession)  *)
(* and no injection window (WindowOwned).                                   *)
(***************************************************************************)
NothingLeftBehind == NoStraySocket /\ RelayModeIffSession /\ WindowOwned

(***************************************************************************)
(* The inductive invariant.  RelayModeIffSession alone is not inductive: it *)
(* takes that one session at a time is past Accept (OneSession).  That only *)
(* the owner socket is writable takes that a dialled socket is known to one *)
(* call (PrivateSockets) and that opMu has one holder (OpHolder).           *)
(***************************************************************************)
LiveSession(s) == session[s] \notin {"new", "done"}

OneSession ==
    /\ \A s, t \in Sessions : LiveSession(s) /\ LiveSession(t) => s = t
    /\ (\E s \in Sessions : LiveSession(s)) => active

LinkIsUp == link = {s \in Sessions : session[s] \in {"mux", "pump"}}

OwnerSocket ==
    /\ mode = "relay" => ownerConn = NoConn
    /\ ownerConn # NoConn => ownerConn \in open

PrivateSockets ==
    /\ \A w \in Workers :
         /\ worker[w].conn <= dials
         /\ worker[w].pc = "install" =>
              /\ worker[w].conn \in open
              /\ worker[w].conn # ownerConn
              /\ \A v \in Workers \ {w} : worker[v].conn # worker[w].conn
              /\ \A c \in Controls : control[c].conn # worker[w].conn
    /\ \A c \in Controls :
         /\ control[c].conn <= dials
         /\ control[c].pc = "install" =>
              /\ control[c].conn \in open
              /\ control[c].conn # ownerConn
              /\ \A d \in Controls \ {c} : control[d].conn # control[c].conn
              /\ \A w \in Workers : worker[w].conn # control[c].conn

\* A call uses an owner socket or a session's mux, never both.
OneTransport ==
    \A w \in Workers :
      /\ worker[w].pc \notin {"install", "use", "failed"} => worker[w].conn = NoConn
      /\ worker[w].pc \notin {"window", "use", "failed"} => worker[w].sess = NoSession
      /\ worker[w].conn = NoConn \/ worker[w].sess = NoSession
      /\ worker[w].pc = "failed" => worker[w].conn # NoConn

OpHolder == \A w \in Workers : worker[w].pc \notin {"idle", "lock"} => opMu = w

IInv ==
    /\ TypeOK
    /\ OneSession
    /\ RelayModeIffSession
    /\ LinkIsUp
    /\ OwnerSocket
    /\ PrivateSockets
    /\ NoStraySocket
    /\ OneTransport
    /\ OpHolder
    /\ WindowOwned

(***************************************************************************)
(* ControlReturns: a feed hold or halt gets through or fails, even when the *)
(* operation that holds opMu never finishes and no other call advances:     *)
(* only SendControl calls are promised to make progress.                    *)
(***************************************************************************)
ControlReturns ==
    ControlFairness =>
        \A c \in Controls : control[c].pc # "idle" ~> control[c].pc = "idle"

(***************************************************************************)
(* CallersReturn: every WithMachine call ends, whatever mode changes and    *)
(* failures it meets, so no path leaves opMu locked.                        *)
(***************************************************************************)
CallersReturn ==
    CallerFairness =>
        \A w \in Callers : worker[w].pc # "idle" ~> worker[w].pc = "idle"

(***************************************************************************)
(* EveryCallReturns: controls and operations return, each under the         *)
(* fairness of its own steps only (SendControl, WithMachine).               *)
(***************************************************************************)
EveryCallReturns == ControlReturns /\ CallersReturn

(***************************************************************************)
(* FreshConversationFreshGeneration: what arbiter.go says of                *)
(* ConnectionGeneration: it "changes whenever the proxy starts a fresh      *)
(* machine-side conversation".                                              *)
(***************************************************************************)
FreshConversationFreshGeneration ==
    [][ownerConn' # NoConn /\ ownerConn' # ownerConn => generation' # generation]_vars

(***************************************************************************)
(* ImplementsConversation: the arbiter and the relay together implement the *)
(* one-conversation machine of module Conversation.  The installed owner    *)
(* socket, or the relay's transport, is the conversation.  A callback that  *)
(* fails late, on a socket replaced meanwhile, has no cause to end the one  *)
(* that replaced it (dropOwnerConn, JogLease.Release), and neither has a    *)
(* call that lost the race of its dial (acquireOwnerConn, SendControl).     *)
(***************************************************************************)
Holder == IF ownerConn # NoConn THEN ownerConn
          ELSE IF link # {} THEN CHOOSE s \in link : TRUE ELSE NoConn

OverSessions ==
    {s \in Sessions : session[s] \in {"clear", "exit", "deactivate", "done"}}

Ended == ((1 .. dials) \ open) \cup OverSessions

\* Where a callback failed that has not yet reported it
Failed == {worker[w].conn : w \in {v \in Workers : worker[v].pc = "failed"}}

Abstract == INSTANCE Conversation WITH
    Conversations <- ConnIds \cup Sessions,
    Relayed <- Sessions,
    NoConversation <- NoConn,
    holder <- Holder,
    ended <- Ended,
    failed <- Failed,
    claimed <- (mode = "relay")

ImplementsConversation == Abstract!Spec
=============================================================================
