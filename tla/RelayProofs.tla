---------------------------- MODULE RelayProofs -----------------------------
(***************************************************************************)
(* Machine-checked proofs about the relay: module Arbiter, for any number   *)
(* of callers, jog sessions, controls, controller sessions and dialled      *)
(* sockets, and module RelayMux, for any number of frames, any number of    *)
(* injected writes and any channel capacity.                                *)
(***************************************************************************)
EXTENDS Arbiter, RelayMux, SequenceTheorems, TLAPS

\* Every action keeps the types.
LEMMA TypeStep == TypeOK /\ [Next]_vars => TypeOK'
<1> SUFFICES ASSUME TypeOK, [Next]_vars PROVE TypeOK'
  OBVIOUS
<1> USE ProcAssumption, MaxConnAssumption DEF TypeOK, vars, arbiterVars, connVars, relayVars, Goto, Return, FreshSocket, CloseOwner, IdleWorker, At, Workers, ConnIds, NoConn, MaybeConn, WorkerPC, ControlPC, SessionPC, WorkerState, ControlState
<1>1. ASSUME NEW w \in Workers, LockOp(w) PROVE TypeOK'
  BY <1>1 DEF LockOp
<1>2. ASSUME NEW w \in Workers, JogNotIdle(w) PROVE TypeOK'
  BY <1>2 DEF JogNotIdle
<1>3. ASSUME NEW w \in Workers, ReadMode(w) PROVE TypeOK'
  BY <1>3 DEF ReadMode
<1>4. ASSUME NEW w \in Workers, AcquireOwner(w) PROVE TypeOK'
  BY <1>4 DEF AcquireOwner
<1>5. ASSUME NEW w \in Workers, DialOwner(w) PROVE TypeOK'
  BY <1>5 DEF DialOwner
<1>6. ASSUME NEW w \in Workers, InstallOwner(w) PROVE TypeOK'
  BY <1>6 DEF InstallOwner
<1>7. ASSUME NEW w \in Workers, AcquireMachine(w) PROVE TypeOK'
  BY <1>7 DEF AcquireMachine
<1>8. ASSUME NEW w \in Workers, OpenWindow(w) PROVE TypeOK'
  BY <1>8 DEF OpenWindow
<1>9. ASSUME NEW w \in Workers, FinishUse(w) PROVE TypeOK'
  BY <1>9 DEF FinishUse
<1>10. ASSUME NEW w \in Workers, ConnectionError(w) PROVE TypeOK'
  BY <1>10 DEF ConnectionError
<1>11. ASSUME NEW w \in Workers, DropOwner(w) PROVE TypeOK'
  <2>1. /\ ownerConn' \in MaybeConn
        /\ open' \subseteq open
        /\ Return(w)
        /\ UNCHANGED <<mode, generation, dials, control, relayVars, windows>>
    BY <1>11 DEF DropOwner
  <2>2. QED
    BY <2>1
<1>12. ASSUME NEW w \in Workers, CallWithMachine(w) PROVE TypeOK'
  BY <1>12 DEF CallWithMachine
<1>13. ASSUME NEW w \in Workers, PollOnce(w) PROVE TypeOK'
  BY <1>13 DEF PollOnce
<1>14. ASSUME NEW w \in Workers, CallAcquireJog(w) PROVE TypeOK'
  BY <1>14 DEF CallAcquireJog
<1>15. ASSUME NEW w \in Workers, LockOpCancelled(w) PROVE TypeOK'
  BY <1>15 DEF LockOpCancelled
<1>16. ASSUME NEW c \in Controls, ControlMode(c) PROVE TypeOK'
  BY <1>16 DEF ControlMode
<1>17. ASSUME NEW c \in Controls, ControlDial(c) PROVE TypeOK'
  BY <1>17 DEF ControlDial
<1>18. ASSUME NEW c \in Controls, ControlInstall(c) PROVE TypeOK'
  BY <1>18 DEF ControlInstall
<1>19. ASSUME NEW c \in Controls, ControlSend(c) PROVE TypeOK'
  BY <1>19 DEF ControlSend
<1>20. ASSUME NEW c \in Controls, ControlRelay(c) PROVE TypeOK'
  BY <1>20 DEF ControlRelay
<1>21. ASSUME NEW c \in Controls, ControlRelaySend(c) PROVE TypeOK'
  BY <1>21 DEF ControlRelaySend
<1>22. ASSUME NEW c \in Controls, CallSendControl(c) PROVE TypeOK'
  BY <1>22 DEF CallSendControl
<1>23. ASSUME NEW s \in Sessions, Accept(s) PROVE TypeOK'
  BY <1>23 DEF Accept
<1>24. ASSUME NEW s \in Sessions, EnterRelay(s) PROVE TypeOK'
  BY <1>24 DEF EnterRelay
<1>25. ASSUME NEW s \in Sessions, OpenMachine(s) PROVE TypeOK'
  BY <1>25 DEF OpenMachine
<1>26. ASSUME NEW s \in Sessions, StartMux(s) PROVE TypeOK'
  BY <1>26 DEF StartMux
<1>27. ASSUME NEW s \in Sessions, PumpsEnd(s) PROVE TypeOK'
  BY <1>27 DEF PumpsEnd
<1>28. ASSUME NEW s \in Sessions, ClearMux(s) PROVE TypeOK'
  BY <1>28 DEF ClearMux
<1>29. ASSUME NEW s \in Sessions, ExitRelay(s) PROVE TypeOK'
  BY <1>29 DEF ExitRelay
<1>30. ASSUME NEW s \in Sessions, Deactivate(s) PROVE TypeOK'
  BY <1>30 DEF Deactivate
<1>31. CASE UNCHANGED <<vars>>
  BY <1>31
<1>32. QED
  BY <1>1, <1>2, <1>3, <1>4, <1>5, <1>6, <1>7, <1>8, <1>9, <1>10, <1>11,
     <1>12, <1>13, <1>14, <1>15, <1>16, <1>17, <1>18, <1>19, <1>20, <1>21,
     <1>22, <1>23, <1>24, <1>25, <1>26, <1>27, <1>28, <1>29, <1>30, <1>31 DEF
     Next, WorkerStep, WorkerCall, ControlStep, SessionStep

\* Server.active admits one session at a time.
LEMMA OneSessionStep == TypeOK /\ OneSession /\ [Next]_vars => OneSession'
<1> SUFFICES ASSUME TypeOK, OneSession, [Next]_vars PROVE OneSession'
  OBVIOUS
<1> USE ProcAssumption, MaxConnAssumption DEF TypeOK, vars, arbiterVars, connVars, relayVars, Goto, Return, FreshSocket, CloseOwner, IdleWorker, At, Workers, ConnIds, NoConn, MaybeConn, WorkerPC, ControlPC, SessionPC, WorkerState, ControlState, OneSession, LiveSession
<1>1. ASSUME NEW s \in Sessions, Accept(s) PROVE OneSession'
  BY <1>1 DEF Accept
<1>2. ASSUME NEW s \in Sessions, EnterRelay(s) PROVE OneSession'
  BY <1>2 DEF EnterRelay
<1>3. ASSUME NEW s \in Sessions, OpenMachine(s) PROVE OneSession'
  BY <1>3 DEF OpenMachine
<1>4. ASSUME NEW s \in Sessions, StartMux(s) PROVE OneSession'
  BY <1>4 DEF StartMux
<1>5. ASSUME NEW s \in Sessions, PumpsEnd(s) PROVE OneSession'
  BY <1>5 DEF PumpsEnd
<1>6. ASSUME NEW s \in Sessions, ClearMux(s) PROVE OneSession'
  BY <1>6 DEF ClearMux
<1>7. ASSUME NEW s \in Sessions, ExitRelay(s) PROVE OneSession'
  BY <1>7 DEF ExitRelay
<1>8. ASSUME NEW s \in Sessions, Deactivate(s) PROVE OneSession'
  BY <1>8 DEF Deactivate
<1>9. ASSUME NEW w \in Workers, LockOp(w) \/ JogNotIdle(w) \/ ReadMode(w) \/
       AcquireOwner(w) \/ DialOwner(w) \/ InstallOwner(w) \/ AcquireMachine(w)
       \/ OpenWindow(w) \/ FinishUse(w) \/ ConnectionError(w) \/ DropOwner(w)
       \/ CallWithMachine(w) \/ PollOnce(w) \/ CallAcquireJog(w) \/
       LockOpCancelled(w) PROVE UNCHANGED <<session, active>>
  BY <1>9 DEF LockOp, JogNotIdle, ReadMode, AcquireOwner, DialOwner,
         InstallOwner, AcquireMachine, OpenWindow, FinishUse, ConnectionError,
         DropOwner, CallWithMachine, PollOnce, CallAcquireJog, LockOpCancelled
<1>10. ASSUME NEW c \in Controls, ControlMode(c) \/ ControlDial(c) \/
       ControlInstall(c) \/ ControlSend(c) \/ ControlRelay(c) \/
       ControlRelaySend(c) \/ CallSendControl(c) PROVE UNCHANGED <<session,
       active>>
  BY <1>10 DEF ControlMode, ControlDial, ControlInstall, ControlSend,
         ControlRelay, ControlRelaySend, CallSendControl
<1>11. CASE UNCHANGED <<session, active>>
  BY <1>11
<1>12. QED
  BY <1>1, <1>2, <1>3, <1>4, <1>5, <1>6, <1>7, <1>8, <1>9, <1>10, <1>11 DEF
     Next, WorkerStep, WorkerCall, ControlStep, SessionStep

\* The mode follows the one live session.
LEMMA RelayModeStep == TypeOK /\ OneSession /\ RelayModeIffSession /\ [Next]_vars => RelayModeIffSession'
<1> SUFFICES ASSUME TypeOK, OneSession, RelayModeIffSession, [Next]_vars PROVE RelayModeIffSession'
  OBVIOUS
<1> USE ProcAssumption, MaxConnAssumption DEF TypeOK, vars, arbiterVars, connVars, relayVars, Goto, Return, FreshSocket, CloseOwner, IdleWorker, At, Workers, ConnIds, NoConn, MaybeConn, WorkerPC, ControlPC, SessionPC, WorkerState, ControlState, OneSession, LiveSession, RelayModeIffSession, InRelay
<1>1. ASSUME NEW s \in Sessions, Accept(s) PROVE RelayModeIffSession'
  BY <1>1 DEF Accept
<1>2. ASSUME NEW s \in Sessions, EnterRelay(s) PROVE RelayModeIffSession'
  BY <1>2 DEF EnterRelay
<1>3. ASSUME NEW s \in Sessions, OpenMachine(s) PROVE RelayModeIffSession'
  BY <1>3 DEF OpenMachine
<1>4. ASSUME NEW s \in Sessions, StartMux(s) PROVE RelayModeIffSession'
  BY <1>4 DEF StartMux
<1>5. ASSUME NEW s \in Sessions, PumpsEnd(s) PROVE RelayModeIffSession'
  BY <1>5 DEF PumpsEnd
<1>6. ASSUME NEW s \in Sessions, ClearMux(s) PROVE RelayModeIffSession'
  BY <1>6 DEF ClearMux
<1>7. ASSUME NEW s \in Sessions, ExitRelay(s) PROVE RelayModeIffSession'
  BY <1>7 DEF ExitRelay
<1>8. ASSUME NEW s \in Sessions, Deactivate(s) PROVE RelayModeIffSession'
  BY <1>8 DEF Deactivate
<1>9. ASSUME NEW w \in Workers, LockOp(w) \/ JogNotIdle(w) \/ ReadMode(w) \/
       AcquireOwner(w) \/ DialOwner(w) \/ InstallOwner(w) \/ AcquireMachine(w)
       \/ OpenWindow(w) \/ FinishUse(w) \/ ConnectionError(w) \/ DropOwner(w)
       \/ CallWithMachine(w) \/ PollOnce(w) \/ CallAcquireJog(w) \/
       LockOpCancelled(w) PROVE UNCHANGED <<session, mode>>
  BY <1>9 DEF LockOp, JogNotIdle, ReadMode, AcquireOwner, DialOwner,
         InstallOwner, AcquireMachine, OpenWindow, FinishUse, ConnectionError,
         DropOwner, CallWithMachine, PollOnce, CallAcquireJog, LockOpCancelled
<1>10. ASSUME NEW c \in Controls, ControlMode(c) \/ ControlDial(c) \/
       ControlInstall(c) \/ ControlSend(c) \/ ControlRelay(c) \/
       ControlRelaySend(c) \/ CallSendControl(c) PROVE UNCHANGED <<session,
       mode>>
  BY <1>10 DEF ControlMode, ControlDial, ControlInstall, ControlSend,
         ControlRelay, ControlRelaySend, CallSendControl
<1>11. CASE UNCHANGED <<session, mode>>
  BY <1>11
<1>12. QED
  BY <1>1, <1>2, <1>3, <1>4, <1>5, <1>6, <1>7, <1>8, <1>9, <1>10, <1>11 DEF
     Next, WorkerStep, WorkerCall, ControlStep, SessionStep

\* The relay's transport is open between openMachine and closeBoth.
LEMMA LinkStep == TypeOK /\ LinkIsUp /\ [Next]_vars => LinkIsUp'
<1> SUFFICES ASSUME TypeOK, LinkIsUp, [Next]_vars PROVE LinkIsUp'
  OBVIOUS
<1> USE ProcAssumption, MaxConnAssumption DEF TypeOK, vars, arbiterVars, connVars, relayVars, Goto, Return, FreshSocket, CloseOwner, IdleWorker, At, Workers, ConnIds, NoConn, MaybeConn, WorkerPC, ControlPC, SessionPC, WorkerState, ControlState, LinkIsUp
<1>1. ASSUME NEW s \in Sessions, Accept(s) PROVE LinkIsUp'
  BY <1>1 DEF Accept
<1>2. ASSUME NEW s \in Sessions, EnterRelay(s) PROVE LinkIsUp'
  BY <1>2 DEF EnterRelay
<1>3. ASSUME NEW s \in Sessions, OpenMachine(s) PROVE LinkIsUp'
  BY <1>3 DEF OpenMachine
<1>4. ASSUME NEW s \in Sessions, StartMux(s) PROVE LinkIsUp'
  BY <1>4 DEF StartMux
<1>5. ASSUME NEW s \in Sessions, PumpsEnd(s) PROVE LinkIsUp'
  BY <1>5 DEF PumpsEnd
<1>6. ASSUME NEW s \in Sessions, ClearMux(s) PROVE LinkIsUp'
  BY <1>6 DEF ClearMux
<1>7. ASSUME NEW s \in Sessions, ExitRelay(s) PROVE LinkIsUp'
  BY <1>7 DEF ExitRelay
<1>8. ASSUME NEW s \in Sessions, Deactivate(s) PROVE LinkIsUp'
  BY <1>8 DEF Deactivate
<1>9. ASSUME NEW w \in Workers, LockOp(w) \/ JogNotIdle(w) \/ ReadMode(w) \/
       AcquireOwner(w) \/ DialOwner(w) \/ InstallOwner(w) \/ AcquireMachine(w)
       \/ OpenWindow(w) \/ FinishUse(w) \/ ConnectionError(w) \/ DropOwner(w)
       \/ CallWithMachine(w) \/ PollOnce(w) \/ CallAcquireJog(w) \/
       LockOpCancelled(w) PROVE UNCHANGED <<session, link>>
  BY <1>9 DEF LockOp, JogNotIdle, ReadMode, AcquireOwner, DialOwner,
         InstallOwner, AcquireMachine, OpenWindow, FinishUse, ConnectionError,
         DropOwner, CallWithMachine, PollOnce, CallAcquireJog, LockOpCancelled
<1>10. ASSUME NEW c \in Controls, ControlMode(c) \/ ControlDial(c) \/
       ControlInstall(c) \/ ControlSend(c) \/ ControlRelay(c) \/
       ControlRelaySend(c) \/ CallSendControl(c) PROVE UNCHANGED <<session,
       link>>
  BY <1>10 DEF ControlMode, ControlDial, ControlInstall, ControlSend,
         ControlRelay, ControlRelaySend, CallSendControl
<1>11. CASE UNCHANGED <<session, link>>
  BY <1>11
<1>12. QED
  BY <1>1, <1>2, <1>3, <1>4, <1>5, <1>6, <1>7, <1>8, <1>9, <1>10, <1>11 DEF
     Next, WorkerStep, WorkerCall, ControlStep, SessionStep

\* The installed owner socket is open, and gone in relay mode.
LEMMA OwnerSocketStep == TypeOK /\ OwnerSocket /\ PrivateSockets /\ [Next]_vars => OwnerSocket'
<1> SUFFICES ASSUME TypeOK, OwnerSocket, PrivateSockets, [Next]_vars PROVE OwnerSocket'
  OBVIOUS
<1> USE ProcAssumption, MaxConnAssumption DEF TypeOK, vars, arbiterVars, connVars, relayVars, Goto, Return, FreshSocket, CloseOwner, IdleWorker, At, Workers, ConnIds, NoConn, MaybeConn, WorkerPC, ControlPC, SessionPC, WorkerState, ControlState, OwnerSocket, PrivateSockets
<1>1. ASSUME NEW w \in Workers, DialOwner(w) PROVE OwnerSocket'
  BY <1>1 DEF DialOwner
<1>2. ASSUME NEW w \in Workers, InstallOwner(w) PROVE OwnerSocket'
  BY <1>2 DEF InstallOwner
<1>3. ASSUME NEW w \in Workers, DropOwner(w) PROVE OwnerSocket'
  BY <1>3 DEF DropOwner
<1>4. ASSUME NEW c \in Controls, ControlDial(c) PROVE OwnerSocket'
  BY <1>4 DEF ControlDial
<1>5. ASSUME NEW c \in Controls, ControlInstall(c) PROVE OwnerSocket'
  BY <1>5 DEF ControlInstall
<1>6. ASSUME NEW s \in Sessions, EnterRelay(s) PROVE OwnerSocket'
  BY <1>6 DEF EnterRelay
<1>7. ASSUME NEW s \in Sessions, ExitRelay(s) PROVE OwnerSocket'
  BY <1>7 DEF ExitRelay
<1>8. ASSUME NEW w \in Workers, LockOp(w) \/ JogNotIdle(w) \/ ReadMode(w) \/
       AcquireOwner(w) \/ AcquireMachine(w) \/ OpenWindow(w) \/ FinishUse(w)
       \/ ConnectionError(w) \/ CallWithMachine(w) \/ PollOnce(w) \/
       CallAcquireJog(w) \/ LockOpCancelled(w) PROVE UNCHANGED <<mode,
       ownerConn, open>>
  BY <1>8 DEF LockOp, JogNotIdle, ReadMode, AcquireOwner, AcquireMachine,
         OpenWindow, FinishUse, ConnectionError, CallWithMachine, PollOnce,
         CallAcquireJog, LockOpCancelled
<1>9. ASSUME NEW c \in Controls, ControlMode(c) \/ ControlSend(c) \/
       ControlRelay(c) \/ ControlRelaySend(c) \/ CallSendControl(c) PROVE
       UNCHANGED <<mode, ownerConn, open>>
  BY <1>9 DEF ControlMode, ControlSend, ControlRelay, ControlRelaySend,
         CallSendControl
<1>10. ASSUME NEW s \in Sessions, Accept(s) \/ OpenMachine(s) \/ StartMux(s)
       \/ PumpsEnd(s) \/ ClearMux(s) \/ Deactivate(s) PROVE UNCHANGED <<mode,
       ownerConn, open>>
  BY <1>10 DEF Accept, OpenMachine, StartMux, PumpsEnd, ClearMux, Deactivate
<1>11. CASE UNCHANGED <<mode, ownerConn, open>>
  BY <1>11
<1>12. QED
  BY <1>1, <1>2, <1>3, <1>4, <1>5, <1>6, <1>7, <1>8, <1>9, <1>10, <1>11 DEF
     Next, WorkerStep, WorkerCall, ControlStep, SessionStep

\* A dialled socket is known to the call that dialled it only.
LEMMA PrivateSocketsStep == TypeOK /\ OwnerSocket /\ PrivateSockets /\ [Next]_vars => PrivateSockets'
<1> SUFFICES ASSUME TypeOK, OwnerSocket, PrivateSockets, [Next]_vars PROVE PrivateSockets'
  OBVIOUS
<1> USE ProcAssumption, MaxConnAssumption DEF TypeOK, vars, arbiterVars, connVars, relayVars, Goto, Return, FreshSocket, CloseOwner, IdleWorker, At, Workers, ConnIds, NoConn, MaybeConn, WorkerPC, ControlPC, SessionPC, WorkerState, ControlState, OwnerSocket, PrivateSockets
<1>1. ASSUME NEW w \in Workers, LockOp(w) PROVE PrivateSockets'
  BY <1>1 DEF LockOp
<1>2. ASSUME NEW w \in Workers, JogNotIdle(w) PROVE PrivateSockets'
  BY <1>2 DEF JogNotIdle
<1>3. ASSUME NEW w \in Workers, ReadMode(w) PROVE PrivateSockets'
  BY <1>3 DEF ReadMode
<1>4. ASSUME NEW w \in Workers, AcquireOwner(w) PROVE PrivateSockets'
  BY <1>4 DEF AcquireOwner
<1>5. ASSUME NEW w \in Workers, DialOwner(w) PROVE PrivateSockets'
  BY <1>5, SMTT(30) DEF DialOwner
<1>6. ASSUME NEW w \in Workers, InstallOwner(w) PROVE PrivateSockets'
  BY <1>6, SMTT(30) DEF InstallOwner
<1>7. ASSUME NEW w \in Workers, AcquireMachine(w) PROVE PrivateSockets'
  BY <1>7 DEF AcquireMachine
<1>8. ASSUME NEW w \in Workers, OpenWindow(w) PROVE PrivateSockets'
  BY <1>8 DEF OpenWindow
<1>9. ASSUME NEW w \in Workers, FinishUse(w) PROVE PrivateSockets'
  BY <1>9 DEF FinishUse
<1>10. ASSUME NEW w \in Workers, ConnectionError(w) PROVE PrivateSockets'
  BY <1>10 DEF ConnectionError
<1>11. ASSUME NEW w \in Workers, DropOwner(w) PROVE PrivateSockets'
  BY <1>11 DEF DropOwner
<1>12. ASSUME NEW w \in Workers, CallWithMachine(w) PROVE PrivateSockets'
  BY <1>12 DEF CallWithMachine
<1>13. ASSUME NEW w \in Workers, PollOnce(w) PROVE PrivateSockets'
  BY <1>13 DEF PollOnce
<1>14. ASSUME NEW w \in Workers, CallAcquireJog(w) PROVE PrivateSockets'
  BY <1>14 DEF CallAcquireJog
<1>15. ASSUME NEW w \in Workers, LockOpCancelled(w) PROVE PrivateSockets'
  BY <1>15 DEF LockOpCancelled
<1>16. ASSUME NEW c \in Controls, ControlMode(c) PROVE PrivateSockets'
  BY <1>16 DEF ControlMode
<1>17. ASSUME NEW c \in Controls, ControlDial(c) PROVE PrivateSockets'
  BY <1>17, SMTT(30) DEF ControlDial
<1>18. ASSUME NEW c \in Controls, ControlInstall(c) PROVE PrivateSockets'
  BY <1>18, SMTT(30) DEF ControlInstall
<1>19. ASSUME NEW c \in Controls, ControlSend(c) PROVE PrivateSockets'
  BY <1>19 DEF ControlSend
<1>20. ASSUME NEW c \in Controls, ControlRelay(c) PROVE PrivateSockets'
  BY <1>20 DEF ControlRelay
<1>21. ASSUME NEW c \in Controls, ControlRelaySend(c) PROVE PrivateSockets'
  BY <1>21 DEF ControlRelaySend
<1>22. ASSUME NEW c \in Controls, CallSendControl(c) PROVE PrivateSockets'
  BY <1>22 DEF CallSendControl
<1>23. ASSUME NEW s \in Sessions, EnterRelay(s) PROVE PrivateSockets'
  BY <1>23 DEF EnterRelay
<1>24. ASSUME NEW s \in Sessions, Accept(s) \/ OpenMachine(s) \/ StartMux(s)
       \/ PumpsEnd(s) \/ ClearMux(s) \/ ExitRelay(s) \/ Deactivate(s) PROVE
       UNCHANGED <<ownerConn, open, dials, worker, control>>
  BY <1>24 DEF Accept, OpenMachine, StartMux, PumpsEnd, ClearMux, ExitRelay,
         Deactivate
<1>25. CASE UNCHANGED <<ownerConn, open, dials, worker, control>>
  BY <1>25
<1>26. QED
  BY <1>1, <1>2, <1>3, <1>4, <1>5, <1>6, <1>7, <1>8, <1>9, <1>10, <1>11,
     <1>12, <1>13, <1>14, <1>15, <1>16, <1>17, <1>18, <1>19, <1>20, <1>21,
     <1>22, <1>23, <1>24, <1>25 DEF Next, WorkerStep, WorkerCall, ControlStep,
     SessionStep

\* No open socket is left without an owner.
LEMMA NoStrayStep == TypeOK /\ OwnerSocket /\ PrivateSockets /\ NoStraySocket /\ [Next]_vars => NoStraySocket'
<1> SUFFICES ASSUME TypeOK, OwnerSocket, PrivateSockets, NoStraySocket, [Next]_vars PROVE NoStraySocket'
  OBVIOUS
<1> USE ProcAssumption, MaxConnAssumption DEF TypeOK, vars, arbiterVars, connVars, relayVars, Goto, Return, FreshSocket, CloseOwner, IdleWorker, At, Workers, ConnIds, NoConn, MaybeConn, WorkerPC, ControlPC, SessionPC, WorkerState, ControlState, OwnerSocket, PrivateSockets, NoStraySocket, Private
<1>1. ASSUME NEW w \in Workers, LockOp(w) PROVE NoStraySocket'
  BY <1>1 DEF LockOp
<1>2. ASSUME NEW w \in Workers, JogNotIdle(w) PROVE NoStraySocket'
  BY <1>2 DEF JogNotIdle
<1>3. ASSUME NEW w \in Workers, ReadMode(w) PROVE NoStraySocket'
  BY <1>3 DEF ReadMode
<1>4. ASSUME NEW w \in Workers, AcquireOwner(w) PROVE NoStraySocket'
  BY <1>4 DEF AcquireOwner
<1>5. ASSUME NEW w \in Workers, DialOwner(w) PROVE NoStraySocket'
  BY <1>5 DEF DialOwner
<1>6. ASSUME NEW w \in Workers, InstallOwner(w) PROVE NoStraySocket'
  BY <1>6 DEF InstallOwner
<1>7. ASSUME NEW w \in Workers, AcquireMachine(w) PROVE NoStraySocket'
  BY <1>7 DEF AcquireMachine
<1>8. ASSUME NEW w \in Workers, OpenWindow(w) PROVE NoStraySocket'
  BY <1>8 DEF OpenWindow
<1>9. ASSUME NEW w \in Workers, FinishUse(w) PROVE NoStraySocket'
  BY <1>9 DEF FinishUse
<1>10. ASSUME NEW w \in Workers, ConnectionError(w) PROVE NoStraySocket'
  BY <1>10 DEF ConnectionError
<1>11. ASSUME NEW w \in Workers, DropOwner(w) PROVE NoStraySocket'
  <2>1. Private \subseteq Private'
    BY <1>11 DEF DropOwner
  <2>2. \/ ownerConn' = ownerConn /\ open' = open
        \/ open' = open \ {ownerConn}
    BY <1>11 DEF DropOwner
  <2> HIDE DEF Private
  <2>3. QED
    BY <2>1, <2>2
<1>12. ASSUME NEW w \in Workers, CallWithMachine(w) PROVE NoStraySocket'
  BY <1>12 DEF CallWithMachine
<1>13. ASSUME NEW w \in Workers, PollOnce(w) PROVE NoStraySocket'
  BY <1>13 DEF PollOnce
<1>14. ASSUME NEW w \in Workers, CallAcquireJog(w) PROVE NoStraySocket'
  BY <1>14 DEF CallAcquireJog
<1>15. ASSUME NEW w \in Workers, LockOpCancelled(w) PROVE NoStraySocket'
  BY <1>15 DEF LockOpCancelled
<1>16. ASSUME NEW c \in Controls, ControlMode(c) PROVE NoStraySocket'
  BY <1>16 DEF ControlMode
<1>17. ASSUME NEW c \in Controls, ControlDial(c) PROVE NoStraySocket'
  BY <1>17 DEF ControlDial
<1>18. ASSUME NEW c \in Controls, ControlInstall(c) PROVE NoStraySocket'
  BY <1>18 DEF ControlInstall
<1>19. ASSUME NEW c \in Controls, ControlSend(c) PROVE NoStraySocket'
  BY <1>19 DEF ControlSend
<1>20. ASSUME NEW c \in Controls, ControlRelay(c) PROVE NoStraySocket'
  BY <1>20, SMTT(30) DEF ControlRelay
<1>21. ASSUME NEW c \in Controls, ControlRelaySend(c) PROVE NoStraySocket'
  BY <1>21 DEF ControlRelaySend
<1>22. ASSUME NEW c \in Controls, CallSendControl(c) PROVE NoStraySocket'
  BY <1>22 DEF CallSendControl
<1>23. ASSUME NEW s \in Sessions, EnterRelay(s) PROVE NoStraySocket'
  BY <1>23 DEF EnterRelay
<1>24. ASSUME NEW s \in Sessions, Accept(s) \/ OpenMachine(s) \/ StartMux(s)
       \/ PumpsEnd(s) \/ ClearMux(s) \/ ExitRelay(s) \/ Deactivate(s) PROVE
       UNCHANGED <<ownerConn, open, worker, control>>
  BY <1>24 DEF Accept, OpenMachine, StartMux, PumpsEnd, ClearMux, ExitRelay,
         Deactivate
<1>25. CASE UNCHANGED <<ownerConn, open, worker, control>>
  BY <1>25
<1>26. QED
  BY <1>1, <1>2, <1>3, <1>4, <1>5, <1>6, <1>7, <1>8, <1>9, <1>10, <1>11,
     <1>12, <1>13, <1>14, <1>15, <1>16, <1>17, <1>18, <1>19, <1>20, <1>21,
     <1>22, <1>23, <1>24, <1>25 DEF Next, WorkerStep, WorkerCall, ControlStep,
     SessionStep

\* A call past lockOp holds opMu.
LEMMA OpHolderStep == TypeOK /\ OpHolder /\ [Next]_vars => OpHolder'
<1> SUFFICES ASSUME TypeOK, OpHolder, [Next]_vars PROVE OpHolder'
  OBVIOUS
<1> USE ProcAssumption, MaxConnAssumption DEF TypeOK, vars, arbiterVars, connVars, relayVars, Goto, Return, FreshSocket, CloseOwner, IdleWorker, At, Workers, ConnIds, NoConn, MaybeConn, WorkerPC, ControlPC, SessionPC, WorkerState, ControlState, OpHolder
<1>1. ASSUME NEW w \in Workers, LockOp(w) PROVE OpHolder'
  BY <1>1 DEF LockOp
<1>2. ASSUME NEW w \in Workers, JogNotIdle(w) PROVE OpHolder'
  BY <1>2 DEF JogNotIdle
<1>3. ASSUME NEW w \in Workers, ReadMode(w) PROVE OpHolder'
  BY <1>3 DEF ReadMode
<1>4. ASSUME NEW w \in Workers, AcquireOwner(w) PROVE OpHolder'
  BY <1>4 DEF AcquireOwner
<1>5. ASSUME NEW w \in Workers, DialOwner(w) PROVE OpHolder'
  BY <1>5 DEF DialOwner
<1>6. ASSUME NEW w \in Workers, InstallOwner(w) PROVE OpHolder'
  BY <1>6 DEF InstallOwner
<1>7. ASSUME NEW w \in Workers, AcquireMachine(w) PROVE OpHolder'
  BY <1>7 DEF AcquireMachine
<1>8. ASSUME NEW w \in Workers, OpenWindow(w) PROVE OpHolder'
  BY <1>8 DEF OpenWindow
<1>9. ASSUME NEW w \in Workers, FinishUse(w) PROVE OpHolder'
  BY <1>9 DEF FinishUse
<1>10. ASSUME NEW w \in Workers, ConnectionError(w) PROVE OpHolder'
  BY <1>10 DEF ConnectionError
<1>11. ASSUME NEW w \in Workers, DropOwner(w) PROVE OpHolder'
  BY <1>11 DEF DropOwner
<1>12. ASSUME NEW w \in Workers, CallWithMachine(w) PROVE OpHolder'
  BY <1>12 DEF CallWithMachine
<1>13. ASSUME NEW w \in Workers, PollOnce(w) PROVE OpHolder'
  BY <1>13 DEF PollOnce
<1>14. ASSUME NEW w \in Workers, CallAcquireJog(w) PROVE OpHolder'
  BY <1>14 DEF CallAcquireJog
<1>15. ASSUME NEW w \in Workers, LockOpCancelled(w) PROVE OpHolder'
  BY <1>15 DEF LockOpCancelled
<1>16. ASSUME NEW c \in Controls, ControlMode(c) \/ ControlDial(c) \/
       ControlInstall(c) \/ ControlSend(c) \/ ControlRelay(c) \/
       ControlRelaySend(c) \/ CallSendControl(c) PROVE UNCHANGED <<opMu,
       worker>>
  BY <1>16 DEF ControlMode, ControlDial, ControlInstall, ControlSend,
         ControlRelay, ControlRelaySend, CallSendControl
<1>17. ASSUME NEW s \in Sessions, Accept(s) \/ EnterRelay(s) \/ OpenMachine(s)
       \/ StartMux(s) \/ PumpsEnd(s) \/ ClearMux(s) \/ ExitRelay(s) \/
       Deactivate(s) PROVE UNCHANGED <<opMu, worker>>
  BY <1>17 DEF Accept, EnterRelay, OpenMachine, StartMux, PumpsEnd, ClearMux,
         ExitRelay, Deactivate
<1>18. CASE UNCHANGED <<opMu, worker>>
  BY <1>18
<1>19. QED
  BY <1>1, <1>2, <1>3, <1>4, <1>5, <1>6, <1>7, <1>8, <1>9, <1>10, <1>11,
     <1>12, <1>13, <1>14, <1>15, <1>16, <1>17, <1>18 DEF Next, WorkerStep,
     WorkerCall, ControlStep, SessionStep

\* A call works on an owner socket or on a mux, never on both.
LEMMA OneTransportStep == TypeOK /\ OneTransport /\ [Next]_vars => OneTransport'
<1> SUFFICES ASSUME TypeOK, OneTransport, [Next]_vars PROVE OneTransport'
  OBVIOUS
<1> USE ProcAssumption, MaxConnAssumption DEF TypeOK, vars, arbiterVars, connVars, relayVars, Goto, Return, FreshSocket, CloseOwner, IdleWorker, At, Workers, ConnIds, NoConn, MaybeConn, WorkerPC, ControlPC, SessionPC, WorkerState, ControlState, OneTransport
<1>1. ASSUME NEW w \in Workers, LockOp(w) PROVE OneTransport'
  BY <1>1 DEF LockOp
<1>2. ASSUME NEW w \in Workers, JogNotIdle(w) PROVE OneTransport'
  BY <1>2 DEF JogNotIdle
<1>3. ASSUME NEW w \in Workers, ReadMode(w) PROVE OneTransport'
  BY <1>3 DEF ReadMode
<1>4. ASSUME NEW w \in Workers, AcquireOwner(w) PROVE OneTransport'
  BY <1>4 DEF AcquireOwner
<1>5. ASSUME NEW w \in Workers, DialOwner(w) PROVE OneTransport'
  BY <1>5 DEF DialOwner
<1>6. ASSUME NEW w \in Workers, InstallOwner(w) PROVE OneTransport'
  BY <1>6 DEF InstallOwner
<1>7. ASSUME NEW w \in Workers, AcquireMachine(w) PROVE OneTransport'
  BY <1>7 DEF AcquireMachine
<1>8. ASSUME NEW w \in Workers, OpenWindow(w) PROVE OneTransport'
  BY <1>8 DEF OpenWindow
<1>9. ASSUME NEW w \in Workers, FinishUse(w) PROVE OneTransport'
  BY <1>9 DEF FinishUse
<1>10. ASSUME NEW w \in Workers, ConnectionError(w) PROVE OneTransport'
  BY <1>10 DEF ConnectionError
<1>11. ASSUME NEW w \in Workers, DropOwner(w) PROVE OneTransport'
  BY <1>11 DEF DropOwner
<1>12. ASSUME NEW w \in Workers, CallWithMachine(w) PROVE OneTransport'
  BY <1>12 DEF CallWithMachine
<1>13. ASSUME NEW w \in Workers, PollOnce(w) PROVE OneTransport'
  BY <1>13 DEF PollOnce
<1>14. ASSUME NEW w \in Workers, CallAcquireJog(w) PROVE OneTransport'
  BY <1>14 DEF CallAcquireJog
<1>15. ASSUME NEW w \in Workers, LockOpCancelled(w) PROVE OneTransport'
  BY <1>15 DEF LockOpCancelled
<1>16. ASSUME NEW c \in Controls, ControlMode(c) \/ ControlDial(c) \/
       ControlInstall(c) \/ ControlSend(c) \/ ControlRelay(c) \/
       ControlRelaySend(c) \/ CallSendControl(c) PROVE UNCHANGED <<worker>>
  BY <1>16 DEF ControlMode, ControlDial, ControlInstall, ControlSend,
         ControlRelay, ControlRelaySend, CallSendControl
<1>17. ASSUME NEW s \in Sessions, Accept(s) \/ EnterRelay(s) \/ OpenMachine(s)
       \/ StartMux(s) \/ PumpsEnd(s) \/ ClearMux(s) \/ ExitRelay(s) \/
       Deactivate(s) PROVE UNCHANGED <<worker>>
  BY <1>17 DEF Accept, EnterRelay, OpenMachine, StartMux, PumpsEnd, ClearMux,
         ExitRelay, Deactivate
<1>18. CASE UNCHANGED <<worker>>
  BY <1>18
<1>19. QED
  BY <1>1, <1>2, <1>3, <1>4, <1>5, <1>6, <1>7, <1>8, <1>9, <1>10, <1>11,
     <1>12, <1>13, <1>14, <1>15, <1>16, <1>17, <1>18 DEF Next, WorkerStep,
     WorkerCall, ControlStep, SessionStep

\* An injection window belongs to the holder of opMu.
LEMMA WindowStep == TypeOK /\ OneTransport /\ OpHolder /\ WindowOwned /\ [Next]_vars => WindowOwned'
<1> SUFFICES ASSUME TypeOK, OneTransport, OpHolder, WindowOwned, [Next]_vars PROVE WindowOwned'
  OBVIOUS
<1> USE ProcAssumption, MaxConnAssumption DEF TypeOK, vars, arbiterVars, connVars, relayVars, Goto, Return, FreshSocket, CloseOwner, IdleWorker, At, Workers, ConnIds, NoConn, MaybeConn, WorkerPC, ControlPC, SessionPC, WorkerState, ControlState, OneTransport, OpHolder, WindowOwned
<1>1. ASSUME NEW w \in Workers, LockOp(w) PROVE WindowOwned'
  BY <1>1 DEF LockOp
<1>2. ASSUME NEW w \in Workers, JogNotIdle(w) PROVE WindowOwned'
  BY <1>2 DEF JogNotIdle
<1>3. ASSUME NEW w \in Workers, ReadMode(w) PROVE WindowOwned'
  BY <1>3 DEF ReadMode
<1>4. ASSUME NEW w \in Workers, AcquireOwner(w) PROVE WindowOwned'
  BY <1>4 DEF AcquireOwner
<1>5. ASSUME NEW w \in Workers, DialOwner(w) PROVE WindowOwned'
  BY <1>5 DEF DialOwner
<1>6. ASSUME NEW w \in Workers, InstallOwner(w) PROVE WindowOwned'
  BY <1>6 DEF InstallOwner
<1>7. ASSUME NEW w \in Workers, AcquireMachine(w) PROVE WindowOwned'
  BY <1>7 DEF AcquireMachine
<1>8. ASSUME NEW w \in Workers, OpenWindow(w) PROVE WindowOwned'
  BY <1>8 DEF OpenWindow
<1>9. ASSUME NEW w \in Workers, FinishUse(w) PROVE WindowOwned'
  BY <1>9 DEF FinishUse
<1>10. ASSUME NEW w \in Workers, ConnectionError(w) PROVE WindowOwned'
  BY <1>10 DEF ConnectionError
<1>11. ASSUME NEW w \in Workers, DropOwner(w) PROVE WindowOwned'
  BY <1>11 DEF DropOwner
<1>12. ASSUME NEW w \in Workers, CallWithMachine(w) PROVE WindowOwned'
  BY <1>12 DEF CallWithMachine
<1>13. ASSUME NEW w \in Workers, PollOnce(w) PROVE WindowOwned'
  BY <1>13 DEF PollOnce
<1>14. ASSUME NEW w \in Workers, CallAcquireJog(w) PROVE WindowOwned'
  BY <1>14 DEF CallAcquireJog
<1>15. ASSUME NEW w \in Workers, LockOpCancelled(w) PROVE WindowOwned'
  BY <1>15 DEF LockOpCancelled
<1>16. ASSUME NEW c \in Controls, ControlMode(c) \/ ControlDial(c) \/
       ControlInstall(c) \/ ControlSend(c) \/ ControlRelay(c) \/
       ControlRelaySend(c) \/ CallSendControl(c) PROVE UNCHANGED <<opMu,
       worker, windows>>
  BY <1>16 DEF ControlMode, ControlDial, ControlInstall, ControlSend,
         ControlRelay, ControlRelaySend, CallSendControl
<1>17. ASSUME NEW s \in Sessions, Accept(s) \/ EnterRelay(s) \/ OpenMachine(s)
       \/ StartMux(s) \/ PumpsEnd(s) \/ ClearMux(s) \/ ExitRelay(s) \/
       Deactivate(s) PROVE UNCHANGED <<opMu, worker, windows>>
  BY <1>17 DEF Accept, EnterRelay, OpenMachine, StartMux, PumpsEnd, ClearMux,
         ExitRelay, Deactivate
<1>18. CASE UNCHANGED <<opMu, worker, windows>>
  BY <1>18
<1>19. QED
  BY <1>1, <1>2, <1>3, <1>4, <1>5, <1>6, <1>7, <1>8, <1>9, <1>10, <1>11,
     <1>12, <1>13, <1>14, <1>15, <1>16, <1>17, <1>18 DEF Next, WorkerStep,
     WorkerCall, ControlStep, SessionStep

-----------------------------------------------------------------------------
(* The inductive invariant, and what follows from it.                       *)

\* The arbiter as New returns it, with no call made and no controller seen.
LEMMA InitInv == Init => IInv
<1> SUFFICES ASSUME Init PROVE IInv
  OBVIOUS
<1> USE ProcAssumption, MaxConnAssumption DEF Init, IdleWorker, NoConn
<1>1. TypeOK
  <2>1. 0 \in MaybeConn
    BY DEF MaybeConn
  <2>2. IdleWorker \in WorkerState /\ IdleWorker \in ControlState
    BY <2>1 DEF WorkerState, ControlState, WorkerPC, ControlPC
  <2>3. worker \in [Workers -> WorkerState] /\ control \in [Controls -> ControlState]
    BY <2>2
  <2>4. session \in [Sessions -> SessionPC]
    BY DEF SessionPC
  <2>5. QED
    BY <2>1, <2>3, <2>4 DEF TypeOK
<1>2. OneSession /\ RelayModeIffSession /\ LinkIsUp
  BY DEF OneSession, LiveSession, RelayModeIffSession, InRelay, LinkIsUp
<1>3. OwnerSocket /\ PrivateSockets /\ NoStraySocket
  BY DEF OwnerSocket, PrivateSockets, NoStraySocket
<1>4. OneTransport /\ OpHolder /\ WindowOwned
  BY DEF OneTransport, OpHolder, WindowOwned
<1>5. QED
  BY <1>1, <1>2, <1>3, <1>4 DEF IInv

\* No step of any actor breaks a conjunct of the invariant.
LEMMA NextInv == IInv /\ [Next]_vars => IInv'
  BY TypeStep, OneSessionStep, RelayModeStep, LinkStep, OwnerSocketStep,
     PrivateSocketsStep, NoStrayStep, OneTransportStep, OpHolderStep, WindowStep
     DEF IInv

\* The arbiter and the relay keep IInv: it is inductive, whatever the numbers
\* of callers, jog leases, controls, sessions and dials.
THEOREM InductiveInvariant == Spec => []IInv
  BY InitInv, NextInv, PTL DEF Spec

\* Every field of the arbiter and the relay, and every call in progress, keeps
\* its type.
THEOREM TypeCorrect == Spec => []TypeOK
<1>1. IInv => TypeOK
  BY DEF IInv
<1>2. QED
  BY <1>1, InductiveInvariant, PTL

\* Only the installed owner socket can carry frames: a socket that a callback
\* or a control still holds is closed unless it is the installed one.
LEMMA WritableIsOwner == IInv => Writable \subseteq {ownerConn}
<1> SUFFICES ASSUME IInv, NEW x \in Writable PROVE x = ownerConn
  OBVIOUS
<1>1. x \in open /\ (x = ownerConn \/ x \in Private)
  BY DEF IInv, NoStraySocket, Writable
<1>2. CASE x \in Private
  BY <1>1, <1>2 DEF Private, Writable, IInv, PrivateSockets
<1>3. QED
  BY <1>1, <1>2

\* While the relay has its transport open the owner has none.
LEMMA LinkExcludesOwner ==
    IInv => /\ link # {} => ownerConn = NoConn
            /\ \A s, t \in link : s = t
  BY DEF IInv, LinkIsUp, RelayModeIffSession, InRelay, OwnerSocket, OneSession,
         LiveSession

\* At most one transport of the proxy, an owner socket or the relay's, can carry
\* a frame to the machine (EnterRelay, acquireOwnerConn, SendControl).
THEOREM OneConversation == Spec => []SingleConversation
<1>1. IInv => SingleConversation
  <2> SUFFICES ASSUME IInv, NEW x \in Writable \cup link, NEW y \in Writable \cup link
               PROVE x = y
    BY DEF SingleConversation
  <2>1. NoConn \notin Writable
    BY DEF Writable, IInv, TypeOK, NoConn, MaybeConn
  <2>2. QED
    BY <2>1, WritableIsOwner, LinkExcludesOwner
<1>2. QED
  BY <1>1, InductiveInvariant, PTL

\* No socket leaks: one that is open is installed or still in the hands of the
\* call that dialled it.
THEOREM NoLeakedSocket == Spec => []NoStraySocket
<1>1. IInv => NoStraySocket
  BY DEF IInv
<1>2. QED
  BY <1>1, InductiveInvariant, PTL

\* The arbiter is in relay mode exactly while a session is between EnterRelay
\* and ExitRelay.
THEOREM ModeFollowsSession == Spec => []RelayModeIffSession
<1>1. IInv => RelayModeIffSession
  BY DEF IInv
<1>2. QED
  BY <1>1, InductiveInvariant, PTL

\* An open injection window belongs to the operation that holds opMu.
THEOREM NoOrphanWindow == Spec => []WindowOwned
<1>1. IInv => WindowOwned
  BY DEF IInv
<1>2. QED
  BY <1>1, InductiveInvariant, PTL

\* No socket, relay mode or window outlives the call or session it belongs to.
THEOREM NothingOutlivesItsOwner == Spec => []NothingLeftBehind
<1>1. NoStraySocket /\ RelayModeIffSession /\ WindowOwned => NothingLeftBehind
  BY DEF NothingLeftBehind
<1>2. QED
  BY <1>1, NoLeakedSocket, ModeFollowsSession, NoOrphanWindow, PTL

-----------------------------------------------------------------------------
(* Refinement.                                                              *)

\* The transport that carries frames, seen as one value: with no owner socket it
\* is the live session's.
LEMMA HolderOfLink ==
    ASSUME IInv, NEW s \in link
    PROVE Holder = s /\ ownerConn = NoConn /\ link = {s}
<1>1. ownerConn = NoConn /\ link = {s}
  BY LinkExcludesOwner
<1>2. (CHOOSE x \in {s} : TRUE) = s
  OBVIOUS
<1>3. QED
  BY <1>1, <1>2 DEF Holder

\* The conversation is the owner's, a session's or none.
LEMMA HolderIs ==
    ASSUME IInv PROVE Holder \in {ownerConn, NoConn} \cup Sessions
<1>1. link \subseteq Sessions
  BY DEF IInv, TypeOK
<1>2. link # {} => (CHOOSE s \in link : TRUE) \in link
  OBVIOUS
<1>3. QED
  BY <1>1, <1>2 DEF Holder

\* Steps that leave the sockets, the links and the session phases alone are
\* stutters of the abstract conversation; so are the ones between two phases
\* that both mean "not yet over" or "over".
LEMMA SameHolder ==
    ASSUME UNCHANGED <<ownerConn, link>> PROVE Holder' = Holder
  BY DEF Holder

\* A socket that is dialled is not one that ended.
LEMMA DialIsPrivate ==
    ASSUME IInv, FreshSocket, UNCHANGED session PROVE Ended' = Ended
  BY MaxConnAssumption DEF IInv, TypeOK, MaybeConn, FreshSocket, Ended, OverSessions

\* The callbacks that failed stay the same in a step that moves none of them.
LEMMA SameFailed ==
    ASSUME \A v \in Workers : worker'[v].pc = "failed" <=> worker[v].pc = "failed",
           \A v \in Workers : worker[v].pc = "failed" => worker'[v].conn = worker[v].conn
    PROVE  Failed' = Failed
  BY DEF Failed

\* A failed callback holds opMu: there is one, and its socket is an owner's.
LEMMA OneFailed ==
    ASSUME IInv, NEW w \in Workers, worker[w].pc = "failed"
    PROVE  Failed = {worker[w].conn} /\ worker[w].conn \in ConnIds
<1>1. \A v \in Workers : worker[v].pc = "failed" => v = w
  BY ProcAssumption DEF IInv, OpHolder
<1>2. worker[w].conn \in MaybeConn \ {NoConn}
  BY DEF IInv, TypeOK, OneTransport, WorkerState
<1>3. QED
  BY <1>1, <1>2, MaxConnAssumption DEF Failed, ConnIds, MaybeConn, NoConn

\* CloseOwner ends the conversation on the owner socket, if there is one.
LEMMA CloseEnds ==
    ASSUME IInv, CloseOwner, UNCHANGED <<dials, link>>, OverSessions' = OverSessions,
           ownerConn # NoConn
    PROVE  Holder = ownerConn /\ Abstract!Ends
<1> USE MaxConnAssumption DEF IInv, TypeOK, MaybeConn, NoConn
<1>1. link = {} /\ Holder = ownerConn /\ Holder' = NoConn
  BY LinkExcludesOwner DEF Holder, CloseOwner
<1>2. ownerConn \in open
  BY DEF OwnerSocket
<1>3. Ended' = Ended \cup {ownerConn}
  BY <1>2 DEF Ended, CloseOwner
<1>4. QED
  BY <1>1, <1>3 DEF Abstract!Ends

\* Installing a socket in owner mode, when none is installed, begins a new
\* conversation: no session is up, and the socket is open, so not ended.
LEMMA InstallIsBegin ==
    ASSUME IInv, NEW k \in open, mode = "owner", ownerConn = NoConn, ownerConn' = k,
           UNCHANGED <<dials, open, link, session, mode>>, Failed' = Failed
    PROVE Abstract!Next
<1> USE ProcAssumption, MaxConnAssumption DEF IInv, TypeOK, MaybeConn, NoConn
<1>1. link = {}
  BY DEF LinkIsUp, RelayModeIffSession, InRelay
<1>2. Holder = NoConn /\ Holder' = k
  BY <1>1 DEF Holder
<1>3. k \notin Ended /\ Ended' = Ended /\ k \in ConnIds /\ k \notin Sessions
  BY DEF Ended, OverSessions, ConnIds
<1>4. QED
  BY <1>2, <1>3 DEF Abstract!Next, Abstract!Begin

\* Closing a dialled socket that is not installed throws it away.
LEMMA CloseIsDiscard ==
    ASSUME IInv, NEW k \in open, k # ownerConn, open' = open \ {k},
           UNCHANGED <<dials, ownerConn, link, session, mode>>, Failed' = Failed
    PROVE Abstract!Next
<1> USE ProcAssumption, MaxConnAssumption DEF IInv, TypeOK, MaybeConn, NoConn
<1>1. k \in ConnIds /\ Ended' = Ended \cup {k}
  BY DEF Ended, OverSessions, ConnIds
<1>2. k # Holder
  <2>1. CASE link = {}
    BY <2>1 DEF Holder
  <2>2. CASE link # {}
    <3>1. PICK s \in link : TRUE
      BY <2>2
    <3>2. QED
      BY <3>1, HolderOfLink
  <2>3. QED
    BY <2>1, <2>2
<1>3. QED
  BY <1>1, <1>2, SameHolder DEF Abstract!Next, Abstract!Discard

\* A session that is over without having had a transport is thrown away.
LEMMA SessionIsDiscard ==
    ASSUME IInv, NEW s \in Sessions, s \notin link, OverSessions' = OverSessions \cup {s},
           UNCHANGED <<dials, open, ownerConn, link, mode>>, Failed' = Failed
    PROVE Abstract!Next
<1> USE ProcAssumption, MaxConnAssumption DEF IInv, TypeOK, MaybeConn, NoConn
<1>1. Ended' = Ended \cup {s}
  BY DEF Ended
<1>2. s # Holder
  <2>1. CASE link = {}
    BY <2>1 DEF Holder
  <2>2. CASE link # {}
    <3>1. PICK t \in link : TRUE
      BY <2>2
    <3>2. QED
      BY <3>1, HolderOfLink
  <2>3. QED
    BY <2>1, <2>2
<1>3. QED
  BY <1>1, <1>2, SameHolder DEF Abstract!Next, Abstract!Discard

\* Every step of the arbiter and the relay is a step of the conversation.
LEMMA RefinesStep == IInv /\ IInv' /\ [Next]_vars => [Abstract!Next]_(Abstract!vars)
<1> SUFFICES ASSUME IInv, IInv', [Next]_vars PROVE [Abstract!Next]_(Abstract!vars)
  OBVIOUS
<1> USE ProcAssumption, MaxConnAssumption
<1>0. ASSUME UNCHANGED <<dials, open, ownerConn, link, mode>>, OverSessions' = OverSessions,
             Failed' = Failed
      PROVE [Abstract!Next]_(Abstract!vars)
  BY <1>0, SameHolder DEF Ended, Abstract!vars
<1>1. ASSUME NEW w \in Workers,
             \/ LockOp(w) \/ JogNotIdle(w) \/ ReadMode(w) \/ AcquireOwner(w)
             \/ AcquireMachine(w) \/ OpenWindow(w) \/ FinishUse(w) \/ WorkerCall(w)
      PROVE [Abstract!Next]_(Abstract!vars)
  <2>1. UNCHANGED <<dials, open, ownerConn, link, session, mode>>
    BY <1>1 DEF LockOp, JogNotIdle, ReadMode, AcquireOwner, AcquireMachine, OpenWindow,
                FinishUse, WorkerCall, CallWithMachine, PollOnce,
                CallAcquireJog, LockOpCancelled, arbiterVars, connVars, relayVars
  <2>2. Failed' = Failed
    BY <1>1, SameFailed DEF LockOp, JogNotIdle, ReadMode, AcquireOwner, AcquireMachine,
       OpenWindow, FinishUse, WorkerCall, CallWithMachine, PollOnce, CallAcquireJog,
       LockOpCancelled, Goto, Return, IdleWorker, IInv, TypeOK, WorkerState
  <2>3. QED
    BY <1>0, <2>1, <2>2 DEF OverSessions
<1>2. ASSUME NEW w \in Workers, DialOwner(w) PROVE [Abstract!Next]_(Abstract!vars)
  <2>1. UNCHANGED <<ownerConn, link, session, mode>> /\ (UNCHANGED <<dials, open>> \/ FreshSocket)
    BY <1>2 DEF DialOwner, arbiterVars, connVars, relayVars
  <2>2. Failed' = Failed
    BY <1>2, SameFailed DEF DialOwner, Return, IdleWorker, IInv, TypeOK, WorkerState
  <2>3. QED
    BY <1>0, <2>1, <2>2, DialIsPrivate, SameHolder DEF OverSessions, Abstract!vars
<1>3. ASSUME NEW w \in Workers, InstallOwner(w) PROVE [Abstract!Next]_(Abstract!vars)
  <2>1. worker[w].conn \in open /\ worker[w].conn # ownerConn
    BY <1>3 DEF InstallOwner, IInv, PrivateSockets
  <2>2. UNCHANGED <<dials, link, session, mode>>
    BY <1>3 DEF InstallOwner, relayVars, arbiterVars
  <2>3. \/ ownerConn' = ownerConn /\ open' = open \ {worker[w].conn}
        \/ /\ mode = "owner" /\ ownerConn = NoConn
           /\ ownerConn' = worker[w].conn /\ open' = open
    BY <1>3 DEF InstallOwner, arbiterVars
  <2>4. Failed' = Failed
    BY <1>3, SameFailed DEF InstallOwner, Goto, Return, IdleWorker, IInv, TypeOK, WorkerState
  <2>5. QED
    BY <2>1, <2>2, <2>3, <2>4, CloseIsDiscard, InstallIsBegin
<1>4. ASSUME NEW w \in Workers, DropOwner(w) PROVE [Abstract!Next]_(Abstract!vars)
  <2>1. UNCHANGED <<dials, link, mode>> /\ OverSessions' = OverSessions
    BY <1>4 DEF DropOwner, relayVars, OverSessions
  <2>2. Failed = {worker[w].conn} /\ worker[w].conn \in ConnIds /\ Failed' = {}
    <3>1. worker[w].pc = "failed" /\ worker' = [worker EXCEPT ![w] = IdleWorker]
      BY <1>4 DEF DropOwner, Return
    <3>2. \A v \in Workers : worker'[v].pc # "failed"
      BY <3>1, ProcAssumption DEF IInv, TypeOK, OpHolder, IdleWorker
    <3>3. QED
      BY <3>1, <3>2, OneFailed DEF Failed
  <2>3. CASE ownerConn = worker[w].conn
    <3>1. CloseOwner /\ ownerConn # NoConn
      BY <1>4, <2>2, <2>3 DEF DropOwner, ConnIds, NoConn
    <3>2. QED
      BY <2>1, <2>2, <2>3, <3>1, CloseEnds DEF Abstract!Next, Abstract!Drop
  <2>4. CASE ownerConn # worker[w].conn
    <3>1. UNCHANGED <<open, ownerConn>>
      BY <1>4, <2>4 DEF DropOwner
    <3>2. worker[w].conn # Holder
      <4>1. worker[w].conn \in 0 .. MaxConn /\ worker[w].conn # NoConn
        BY <2>2 DEF ConnIds, NoConn
      <4>2. QED
        BY <2>4, <4>1, HolderIs
    <3>3. Holder' = Holder /\ Ended' = Ended
      BY <2>1, <3>1, SameHolder DEF Ended
    <3>4. QED
      BY <2>1, <2>2, <3>2, <3>3 DEF Abstract!Next, Abstract!Forget
  <2>5. QED
    BY <2>3, <2>4
<1>15. ASSUME NEW w \in Workers, ConnectionError(w) PROVE [Abstract!Next]_(Abstract!vars)
  <2>1. UNCHANGED <<dials, open, ownerConn, link, session, mode>>
    BY <1>15 DEF ConnectionError, arbiterVars, connVars, relayVars
  <2>2. worker[w].pc = "use" /\ worker[w].conn # NoConn /\ worker[w].conn <= dials
    BY <1>15 DEF ConnectionError, IInv, PrivateSockets
  <2>3. worker'[w].pc = "failed" /\ worker'[w].conn = worker[w].conn
    BY <1>15 DEF ConnectionError, Goto, IInv, TypeOK, WorkerState
  <2>4. \A v \in Workers : worker[v].pc # "failed"
    BY <2>2 DEF IInv, OpHolder
  <2>5. Failed' = {worker[w].conn} /\ worker[w].conn \in ConnIds
    <3>1. IInv' => Failed' = {worker'[w].conn} /\ worker'[w].conn \in ConnIds
      <4>1. \A v \in Workers : worker'[v].pc = "failed" => v = w
        BY <2>3, ProcAssumption DEF IInv, OpHolder
      <4>2. worker[w].conn \in MaybeConn \ {NoConn}
        BY <2>2 DEF IInv, TypeOK, WorkerState
      <4>3. QED
        BY <4>1, <4>2, <2>3 DEF Failed, ConnIds, MaybeConn, NoConn
    <3>2. QED
      BY <2>3, <3>1
  <2>6. Failed = {}
    BY <2>4 DEF Failed
  <2>7. worker[w].conn = Holder \/ worker[w].conn \in Ended
    <3>1. CASE worker[w].conn \in open
      <4>1. worker[w].conn = ownerConn
        BY <2>2, <3>1, WritableIsOwner DEF Writable
      <4>2. QED
        BY <2>2, <4>1 DEF Holder
    <3>2. CASE worker[w].conn \notin open
      BY <2>2, <2>5, <3>2 DEF Ended, ConnIds, IInv, TypeOK, MaybeConn
    <3>3. QED
      BY <3>1, <3>2
  <2>8. Holder' = Holder /\ Ended' = Ended
    BY <2>1, SameHolder DEF Ended, OverSessions
  <2>9. QED
    BY <2>1, <2>5, <2>6, <2>7, <2>8 DEF Abstract!Next, Abstract!Fail
<1>5. ASSUME NEW c \in Controls,
             \/ ControlMode(c) \/ ControlSend(c) \/ ControlRelay(c)
             \/ ControlRelaySend(c) \/ CallSendControl(c)
      PROVE [Abstract!Next]_(Abstract!vars)
  <2>1. UNCHANGED <<dials, open, ownerConn, link, session, mode, worker>>
    BY <1>5 DEF ControlMode, ControlSend, ControlRelay, ControlRelaySend,
                CallSendControl, arbiterVars, connVars, relayVars
  <2>2. QED
    BY <1>0, <2>1 DEF OverSessions, Failed
<1>6. ASSUME NEW c \in Controls, ControlDial(c) PROVE [Abstract!Next]_(Abstract!vars)
  <2>1. /\ UNCHANGED <<ownerConn, link, session, mode, worker>>
        /\ UNCHANGED <<dials, open>> \/ FreshSocket
    BY <1>6 DEF ControlDial, arbiterVars, connVars, relayVars
  <2>2. QED
    BY <1>0, <2>1, DialIsPrivate, SameHolder DEF OverSessions, Failed, Abstract!vars
<1>7. ASSUME NEW c \in Controls, ControlInstall(c) PROVE [Abstract!Next]_(Abstract!vars)
  <2>1. control[c].conn \in open /\ control[c].conn # ownerConn
    BY <1>7 DEF ControlInstall, IInv, PrivateSockets
  <2>2. UNCHANGED <<dials, link, session, mode>> /\ Failed' = Failed
    BY <1>7 DEF ControlInstall, relayVars, Failed
  <2>3. \/ ownerConn' = ownerConn /\ open' = open \ {control[c].conn}
        \/ /\ mode = "owner" /\ ownerConn = NoConn
           /\ ownerConn' = control[c].conn /\ open' = open
    BY <1>7 DEF ControlInstall, arbiterVars
  <2>4. QED
    BY <2>1, <2>2, <2>3, CloseIsDiscard, InstallIsBegin
<1>8. ASSUME NEW s \in Sessions, Accept(s) PROVE [Abstract!Next]_(Abstract!vars)
  <2>1. s \notin link /\ UNCHANGED <<dials, open, ownerConn, link, mode>> /\ Failed' = Failed
    BY <1>8 DEF Accept, IInv, LinkIsUp, arbiterVars, connVars, Failed
  <2>2. OverSessions' = OverSessions \/ OverSessions' = OverSessions \cup {s}
    BY <1>8 DEF Accept, OverSessions, IInv, TypeOK
  <2>3. QED
    BY <1>0, <2>1, <2>2, SessionIsDiscard
<1>9. ASSUME NEW s \in Sessions, EnterRelay(s) PROVE [Abstract!Next]_(Abstract!vars)
  <2>1. UNCHANGED <<dials, link>> /\ CloseOwner /\ Failed' = Failed
    BY <1>9 DEF EnterRelay, Failed
  <2>2. OverSessions' = OverSessions
    BY <1>9 DEF EnterRelay, At, OverSessions, IInv, TypeOK
  <2>3. mode = "owner" /\ mode' = "relay"
    BY <1>9 DEF EnterRelay, At, IInv, TypeOK, RelayModeIffSession, InRelay, OneSession, LiveSession
  <2>4. link = {}
    BY <2>3 DEF IInv, LinkIsUp, RelayModeIffSession, InRelay
  <2>5. CASE ownerConn = NoConn
    <3>1. Holder = NoConn /\ Holder' = NoConn /\ Ended' = Ended
      BY <2>1, <2>2, <2>4, <2>5 DEF CloseOwner, Holder, Ended, IInv, TypeOK, NoConn
    <3>2. QED
      BY <2>1, <2>3, <3>1 DEF Abstract!Next, Abstract!Claim
  <2>6. CASE ownerConn # NoConn
    BY <2>1, <2>2, <2>3, <2>6, CloseEnds DEF Abstract!Next, Abstract!Claim
  <2>7. QED
    BY <2>5, <2>6
<1>10. ASSUME NEW s \in Sessions, OpenMachine(s) PROVE [Abstract!Next]_(Abstract!vars)
  <2>1. s \notin link /\ UNCHANGED <<dials, open, ownerConn, mode>> /\ Failed' = Failed
    BY <1>10 DEF OpenMachine, At, IInv, LinkIsUp, arbiterVars, connVars, Failed
  <2>2. CASE At(s, "open", "exit") /\ link' = link
    <3>1. OverSessions' = OverSessions \cup {s}
      BY <2>2 DEF At, OverSessions, IInv, TypeOK
    <3>2. QED
      BY <2>1, <2>2, <3>1, SessionIsDiscard
  <2>3. CASE At(s, "open", "mux") /\ link' = link \cup {s}
    <3>1. ownerConn = NoConn /\ link = {} /\ mode = "relay"
      BY <2>3 DEF At, IInv, LinkIsUp, OneSession, LiveSession, RelayModeIffSession,
                  InRelay, OwnerSocket
    <3>2. link' = {s} /\ ownerConn' = NoConn
      BY <2>1, <2>3, <3>1
    <3>3. (CHOOSE x \in {s} : TRUE) = s
      OBVIOUS
    <3>4. Holder = NoConn /\ Holder' = s
      BY <3>1, <3>2, <3>3 DEF Holder
    <3>5. OverSessions' = OverSessions /\ s \notin OverSessions
      BY <2>3 DEF At, OverSessions, IInv, TypeOK
    <3>6. Ended' = Ended /\ s \notin Ended
      BY <2>1, <3>5 DEF Ended, IInv, TypeOK, MaybeConn
    <3>7. QED
      BY <2>1, <3>1, <3>4, <3>6 DEF Abstract!Next, Abstract!Begin
  <2>4. QED
    BY <1>10, <2>2, <2>3 DEF OpenMachine
<1>11. ASSUME NEW s \in Sessions, PumpsEnd(s) PROVE [Abstract!Next]_(Abstract!vars)
  <2>1. /\ s \in link /\ link' = link \ {s}
        /\ UNCHANGED <<dials, open, ownerConn, mode>> /\ Failed' = Failed
    BY <1>11 DEF PumpsEnd, At, IInv, LinkIsUp, arbiterVars, connVars, Failed
  <2>2. Holder = s /\ ownerConn = NoConn /\ link = {s}
    BY <2>1, HolderOfLink
  <2>3. Holder' = NoConn
    BY <2>1, <2>2 DEF Holder
  <2>4. OverSessions' = OverSessions \cup {s}
    BY <1>11 DEF PumpsEnd, At, OverSessions, IInv, TypeOK
  <2>5. Ended' = Ended \cup {s}
    BY <2>1, <2>4 DEF Ended
  <2>6. s # NoConn
    BY DEF NoConn
  <2>7. QED
    BY <2>1, <2>2, <2>3, <2>5, <2>6 DEF Abstract!Next, Abstract!Leave, Abstract!Ends
<1>12. ASSUME NEW s \in Sessions, StartMux(s) \/ ClearMux(s) \/ Deactivate(s)
       PROVE [Abstract!Next]_(Abstract!vars)
  <2>1. UNCHANGED <<dials, open, ownerConn, link, mode>> /\ Failed' = Failed
    BY <1>12 DEF StartMux, ClearMux, Deactivate, arbiterVars, connVars, Failed
  <2>2. OverSessions' = OverSessions
    BY <1>12 DEF StartMux, ClearMux, Deactivate, At, OverSessions, IInv, TypeOK
  <2>3. QED
    BY <1>0, <2>1, <2>2
<1>16. ASSUME NEW s \in Sessions, ExitRelay(s) PROVE [Abstract!Next]_(Abstract!vars)
  <2>1. UNCHANGED <<dials, open, ownerConn, link>> /\ Failed' = Failed /\ mode' = "owner"
    BY <1>16 DEF ExitRelay, connVars, Failed
  <2>2. OverSessions' = OverSessions
    BY <1>16 DEF ExitRelay, At, OverSessions, IInv, TypeOK
  <2>3. mode = "relay" /\ link = {} /\ ownerConn = NoConn
    BY <1>16 DEF ExitRelay, At, IInv, RelayModeIffSession, InRelay, OneSession, LiveSession,
                 LinkIsUp, OwnerSocket
  <2>4. Holder = NoConn /\ Holder' = Holder /\ Ended' = Ended
    BY <2>1, <2>2, <2>3, SameHolder DEF Holder, Ended
  <2>5. QED
    BY <2>1, <2>3, <2>4 DEF Abstract!Next, Abstract!GiveBack
<1>13. CASE UNCHANGED vars
  <2>1. UNCHANGED <<dials, open, ownerConn, link, session, mode, worker>>
    BY <1>13 DEF vars
  <2>2. QED
    BY <1>0, <2>1 DEF OverSessions, Failed
<1>14. QED
  BY <1>1, <1>2, <1>3, <1>4, <1>5, <1>6, <1>7, <1>8, <1>9, <1>10, <1>11, <1>12, <1>13,
     <1>15, <1>16
     DEF Next, WorkerStep, ControlStep, SessionStep

\* The arbiter and the relay implement the one-conversation machine: a
\* conversation ends before the next begins, and never comes back.
THEOREM Refinement == Spec => ImplementsConversation
<1>1. Init => Abstract!Init
  <2> SUFFICES ASSUME Init PROVE Abstract!Init
    OBVIOUS
  <2>1. Holder = NoConn /\ mode # "relay"
    BY DEF Init, Holder
  <2>2. Ended = {} /\ Failed = {}
    BY DEF Init, Ended, OverSessions, Failed, IdleWorker
  <2>3. QED
    BY <2>1, <2>2 DEF Abstract!Init
<1>2. QED
  BY <1>1, RefinesStep, InductiveInvariant, PTL
     DEF Spec, ImplementsConversation, Abstract!Spec

-----------------------------------------------------------------------------
(* The mux of one relay session.                                            *)

\* The flags and counters of the window.
LEMMA WindowTypeStep == MuxTypeOK /\ [MuxNext]_sessionVars => WindowTypeOK'
<1> SUFFICES ASSUME MuxTypeOK, [MuxNext]_sessionVars PROVE WindowTypeOK'
  OBVIOUS
<1> USE BoundsAssumption DEF MuxTypeOK, WindowTypeOK, muxVars
<1>1. ASSUME NEW kind \in Kinds, NoteControllerFrame(kind) PROVE WindowTypeOK'
  <2>1. sent' \in 0 .. MaxFrames /\ written' \in 0 .. MaxWrites
    BY <1>1 DEF NoteControllerFrame
  <2>2. controllerMidXfer' \in BOOLEAN
    BY <1>1 DEF NoteControllerFrame, Kinds
  <2>3. xfer' \in {"none", "upload", "download", "cached"}
    BY <1>1 DEF NoteControllerFrame, Kinds
  <2>4. injectCh' \in {"nil", "open"} /\ abortCh' \in {"nil", "open"}
    BY <1>1 DEF NoteControllerFrame, AbortInteractive
  <2>5. aborted' \in BOOLEAN
    BY <1>1 DEF NoteControllerFrame, AbortInteractive
  <2>6. UNCHANGED <<injecting, interactive, injectOverflow, injectStatusPolls, cached>>
    BY <1>1 DEF NoteControllerFrame
  <2>7. QED
    BY <2>1, <2>2, <2>3, <2>4, <2>5, <2>6
<1>2. CASE StartCachedDownload \/ FinishCachedDownload
  <2>1. /\ sent' \in 0 .. MaxFrames /\ written' \in 0 .. MaxWrites
        /\ xfer' \in {"none", "upload", "download", "cached"}
    BY <1>2 DEF StartCachedDownload, FinishCachedDownload
  <2>6. controllerMidXfer' \in BOOLEAN /\ cached' \in BOOLEAN
    BY <1>2 DEF StartCachedDownload, FinishCachedDownload
  <2>2. injectCh' \in {"nil", "open"} /\ abortCh' \in {"nil", "open"}
    BY <1>2 DEF StartCachedDownload, FinishCachedDownload, AbortInteractive
  <2>3. aborted' \in BOOLEAN
    BY <1>2 DEF StartCachedDownload, FinishCachedDownload, AbortInteractive
  <2>4. UNCHANGED <<injecting, interactive, injectOverflow, injectStatusPolls>>
    BY <1>2 DEF StartCachedDownload, FinishCachedDownload
  <2>5. QED
    BY <2>1, <2>2, <2>3, <2>4, <2>6
<1>3. CASE PumpWrite \/ InjectRead \/ InjectDone \/ FlushHeld \/ MachineStep \/ InjectReceive
  BY <1>3 DEF PumpWrite, InjectRead, InjectDone, FlushHeld, MachineStep, InjectReceive
<1>4. ASSUME NEW lease \in BOOLEAN, Acquire(lease) PROVE WindowTypeOK'
  BY <1>4 DEF Acquire
<1>5. ASSUME NEW kind \in {"poll", "cmd"}, InjectCheck(kind) PROVE WindowTypeOK'
  BY <1>5 DEF InjectCheck
<1>6. CASE NoteInjectedFrames
  BY <1>6 DEF NoteInjectedFrames
<1>7. CASE InjectWrite
  BY <1>7 DEF InjectWrite, InjTypeOK
<1>8. CASE ReleaseInjection
  <2>1. injectStatusPolls' = injectStatusPolls \/ injectStatusPolls' = 0
    BY <1>8 DEF ReleaseInjection
  <2>6. injectCh' \in {"nil", "open"} /\ abortCh' \in {"nil", "open"}
    BY <1>8 DEF ReleaseInjection
  <2>2. injecting' \in BOOLEAN /\ interactive' \in BOOLEAN
    BY <1>8 DEF ReleaseInjection
  <2>3. aborted' \in BOOLEAN
    BY <1>8 DEF ReleaseInjection
  <2>4. UNCHANGED <<injectOverflow, controllerMidXfer, cached, sent, written, xfer>>
    BY <1>8 DEF ReleaseInjection
  <2>5. QED
    BY <2>1, <2>2, <2>3, <2>4, <2>6
<1>9. CASE RouteMachineFrame
  <2>1. injectStatusPolls' \in Nat
    BY <1>9 DEF RouteMachineFrame, Diverts
  <2>2. xfer' \in {"none", "upload", "download", "cached"}
    BY <1>9 DEF RouteMachineFrame
  <2>3. injectCh' \in {"nil", "open"}
    BY <1>9 DEF RouteMachineFrame, DeliverInject
  <2>4. injectOverflow' \in BOOLEAN
    BY <1>9 DEF RouteMachineFrame, DeliverInject
  <2>5. UNCHANGED <<injecting, interactive, abortCh, aborted, controllerMidXfer, cached,
                    sent, written>>
    BY <1>9 DEF RouteMachineFrame
  <2>6. QED
    BY <2>1, <2>2, <2>3, <2>4, <2>5
<1>10. CASE UNCHANGED sessionVars
  BY <1>10 DEF sessionVars
<1>11. QED
  BY <1>1, <1>2, <1>3, <1>4, <1>5, <1>6, <1>7, <1>8, <1>9, <1>10
     DEF MuxNext, PumpStep, InjStep

\* The injected operation, the frame it writes and the batch it flushes.
LEMMA InjTypeStep == MuxTypeOK /\ [MuxNext]_sessionVars => InjTypeOK'
<1> SUFFICES ASSUME MuxTypeOK, [MuxNext]_sessionVars PROVE InjTypeOK'
  OBVIOUS
<1> USE BoundsAssumption DEF MuxTypeOK, InjTypeOK, InjPC
<1>1. ASSUME NEW lease \in BOOLEAN, Acquire(lease) PROVE InjTypeOK'
  BY <1>1 DEF Acquire
<1>2. ASSUME NEW kind \in {"poll", "cmd"}, InjectCheck(kind) PROVE InjTypeOK'
  <2>1. [src |-> "inj", n |-> written + 1, kind |-> kind] \in InjFrame
    BY <1>2 DEF InjectCheck, InjFrame, WindowTypeOK
  <2>2. QED
    BY <1>2, <2>1 DEF InjectCheck
<1>3. CASE NoteInjectedFrames
  BY <1>3 DEF NoteInjectedFrames
<1>4. CASE InjectWrite
  BY <1>4 DEF InjectWrite
<1>5. CASE InjectRead
  BY <1>5 DEF InjectRead
<1>6. CASE InjectReceive
  BY <1>6 DEF InjectReceive
<1>7. CASE InjectDone
  BY <1>7 DEF InjectDone
<1>8. CASE ReleaseInjection
  <2>1. heldController \in Seq(CtlFrame) /\ <<>> \in Seq(CtlFrame)
    BY DEF FrameTypeOK
  <2>2. QED
    <3>1. inj' = [inj EXCEPT !.pc = "flush", !.batch = heldController] \/ inj' = IdleInj
      BY <1>8 DEF ReleaseInjection
    <3>2. CASE inj' = IdleInj
      BY <2>1, <3>2 DEF IdleInj
    <3>3. CASE inj' = [inj EXCEPT !.pc = "flush", !.batch = heldController]
      BY <2>1, <3>3
    <3>4. QED
      BY <3>1, <3>2, <3>3
<1>9. CASE FlushHeld
  <2>1. inj.batch # <<>> => Tail(inj.batch) \in Seq(CtlFrame)
    OBVIOUS
  <2>2. QED
    BY <1>9, <2>1 DEF FlushHeld
<1>10. CASE UNCHANGED <<inj, written>>
  BY <1>10
<1>11. CASE PumpStep \/ PumpWrite \/ MachineStep \/ RouteMachineFrame \/ UNCHANGED sessionVars
  <2>1. UNCHANGED <<inj, written>>
    BY <1>11 DEF PumpStep, NoteControllerFrame, StartCachedDownload, FinishCachedDownload,
                 PumpWrite, MachineStep, RouteMachineFrame, sessionVars
  <2>2. QED
    BY <1>10, <2>1
<1>12. QED
  BY <1>1, <1>2, <1>3, <1>4, <1>5, <1>6, <1>7, <1>8, <1>9, <1>11 DEF MuxNext, InjStep

\* The controller's frames, wherever they are.
LEMMA FrameTypeStep == MuxTypeOK /\ [MuxNext]_sessionVars => FrameTypeOK'
<1> SUFFICES ASSUME MuxTypeOK, [MuxNext]_sessionVars PROVE FrameTypeOK'
  OBVIOUS
<1> USE BoundsAssumption DEF MuxTypeOK, FrameTypeOK
<1>1. ASSUME NEW kind \in Kinds, NoteControllerFrame(kind) PROVE FrameTypeOK'
  <2>1. [src |-> "ctl", n |-> sent + 1, kind |-> kind] \in CtlFrame
    BY <1>1 DEF NoteControllerFrame, CtlFrame, WindowTypeOK
  <2>2. QED
    BY <1>1, <2>1 DEF NoteControllerFrame
<1>2. CASE PumpWrite
  BY <1>2 DEF PumpWrite, muxVars
<1>3. CASE ReleaseInjection
  BY <1>3 DEF ReleaseInjection
<1>4. CASE FlushHeld
  <2>1. inj.batch # <<>> => Head(inj.batch) \in CtlFrame
    BY DEF InjTypeOK
  <2>2. QED
    <3>1. UNCHANGED <<heldController, pump, accepted>>
      BY <1>4 DEF FlushHeld, muxVars
    <3>2. \/ delivered' = delivered
          \/ inj.batch # <<>> /\ delivered' = Append(delivered, Head(inj.batch))
      BY <1>4 DEF FlushHeld
    <3>3. CASE delivered' = delivered
      BY <3>1, <3>3
    <3>4. CASE inj.batch # <<>> /\ delivered' = Append(delivered, Head(inj.batch))
      <4>1. Head(inj.batch) \in CtlFrame /\ delivered \in Seq(CtlFrame)
        BY <2>1, <3>4
      <4>2. delivered' \in Seq(CtlFrame)
        BY <3>4, <4>1
      <4>3. QED
        BY <3>1, <4>2
    <3>5. QED
      BY <3>2, <3>3, <3>4
<1>5. CASE UNCHANGED <<heldController, pump, accepted, delivered>>
  BY <1>5
<1>6. ASSUME NEW lease \in BOOLEAN, Acquire(lease) PROVE FrameTypeOK'
  BY <1>6 DEF Acquire
<1>7. ASSUME NEW kind \in {"poll", "cmd"}, InjectCheck(kind) PROVE FrameTypeOK'
  BY <1>7 DEF InjectCheck, muxVars
<1>8. CASE \/ StartCachedDownload \/ FinishCachedDownload \/ NoteInjectedFrames \/ InjectWrite
           \/ InjectRead \/ InjectReceive \/ InjectDone \/ MachineStep \/ RouteMachineFrame
           \/ UNCHANGED sessionVars
  BY <1>5, <1>8 DEF StartCachedDownload, FinishCachedDownload, NoteInjectedFrames, InjectWrite,
           InjectRead, InjectReceive, InjectDone, MachineStep, RouteMachineFrame, sessionVars, muxVars
<1>9. QED
  BY <1>1, <1>2, <1>3, <1>4, <1>6, <1>7, <1>8 DEF MuxNext, PumpStep, InjStep

\* What travels to and from the machine.
LEMMA WireTypeStep == MuxTypeOK /\ [MuxNext]_sessionVars => WireTypeOK'
<1> SUFFICES ASSUME MuxTypeOK, [MuxNext]_sessionVars PROVE WireTypeOK'
  OBVIOUS
<1> USE DEF MuxTypeOK, WireTypeOK
<1>1. CASE PumpWrite
  BY <1>1 DEF PumpWrite, FrameTypeOK
<1>2. CASE InjectWrite
  BY <1>2 DEF InjectWrite, InjTypeOK
<1>3. CASE FlushHeld
  <2>1. inj.batch # <<>> => Head(inj.batch) \in CtlFrame
    BY DEF InjTypeOK
  <2>2. QED
    <3>1. fromMachine' = fromMachine
      BY <1>3 DEF FlushHeld
    <3>2. \/ toMachine' = toMachine
          \/ inj.batch # <<>> /\ toMachine' = Append(toMachine, Head(inj.batch))
      BY <1>3 DEF FlushHeld
    <3>3. CASE toMachine' = toMachine
      BY <3>1, <3>3
    <3>4. CASE inj.batch # <<>> /\ toMachine' = Append(toMachine, Head(inj.batch))
      <4>1. Head(inj.batch) \in CtlFrame \cup InjFrame
        BY <2>1, <3>4
      <4>2. toMachine' \in Seq(CtlFrame \cup InjFrame)
        BY <3>4, <4>1
      <4>3. QED
        BY <3>1, <4>2
    <3>5. QED
      BY <3>2, <3>3, <3>4
<1>4. CASE MachineStep
  <2>1. Head(toMachine).src \in {"ctl", "inj"}
    BY <1>4 DEF MachineStep, CtlFrame, InjFrame
  <2>2. QED
    BY <1>4, <2>1 DEF MachineStep, Reply
<1>5. CASE RouteMachineFrame
  BY <1>5 DEF RouteMachineFrame
<1>6. CASE UNCHANGED <<toMachine, fromMachine>>
  BY <1>6
<1>7. CASE \/ PumpStep \/ (\E lease \in BOOLEAN : Acquire(lease))
           \/ (\E kind \in {"poll", "cmd"} : InjectCheck(kind)) \/ NoteInjectedFrames
           \/ InjectRead \/ InjectReceive \/ InjectDone \/ ReleaseInjection \/ UNCHANGED sessionVars
  BY <1>6, <1>7 DEF PumpStep, NoteControllerFrame, StartCachedDownload, FinishCachedDownload,
           Acquire, InjectCheck, NoteInjectedFrames, InjectRead, InjectReceive, InjectDone,
           ReleaseInjection, sessionVars
<1>8. QED
  BY <1>1, <1>2, <1>3, <1>4, <1>5, <1>7 DEF MuxNext, InjStep

\* The channel of the window and its observers.
LEMMA ChanTypeStep == MuxTypeOK /\ [MuxNext]_sessionVars => ChanTypeOK'
<1> SUFFICES ASSUME MuxTypeOK, [MuxNext]_sessionVars PROVE ChanTypeOK'
  OBVIOUS
<1> USE DEF MuxTypeOK, ChanTypeOK
<1>1. CASE \E lease \in BOOLEAN : Acquire(lease)
  BY <1>1 DEF Acquire
<1>2. CASE InjectReceive
  <2>1. chan # <<>> => Head(chan) \in Nat /\ Tail(chan) \in Seq(Nat)
    OBVIOUS
  <2>2. QED
    BY <1>2, <2>1 DEF InjectReceive
<1>3. CASE ReleaseInjection
  <2>1. <<>> \in Seq(Nat)
    OBVIOUS
  <2>2. QED
    BY <1>3, <2>1 DEF ReleaseInjection
<1>4. CASE RouteMachineFrame
  <2>1. Append(chan, diverted + 1) \in Seq(Nat)
    OBVIOUS
  <2>2. QED
    <3>1. /\ chan' = chan \/ chan' = Append(chan, diverted + 1)
          /\ diverted' = diverted \/ diverted' = diverted + 1
          /\ lastRead' = lastRead
      BY <1>4 DEF RouteMachineFrame, DeliverInject
    <3>2. QED
      BY <2>1, <3>1
<1>5. CASE UNCHANGED <<chan, diverted, lastRead>>
  BY <1>5
<1>6. CASE \/ PumpStep \/ (\E kind \in {"poll", "cmd"} : InjectCheck(kind))
           \/ NoteInjectedFrames \/ InjectRead \/ InjectDone \/ InjectWrite
           \/ FlushHeld \/ PumpWrite \/ MachineStep \/ UNCHANGED sessionVars
  BY <1>5, <1>6 DEF PumpStep, NoteControllerFrame, StartCachedDownload, FinishCachedDownload,
           InjectCheck, NoteInjectedFrames, InjectRead, InjectDone, InjectWrite, FlushHeld,
           PumpWrite, MachineStep, sessionVars, muxVars
<1>7. QED
  BY <1>1, <1>2, <1>3, <1>4, <1>6 DEF MuxNext, InjStep

\* The steps keep all of the types.
LEMMA MuxTypeStep == MuxTypeOK /\ [MuxNext]_sessionVars => MuxTypeOK'
  BY WindowTypeStep, InjTypeStep, FrameTypeStep, WireTypeStep, ChanTypeStep DEF MuxTypeOK

-----------------------------------------------------------------------------
(* Order of the controller's frames.  FramesInOrder is not inductive: that  *)
(* a forwarded frame cannot overtake held ones takes that nothing is held   *)
(* while the pump has a frame in hand or while no window is open.           *)

\* The frames are where they are expected, step by step.
LEMMA OrderStep == MuxTypeOK /\ OrderInv /\ [MuxNext]_sessionVars => OrderInv'
<1> SUFFICES ASSUME MuxTypeOK, OrderInv, [MuxNext]_sessionVars PROVE OrderInv'
  OBVIOUS
<1> USE DEF OrderInv, MuxTypeOK, InjTypeOK, muxVars
<1>1. ASSUME NEW kind \in Kinds, NoteControllerFrame(kind) PROVE OrderInv'
  BY <1>1 DEF NoteControllerFrame, NoFrame
<1>2. CASE PumpWrite
  BY <1>2 DEF PumpWrite
<1>3. ASSUME NEW lease \in BOOLEAN, Acquire(lease) PROVE OrderInv'
  BY <1>3 DEF Acquire
<1>4. ASSUME NEW kind \in {"poll", "cmd"}, InjectCheck(kind) PROVE OrderInv'
  BY <1>4 DEF InjectCheck
<1>5. CASE NoteInjectedFrames \/ InjectWrite \/ InjectRead \/ InjectReceive \/ InjectDone
  BY <1>5 DEF NoteInjectedFrames, InjectWrite, InjectRead, InjectReceive, InjectDone
<1>6. CASE ReleaseInjection
  <2>1. /\ heldController' = <<>> /\ pump' = pump
        /\ \/ heldController # <<>> /\ injecting' = injecting
              /\ inj' = [inj EXCEPT !.pc = "flush", !.batch = heldController]
           \/ injecting' = FALSE /\ inj' = IdleInj
    BY <1>6 DEF ReleaseInjection
  <2>2. inj.pc = "end"
    BY <1>6 DEF ReleaseInjection
  <2>3. CASE injecting' = FALSE /\ inj' = IdleInj
    <3>1. inj'.pc = "idle" /\ inj'.batch = <<>>
      BY <2>3 DEF IdleInj
    <3>2. QED
      BY <2>1, <2>3, <3>1
  <2>4. CASE /\ heldController # <<>> /\ injecting' = injecting
             /\ inj' = [inj EXCEPT !.pc = "flush", !.batch = heldController]
    <3>1. inj'.pc = "flush" /\ injecting /\ pump = NoFrame
      BY <2>4
    <3>2. QED
      BY <2>1, <2>4, <3>1
  <2>5. QED
    BY <2>1, <2>3, <2>4
<1>7. CASE FlushHeld
  BY <1>7 DEF FlushHeld
<1>8. CASE UNCHANGED <<injecting, inj, pump, heldController>>
  BY <1>8
<1>9. CASE \/ StartCachedDownload \/ FinishCachedDownload \/ MachineStep
           \/ RouteMachineFrame \/ UNCHANGED sessionVars
  BY <1>8, <1>9 DEF StartCachedDownload, FinishCachedDownload, MachineStep,
                    RouteMachineFrame, sessionVars
<1>10. QED
  BY <1>1, <1>2, <1>3, <1>4, <1>5, <1>6, <1>7, <1>9 DEF MuxNext, PumpStep, InjStep

\* Moving the head of the second part to the end of the first changes nothing.
LEMMA MoveHead ==
    ASSUME NEW S, NEW s \in Seq(S), NEW t \in Seq(S), t # <<>>
    PROVE Append(s, Head(t)) \o Tail(t) = s \o t
  OBVIOUS

\* No step loses, duplicates or reorders a frame of the controller.
LEMMA FramesStep ==
    MuxTypeOK /\ OrderInv /\ FramesInOrder /\ [MuxNext]_sessionVars => FramesInOrder'
<1> SUFFICES ASSUME MuxTypeOK, OrderInv, FramesInOrder, [MuxNext]_sessionVars PROVE FramesInOrder'
  OBVIOUS
<1>t. /\ heldController \in Seq(CtlFrame) /\ inj.batch \in Seq(CtlFrame)
      /\ delivered \in Seq(CtlFrame) /\ accepted \in Seq(CtlFrame)
      /\ pump \in CtlFrame \cup {NoFrame}
  BY DEF MuxTypeOK, FrameTypeOK, InjTypeOK
<1>e. NoFrame \notin CtlFrame
  BY DEF NoFrame, CtlFrame
<1>1. ASSUME NEW kind \in Kinds, NoteControllerFrame(kind) PROVE FramesInOrder'
  <2> DEFINE f == [src |-> "ctl", n |-> sent + 1, kind |-> kind]
  <2>1. f \in CtlFrame /\ f # NoFrame
    BY <1>1, BoundsAssumption DEF NoteControllerFrame, CtlFrame, MuxTypeOK, WindowTypeOK, NoFrame
  <2>2. pump = NoFrame /\ UNCHANGED <<inj, delivered>>
    BY <1>1 DEF NoteControllerFrame
  <2>3. accepted = delivered \o inj.batch \o heldController
    BY <2>2, <1>t, ConcatEmptySeq DEF FramesInOrder, Pending
  <2>4. CASE ~injecting
    <3>1. /\ pump' = f /\ heldController' = heldController
          /\ accepted' = Append(accepted, f)
      BY <1>1, <2>4 DEF NoteControllerFrame
    <3>2. heldController = <<>> /\ inj.batch = <<>>
      BY <2>4 DEF OrderInv
    <3>3. accepted = delivered /\ Pending' = <<f>>
      BY <2>1, <2>3, <3>1, <3>2, <1>t, ConcatEmptySeq DEF Pending
    <3>4. Append(delivered, f) = delivered \o <<f>> \o <<>> \o <<>>
      BY <2>1, <1>t
    <3>5. QED
      BY <2>2, <3>1, <3>2, <3>3, <3>4 DEF FramesInOrder
  <2>5. CASE injecting /\ kind = "poll"
    <3>1. UNCHANGED <<pump, heldController, accepted>>
      BY <1>1, <2>2, <2>5 DEF NoteControllerFrame
    <3>2. QED
      BY <2>2, <3>1 DEF FramesInOrder, Pending
  <2>6. CASE injecting /\ kind # "poll"
    <3>1. /\ pump' = NoFrame /\ accepted' = Append(accepted, f)
          /\ heldController' = Append(heldController, f)
      BY <1>1, <2>6 DEF NoteControllerFrame
    <3>2. delivered \o inj.batch \in Seq(CtlFrame)
      BY <1>t
    <3> HIDE DEF f
    <3>3. Append(accepted, f) = delivered \o inj.batch \o Append(heldController, f)
      <4> DEFINE d == delivered \o inj.batch
      <4>1. d \in Seq(CtlFrame) /\ accepted = d \o heldController
        BY <2>3, <3>2
      <4> HIDE DEF d
      <4>2. Append(d \o heldController, f) = d \o Append(heldController, f)
        <5>1. f \in CtlFrame /\ heldController \in Seq(CtlFrame) /\ d \in Seq(CtlFrame)
          BY <2>1, <4>1, <1>t
        <5>2. \A x \in CtlFrame, s, t \in Seq(CtlFrame) : Append(s \o t, x) = s \o Append(t, x)
          OBVIOUS
        <5>3. QED
          BY <5>1, <5>2
      <4>3. QED
        BY <4>1, <4>2 DEF d
    <3>4. QED
      BY <2>2, <3>1, <3>3, <1>t, ConcatEmptySeq DEF FramesInOrder, Pending
  <2>7. QED
    BY <2>4, <2>5, <2>6
<1>2. CASE PumpWrite
  <2>1. /\ pump \in CtlFrame /\ pump # NoFrame /\ pump' = NoFrame
        /\ delivered' = Append(delivered, pump)
        /\ UNCHANGED <<inj, heldController, accepted>>
    BY <1>2, <1>t DEF PumpWrite, muxVars
  <2>2. heldController = <<>> /\ inj.batch = <<>>
    BY <2>1 DEF OrderInv
  <2>3. delivered \o <<pump>> \o <<>> \o <<>> = Append(delivered, pump) \o <<>> \o <<>> \o <<>>
    BY <2>1, <1>t
  <2>4. QED
    BY <2>1, <2>2, <2>3 DEF FramesInOrder, Pending
<1>3. CASE ReleaseInjection
  <2>1. /\ heldController' = <<>> /\ UNCHANGED <<pump, delivered, accepted>>
        /\ \/ inj' = [inj EXCEPT !.pc = "flush", !.batch = heldController]
           \/ heldController = <<>> /\ inj' = IdleInj
    BY <1>3 DEF ReleaseInjection
  <2>2. inj.batch = <<>>
    BY <1>3 DEF ReleaseInjection, OrderInv
  <2>3. inj'.batch = heldController
    <3>1. CASE inj' = [inj EXCEPT !.pc = "flush", !.batch = heldController]
      BY <3>1 DEF MuxTypeOK, InjTypeOK
    <3>2. CASE heldController = <<>> /\ inj' = IdleInj
      BY <3>2 DEF IdleInj
    <3>3. QED
      BY <2>1, <3>1, <3>2
  <2>4. Pending \in Seq(CtlFrame) /\ Pending' = Pending
    BY <2>1, <1>t DEF Pending
  <2>5. delivered \o Pending \in Seq(CtlFrame)
    BY <2>4, <1>t
  <2>6. delivered \o Pending \o <<>> \o heldController = delivered \o Pending \o heldController \o <<>>
    BY <2>5, <1>t, ConcatEmptySeq
  <2>7. QED
    BY <2>1, <2>2, <2>3, <2>4, <2>6 DEF FramesInOrder
<1>4. CASE FlushHeld
  <2>1. UNCHANGED <<pump, heldController, accepted>>
    BY <1>4 DEF FlushHeld, muxVars
  <2>2. CASE inj.batch = <<>>
    <3>1. delivered' = delivered /\ inj'.batch = inj.batch
      BY <1>4, <2>2 DEF FlushHeld, MuxTypeOK, InjTypeOK
    <3>2. QED
      BY <2>1, <3>1 DEF FramesInOrder, Pending
  <2>3. CASE inj.batch # <<>>
    <3>1. delivered' = Append(delivered, Head(inj.batch)) /\ inj'.batch = Tail(inj.batch)
      BY <1>4, <2>3 DEF FlushHeld, MuxTypeOK, InjTypeOK
    <3>2. Pending = <<>> /\ Pending' = <<>>
      BY <2>1, <2>3 DEF OrderInv, Pending
    <3>3. Append(delivered, Head(inj.batch)) \o Tail(inj.batch) = delivered \o inj.batch
      BY <2>3, <1>t, MoveHead
    <3>4. Append(delivered, Head(inj.batch)) \in Seq(CtlFrame)
      BY <2>3, <1>t, HeadTailProperties
    <3>5. QED
      BY <2>1, <3>1, <3>2, <3>3, <3>4, <1>t, ConcatEmptySeq DEF FramesInOrder
  <2>4. QED
    BY <2>2, <2>3
<1>5. CASE UNCHANGED <<pump, heldController, accepted, delivered>> /\ inj'.batch = inj.batch
  BY <1>5 DEF FramesInOrder, Pending
<1>6. CASE \/ StartCachedDownload \/ FinishCachedDownload \/ MachineStep
           \/ RouteMachineFrame \/ UNCHANGED sessionVars
  BY <1>5, <1>6 DEF StartCachedDownload, FinishCachedDownload, MachineStep,
                    RouteMachineFrame, sessionVars, muxVars
<1>7. CASE \/ (\E lease \in BOOLEAN : Acquire(lease))
           \/ (\E kind \in {"poll", "cmd"} : InjectCheck(kind)) \/ NoteInjectedFrames
           \/ InjectWrite \/ InjectRead \/ InjectReceive \/ InjectDone
  <2>1. UNCHANGED <<pump, heldController, accepted, delivered>>
    BY <1>7 DEF Acquire, InjectCheck, NoteInjectedFrames, InjectWrite, InjectRead,
                InjectReceive, InjectDone, muxVars
  <2>2. inj'.batch = inj.batch
    BY <1>7 DEF Acquire, InjectCheck, NoteInjectedFrames, InjectWrite, InjectRead,
                InjectReceive, InjectDone, MuxTypeOK, InjTypeOK
  <2>3. QED
    BY <1>5, <2>1, <2>2
<1>8. QED
  BY <1>1, <1>2, <1>3, <1>4, <1>6, <1>7 DEF MuxNext, PumpStep, InjStep

-----------------------------------------------------------------------------
(* Cleanness of the windows.  That the replies of a managed operation are   *)
(* whole takes that its channel closes only by overflow; that no window     *)
(* opens inside a transfer takes that controllerMidXfer covers every        *)
(* transfer the controller is in, served by the machine or from the cache.  *)

\* What a managed window buffers and has read stays whole, or it has overflowed.
LEMMA RepliesStep ==
    MuxTypeOK /\ OrderInv /\ RepliesInv /\ [MuxNext]_sessionVars => RepliesInv'
<1> SUFFICES ASSUME MuxTypeOK, OrderInv, RepliesInv, [MuxNext]_sessionVars PROVE RepliesInv'
  OBVIOUS
<1>t. /\ chan \in Seq(Nat) /\ diverted \in Nat /\ lastRead \in Nat
      /\ injectCh \in {"nil", "open"} /\ injectOverflow \in BOOLEAN
      /\ injecting \in BOOLEAN /\ interactive \in BOOLEAN
  BY DEF MuxTypeOK, ChanTypeOK, WindowTypeOK
<1>1. CASE UNCHANGED <<injecting, interactive, injectCh, injectOverflow, chan, diverted,
                       lastRead>>
  BY <1>1 DEF RepliesInv, ManagedRepliesComplete
<1>2. CASE /\ AbortInteractive
           /\ UNCHANGED <<injecting, interactive, injectOverflow, chan, diverted, lastRead>>
  <2>1. CASE UNCHANGED injectCh
    BY <1>1, <1>2, <2>1
  <2>2. CASE interactive
    BY <1>2, <2>2 DEF RepliesInv, ManagedRepliesComplete
  <2>3. QED
    BY <1>2, <2>1, <2>2 DEF AbortInteractive
<1>3. CASE PumpStep
  <2>1. UNCHANGED <<injecting, interactive, injectOverflow, chan, diverted, lastRead>>
    BY <1>3 DEF PumpStep, NoteControllerFrame, StartCachedDownload, FinishCachedDownload
  <2>2. AbortInteractive \/ UNCHANGED injectCh
    BY <1>3 DEF PumpStep, NoteControllerFrame, StartCachedDownload, FinishCachedDownload
  <2>3. QED
    BY <1>1, <1>2, <2>1, <2>2
<1>4. ASSUME NEW lease \in BOOLEAN, Acquire(lease) PROVE RepliesInv'
  <2>1. /\ chan' = <<>> /\ diverted' = 0 /\ lastRead' = 0
        /\ injectCh' = "open" /\ injectOverflow' = FALSE
    BY <1>4 DEF Acquire
  <2>2. Len(chan') = 0
    BY <2>1
  <2>3. QED
    BY <2>1, <2>2 DEF RepliesInv, ManagedRepliesComplete
<1>5. CASE InjectReceive
  <2>1. UNCHANGED <<injecting, interactive, injectCh, injectOverflow, diverted>>
    BY <1>5 DEF InjectReceive
  <2>2. CASE UNCHANGED <<chan, lastRead>>
    BY <1>1, <2>1, <2>2
  <2>3. CASE chan # <<>> /\ lastRead' = Head(chan) /\ chan' = Tail(chan)
    <3>1. /\ Len(chan) \in Nat \ {0} /\ Len(chan') = Len(chan) - 1 /\ lastRead' = chan[1]
          /\ \A i \in 1 .. Len(chan') : chan'[i] = chan[i + 1]
      BY <1>t, <2>3, HeadTailProperties
    <3>2. SUFFICES ASSUME injecting, ~interactive PROVE RepliesInv'
      BY <2>1 DEF RepliesInv, ManagedRepliesComplete
    <3>3. \A i \in 1 .. Len(chan) : chan[i] = lastRead + i
      BY <3>2 DEF RepliesInv, ManagedRepliesComplete
    <3>4. lastRead' = lastRead + 1
      BY <1>t, <3>1, <3>3
    <3>5. \A i \in 1 .. Len(chan') : chan'[i] = lastRead' + i
      BY <1>t, <3>1, <3>3, <3>4
    <3>6. lastRead' + Len(chan') = lastRead + Len(chan)
      BY <1>t, <3>1, <3>4
    <3>7. QED
      BY <2>1, <3>2, <3>5, <3>6 DEF RepliesInv, ManagedRepliesComplete
  <2>4. QED
    BY <1>5, <2>2, <2>3 DEF InjectReceive
<1>6. CASE ReleaseInjection
  <2>1. CASE injecting' = FALSE
    BY <2>1 DEF RepliesInv, ManagedRepliesComplete
  <2>2. CASE UNCHANGED <<injecting, interactive, injectCh, chan>>
    BY <1>1, <1>6, <2>2 DEF ReleaseInjection
  <2>3. QED
    BY <1>6, <2>1, <2>2 DEF ReleaseInjection
<1>7. CASE RouteMachineFrame
  <2>1. UNCHANGED <<injecting, interactive, lastRead>>
    BY <1>7 DEF RouteMachineFrame
  <2>2. CASE UNCHANGED <<diverted, chan, injectCh, injectOverflow>>
    BY <1>1, <2>1, <2>2
  <2>3. CASE DeliverInject
    <3>1. SUFFICES ASSUME injecting, ~interactive PROVE RepliesInv'
      BY <2>1 DEF RepliesInv, ManagedRepliesComplete
    <3>2. /\ \A i \in 1 .. Len(chan) : chan[i] = lastRead + i
          /\ diverted = lastRead + Len(chan) \/ injectOverflow
          /\ injectCh = "nil" <=> injectOverflow
      BY <3>1 DEF RepliesInv, ManagedRepliesComplete
    <3>3. CASE chan' = chan /\ injectOverflow' /\ injectCh' = "nil"
      BY <2>1, <3>2, <3>3 DEF RepliesInv, ManagedRepliesComplete
    <3>4. CASE /\ injectCh = "open" /\ chan' = Append(chan, diverted + 1)
               /\ UNCHANGED <<injectCh, injectOverflow>>
      <4>1. /\ Len(chan') = Len(chan) + 1 /\ Len(chan) \in Nat
            /\ chan'[Len(chan) + 1] = diverted + 1
            /\ \A i \in 1 .. Len(chan) : chan'[i] = chan[i]
        BY <1>t, <3>4, AppendProperties
      <4>2. diverted = lastRead + Len(chan) /\ diverted' = diverted + 1
        BY <2>3, <3>2, <3>4 DEF DeliverInject
      <4>3. chan'[Len(chan) + 1] = lastRead + (Len(chan) + 1)
        BY <1>t, <4>1, <4>2
      <4>4. \A i \in 1 .. Len(chan') : chan'[i] = lastRead + i
        <5>1. \A i \in 1 .. Len(chan') : i \in 1 .. Len(chan) \/ i = Len(chan) + 1
          BY <4>1
        <5>2. QED
          BY <3>2, <4>1, <4>3, <5>1
      <4>5. diverted' = lastRead + Len(chan')
        BY <1>t, <4>1, <4>2
      <4>6. QED
        BY <2>1, <3>2, <3>4, <4>4, <4>5 DEF RepliesInv, ManagedRepliesComplete
    <3>5. QED
      BY <1>t, <2>3, <3>1, <3>2, <3>3, <3>4 DEF DeliverInject
  <2>4. QED
    BY <1>7, <2>2, <2>3 DEF RouteMachineFrame
<1>8. CASE \/ (\E kind \in {"poll", "cmd"} : InjectCheck(kind)) \/ NoteInjectedFrames
           \/ InjectRead \/ InjectDone \/ InjectWrite
           \/ FlushHeld \/ PumpWrite \/ MachineStep \/ UNCHANGED sessionVars
  BY <1>1, <1>8 DEF InjectCheck, NoteInjectedFrames, InjectRead, InjectDone, InjectWrite,
           FlushHeld, PumpWrite, MachineStep, sessionVars, muxVars
<1>9. QED
  BY <1>3, <1>4, <1>5, <1>6, <1>7, <1>8 DEF MuxNext, InjStep

\* The flag of the mux covers every transfer of the controller.
LEMMA XferStep == XferInv /\ [MuxNext]_sessionVars => XferInv'
<1> SUFFICES ASSUME XferInv, [MuxNext]_sessionVars PROVE XferInv'
  OBVIOUS
<1>1. ASSUME NEW kind \in Kinds, NoteControllerFrame(kind) PROVE XferInv'
  <2>1. cached' = cached /\ Sensible(kind) /\ ~(cached /\ kind = "end")
    BY <1>1 DEF NoteControllerFrame
  <2>2. CASE kind \in {"upload", "download"}
    <3>1. controllerMidXfer' = TRUE /\ xfer = "none"
      BY <1>1, <2>1, <2>2 DEF NoteControllerFrame, Sensible
    <3>2. QED
      BY <2>1, <3>1 DEF XferInv
  <2>3. CASE kind = "end"
    <3>1. xfer' = "none" /\ ~cached
      BY <1>1, <2>1, <2>3 DEF NoteControllerFrame
    <3>2. QED
      BY <2>1, <3>1 DEF XferInv
  <2>4. CASE kind \in {"poll", "cmd"}
    <3>1. UNCHANGED <<controllerMidXfer, xfer>>
      BY <1>1, <2>4 DEF NoteControllerFrame
    <3>2. QED
      BY <2>1, <3>1 DEF XferInv
  <2>5. QED
    BY <2>2, <2>3, <2>4 DEF Kinds
<1>2. CASE StartCachedDownload \/ FinishCachedDownload
  BY <1>2 DEF StartCachedDownload, FinishCachedDownload, XferInv
<1>3. CASE RouteMachineFrame
  <2>1. UNCHANGED <<controllerMidXfer, cached>>
    BY <1>3 DEF RouteMachineFrame
  <2>2. xfer' = xfer \/ (xfer = "upload" /\ xfer' = "none")
    BY <1>3 DEF RouteMachineFrame
  <2>3. QED
    BY <2>1, <2>2 DEF XferInv
<1>4. CASE UNCHANGED <<xfer, controllerMidXfer, cached>>
  BY <1>4 DEF XferInv
<1>5. CASE InjStep \/ PumpWrite \/ MachineStep \/ UNCHANGED sessionVars
  BY <1>4, <1>5 DEF InjStep, Acquire, InjectCheck, NoteInjectedFrames, InjectWrite,
     InjectRead, InjectReceive, InjectDone, ReleaseInjection, FlushHeld, PumpWrite,
     MachineStep, sessionVars, muxVars
<1>6. QED
  BY <1>1, <1>2, <1>3, <1>5 DEF MuxNext, PumpStep

\* Only an acquisition opens a window, and it refuses during a transfer.
LEMMA WindowOpens ==
    MuxTypeOK /\ XferInv /\ [MuxNext]_sessionVars => (~injecting /\ injecting' => xfer = "none")
<1> SUFFICES ASSUME MuxTypeOK, XferInv, [MuxNext]_sessionVars, ~injecting, injecting' PROVE xfer = "none"
  OBVIOUS
<1>1. CASE \E lease \in BOOLEAN : Acquire(lease)
  BY <1>1 DEF Acquire, XferInv
<1>2. CASE UNCHANGED injecting \/ injecting' = FALSE
  BY <1>2
<1>3. UNCHANGED injecting \/ injecting' = FALSE \/ (\E lease \in BOOLEAN : Acquire(lease))
  BY DEF MuxNext, PumpStep, NoteControllerFrame, StartCachedDownload, FinishCachedDownload,
     InjStep, InjectCheck, NoteInjectedFrames, InjectWrite, InjectRead, InjectReceive,
     InjectDone, ReleaseInjection, FlushHeld, PumpWrite, MachineStep, RouteMachineFrame,
     sessionVars, muxVars
<1>4. QED
  BY <1>1, <1>2, <1>3

-----------------------------------------------------------------------------
\* A fresh mux, before the pumps start.
LEMMA MuxInitInv == MuxInit => MuxTypeOK /\ OrderInv /\ FramesInOrder /\ WindowInv
<1> SUFFICES ASSUME MuxInit PROVE MuxTypeOK /\ OrderInv /\ FramesInOrder /\ WindowInv
  OBVIOUS
<1>1. WindowTypeOK
  <2>1. injectStatusPolls \in Nat /\ sent \in 0 .. MaxFrames /\ written \in 0 .. MaxWrites
    BY BoundsAssumption DEF MuxInit
  <2>2. QED
    BY <2>1 DEF MuxInit, WindowTypeOK
<1>2. InjTypeOK
  BY DEF MuxInit, InjTypeOK, IdleInj, InjPC
<1>3. FrameTypeOK /\ WireTypeOK /\ ChanTypeOK
  BY DEF MuxInit, FrameTypeOK, WireTypeOK, ChanTypeOK
<1>4. OrderInv
  BY DEF MuxInit, OrderInv, IdleInj
<1>5. FramesInOrder
  BY DEF MuxInit, FramesInOrder, Pending, IdleInj
<1>6. WindowInv
  BY DEF MuxInit, WindowInv, RepliesInv, XferInv, ManagedRepliesComplete
<1>7. QED
  BY <1>1, <1>2, <1>3, <1>4, <1>5, <1>6 DEF MuxTypeOK

\* The mux, the pumps and the injected operation keep their types.
THEOREM MuxTypeCorrect == MuxSpec => []MuxTypeOK
  BY MuxInitInv, MuxTypeStep, PTL DEF MuxSpec

\* Injection windows and jog leases never lose, duplicate or reorder a frame the
\* controller sends to the machine, however long the flush takes and whatever
\* arrives meanwhile (releaseInjection, noteControllerFrame).
THEOREM OrderPreserved == MuxSpec => []FramesInOrder
  BY MuxInitInv, MuxTypeStep, OrderStep, FramesStep, PTL DEF MuxSpec

\* A managed operation never takes a truncated answer for a whole one, and no
\* window or lease opens while the controller is inside a file transfer, for
\* any channel capacity (deliverInjectLocked, AcquireInjection).
THEOREM WindowsStayClean == MuxSpec => WindowsAreClean
<1>1. WindowInv /\ MuxTypeOK /\ OrderInv /\ [MuxNext]_sessionVars => WindowInv'
  BY RepliesStep, XferStep DEF WindowInv
<1>2. MuxSpec => [](MuxTypeOK /\ OrderInv /\ WindowInv)
  BY <1>1, MuxInitInv, MuxTypeStep, OrderStep, PTL DEF MuxSpec
<1>3. WindowInv => ManagedRepliesComplete
  BY DEF WindowInv, RepliesInv
<1>4. MuxTypeOK /\ WindowInv /\ [MuxNext]_sessionVars => [~injecting /\ injecting' => xfer = "none"]_sessionVars
  BY WindowOpens DEF WindowInv
<1>5. QED
  BY <1>2, <1>3, <1>4, PTL DEF MuxSpec, WindowsAreClean, NoWindowMidTransfer
=============================================================================
