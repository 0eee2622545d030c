------------------------------ MODULE RelayMux ------------------------------
(***************************************************************************)
(* The injection multiplexer of one relay session (internal/relay/mux.go)   *)
(* with the two pumps that drive it (relay.go): the controller's frames and *)
(* the frames of one injected proxy operation share a machine transport.    *)
(*                                                                          *)
(* Actors: the controller-to-machine pump, the machine-to-controller pump,  *)
(* the injected operation (the arbiter's opMu admits one at a time) and the *)
(* machine.  A step is one critical section of mux.mu or one I/O outside    *)
(* it.  Frames are numbered; their contents are abstracted to a kind.       *)
(***************************************************************************)
EXTENDS Naturals, Sequences

CONSTANTS
    MaxFrames,    \* bound: frames the controller sends
    MaxWrites,    \* bound: frames the injected operations write
    ChanCap       \* capacity of injectCh (256, or 128 for a jog lease)

ASSUME BoundsAssumption ==
    /\ MaxFrames \in Nat
    /\ MaxWrites \in Nat
    /\ ChanCap \in Nat \ {0}

\* What a controller frame is to the mux.  "end" is FILE_END or FILE_CAN.
Kinds == {"poll", "cmd", "upload", "download", "end"}

CtlFrame == [src : {"ctl"}, n : 1 .. MaxFrames, kind : Kinds]
InjFrame == [src : {"inj"}, n : 1 .. MaxWrites, kind : {"poll", "cmd"}]
Reply == [src : {"ctl", "inj"}, kind : {"status", "info", "fileEnd"}]

VARIABLES
    \* the mux
    injecting, interactive, injectOverflow, injectStatusPolls,
    injectCh,          \* "nil", or "open" (what m.injectCh holds)
    chan,              \* numbers of the frames buffered in the window's channel
    abortCh,           \* "nil" or "open"; closing it also forgets it
    aborted,           \* the lease's abort channel has been closed
    heldController, controllerMidXfer,
    \* the pumps and the injected operation
    pump,              \* a frame the controller pump is about to write
    cached,            \* the pump is serving a download from the local cache
    inj,               \* where the injected operation is, and what it carries
    \* the wires and the machine
    toMachine, fromMachine,
    \* observers: history that only the properties read
    sent,              \* controller frames read by the pump so far
    written,           \* injected frames written so far
    accepted,          \* controller frames meant for the machine, in order
    delivered,         \* controller frames written to the machine, in order
    xfer,              \* the controller's own view of its file transfer
    diverted,          \* machine frames routed to the window so far
    lastRead           \* the number of the last one the operation read

muxVars == <<injecting, interactive, injectOverflow, injectStatusPolls,
             injectCh, chan, abortCh, aborted, heldController,
             controllerMidXfer>>
sessionVars == <<muxVars, pump, cached, inj, toMachine, fromMachine, sent, written,
          accepted, delivered, xfer, diverted, lastRead>>

InjPC == {"idle", "use", "note", "write", "read", "end", "flush"}
NoFrame == [src |-> "none", n |-> 0, kind |-> "none"]

WindowTypeOK ==
    /\ injecting \in BOOLEAN /\ interactive \in BOOLEAN
    /\ injectOverflow \in BOOLEAN
    /\ injectStatusPolls \in Nat
    /\ injectCh \in {"nil", "open"}
    /\ abortCh \in {"nil", "open"} /\ aborted \in BOOLEAN
    /\ controllerMidXfer \in BOOLEAN
    /\ cached \in BOOLEAN
    /\ sent \in 0 .. MaxFrames /\ written \in 0 .. MaxWrites
    /\ xfer \in {"none", "upload", "download", "cached"}

InjTypeOK ==
    /\ inj \in [pc : InjPC, frame : InjFrame \cup {NoFrame}, batch : Seq(CtlFrame)]
    /\ inj.pc \in {"note", "write"} => inj.frame \in InjFrame /\ written < MaxWrites

FrameTypeOK ==
    /\ heldController \in Seq(CtlFrame)
    /\ pump \in CtlFrame \cup {NoFrame}
    /\ accepted \in Seq(CtlFrame) /\ delivered \in Seq(CtlFrame)

WireTypeOK ==
    /\ toMachine \in Seq(CtlFrame \cup InjFrame)
    /\ fromMachine \in Seq(Reply)

ChanTypeOK ==
    /\ chan \in Seq(Nat)
    /\ diverted \in Nat /\ lastRead \in Nat

\* MuxTypeOK: every variable has the shape of the field or wire it models.
MuxTypeOK == WindowTypeOK /\ InjTypeOK /\ FrameTypeOK /\ WireTypeOK /\ ChanTypeOK

IdleInj == [pc |-> "idle", frame |-> NoFrame, batch |-> <<>>]

MuxInit ==
    /\ injecting = FALSE /\ interactive = FALSE
    /\ injectOverflow = FALSE /\ injectStatusPolls = 0
    /\ injectCh = "nil" /\ chan = <<>>
    /\ abortCh = "nil" /\ aborted = FALSE
    /\ heldController = <<>>
    /\ controllerMidXfer = FALSE
    /\ pump = NoFrame /\ cached = FALSE
    /\ inj = IdleInj
    /\ toMachine = <<>> /\ fromMachine = <<>>
    /\ sent = 0 /\ written = 0
    /\ accepted = <<>> /\ delivered = <<>>
    /\ xfer = "none"
    /\ diverted = 0 /\ lastRead = 0

-----------------------------------------------------------------------------
(* pumpControllerToMachine                                                  *)

\* A controller sends one file transfer at a time and ends only a download.
Sensible(kind) ==
    CASE kind \in {"upload", "download"} -> xfer = "none"
      [] kind = "end" -> xfer \in {"download", "cached"}
      [] OTHER -> TRUE

\* Mutant: a controller frame is held without telling the lease.
AbortNobody == UNCHANGED <<abortCh, aborted, injectCh>>

\* What abortInteractiveLocked does to the abort channel and to injectCh.
AbortInteractive ==
    \/ /\ interactive /\ abortCh = "open"
       /\ abortCh' = "nil" /\ aborted' = TRUE /\ injectCh' = "nil"
    \/ /\ ~interactive \/ abortCh = "nil"
       /\ UNCHANGED <<abortCh, aborted, injectCh>>

\* noteControllerFrame: track the transfer, then forward (the pump writes the
\* frame after mux.mu is released), answer, or hold.
NoteControllerFrame(kind) ==
    LET f == [src |-> "ctl", n |-> sent + 1, kind |-> kind]
        hold == injecting /\ kind # "poll"
    IN
    /\ pump = NoFrame
    /\ sent < MaxFrames
    /\ Sensible(kind)
    /\ ~(cached /\ kind = "end")
    /\ sent' = sent + 1
    /\ controllerMidXfer' = CASE kind \in {"upload", "download"} -> TRUE
                              [] kind = "end" -> FALSE
                              [] OTHER -> controllerMidXfer
    /\ xfer' = CASE kind \in {"upload", "download"} -> kind
                 [] kind = "end" -> "none"
                 [] OTHER -> xfer
    /\ pump' = IF injecting THEN NoFrame ELSE f
    /\ heldController' = IF hold THEN Append(heldController, f) ELSE heldController
    /\ accepted' = IF injecting /\ kind = "poll" THEN accepted ELSE Append(accepted, f)
    /\ IF hold THEN AbortInteractive ELSE UNCHANGED <<abortCh, aborted, injectCh>>
    /\ UNCHANGED <<injecting, interactive, injectOverflow, injectStatusPolls, chan,
                   cached, inj, toMachine, fromMachine, written,
                   delivered, diverted, lastRead>>

\* machine.Write of a forwarded frame.
PumpWrite ==
    /\ pump # NoFrame
    /\ toMachine' = Append(toMachine, pump)
    /\ delivered' = Append(delivered, pump)
    /\ pump' = NoFrame
    /\ UNCHANGED <<muxVars, cached, inj, fromMachine, sent, written, accepted,
                   xfer, diverted, lastRead>>

\* tryStartCachedDownload: a download whose path is in the cache is served
\* locally, and marks the controller busy as a real transfer does.
StartCachedDownload ==
    /\ pump = NoFrame
    /\ sent < MaxFrames
    /\ Sensible("download")
    /\ ~controllerMidXfer
    /\ sent' = sent + 1
    /\ controllerMidXfer' = TRUE
    /\ cached' = TRUE
    /\ xfer' = "cached"
    /\ AbortInteractive
    /\ UNCHANGED <<injecting, interactive, injectOverflow, injectStatusPolls, chan,
                   heldController, pump, inj, toMachine, fromMachine,
                   written, accepted, delivered, diverted, lastRead>>

\* The controller ends or cancels the cached download: nothing is forwarded.
FinishCachedDownload ==
    /\ pump = NoFrame
    /\ sent < MaxFrames
    /\ cached
    /\ sent' = sent + 1
    /\ controllerMidXfer' = FALSE
    /\ cached' = FALSE
    /\ xfer' = "none"
    /\ UNCHANGED <<injecting, interactive, injectOverflow, injectStatusPolls,
                   injectCh, chan, abortCh, aborted, heldController,
                   pump, inj, toMachine, fromMachine, written, accepted,
                   delivered, diverted, lastRead>>

-----------------------------------------------------------------------------
(* The injected operation: AcquireInjection / AcquireInteractive,           *)
(* injectTransport.Write and Read, releaseInjection                         *)

\* Mutant: a window may open in the middle of a controller transfer.
AcquireMidTransfer(lease) ==
    /\ inj.pc = "idle"
    /\ ~injecting
    /\ injecting' = TRUE
    /\ interactive' = lease
    /\ injectCh' = "open" /\ chan' = <<>>
    /\ injectOverflow' = FALSE
    /\ abortCh' = IF lease THEN "open" ELSE "nil"
    /\ aborted' = FALSE
    /\ inj' = [inj EXCEPT !.pc = "use"]
    /\ diverted' = 0 /\ lastRead' = 0
    /\ UNCHANGED <<injectStatusPolls, heldController, controllerMidXfer,
                   pump, cached, toMachine, fromMachine, sent, written, accepted,
                   delivered, xfer>>

Acquire(lease) ==
    /\ inj.pc = "idle"
    /\ ~injecting
    /\ ~controllerMidXfer
    /\ injecting' = TRUE
    /\ interactive' = lease
    /\ injectCh' = "open" /\ chan' = <<>>
    /\ injectOverflow' = FALSE
    /\ abortCh' = IF lease THEN "open" ELSE "nil"
    /\ aborted' = FALSE
    /\ inj' = [inj EXCEPT !.pc = "use"]
    /\ diverted' = 0 /\ lastRead' = 0
    /\ UNCHANGED <<injectStatusPolls, heldController, controllerMidXfer, pump, cached, toMachine, fromMachine, sent, written, accepted,
                   delivered, xfer>>

\* injectTransport.Write: the window must be usable ...
InjectCheck(kind) ==
    /\ inj.pc = "use"
    /\ written < MaxWrites
    /\ IF injectOverflow \/ ~injecting \/ (interactive /\ injectCh = "nil")
       THEN inj' = [inj EXCEPT !.pc = "end"]
       ELSE inj' = [inj EXCEPT !.pc = "note",
                               !.frame = [src |-> "inj", n |-> written + 1, kind |-> kind]]
    /\ UNCHANGED <<muxVars, pump, cached, toMachine, fromMachine, sent, written,
                   accepted, delivered, xfer, diverted, lastRead>>

\* ... status polls of a managed window are counted ...
NoteInjectedFrames ==
    /\ inj.pc = "note"
    /\ inj' = [inj EXCEPT !.pc = "write"]
    /\ injectStatusPolls' =
         IF inj.frame.kind = "poll" /\ injecting /\ ~interactive /\ injectCh # "nil"
         THEN injectStatusPolls + 1 ELSE injectStatusPolls
    /\ UNCHANGED <<injecting, interactive, injectOverflow, injectCh, chan, abortCh,
                   aborted, heldController, controllerMidXfer, pump,
                   cached, toMachine, fromMachine, sent, written, accepted,
                   delivered, xfer, diverted, lastRead>>

\* ... and the frame goes to the machine.
InjectWrite ==
    /\ inj.pc = "write"
    /\ toMachine' = Append(toMachine, inj.frame)
    /\ written' = written + 1
    /\ inj' = [inj EXCEPT !.pc = "use", !.frame = NoFrame]
    /\ UNCHANGED <<muxVars, pump, cached, fromMachine, sent, accepted, delivered,
                   xfer, diverted, lastRead>>

\* injectTransport.Read takes the channel under the lock and waits on it after:
\* a channel closed in between still yields what it buffered.
InjectRead ==
    /\ inj.pc = "use"
    /\ inj' = [inj EXCEPT !.pc = IF injectCh = "nil" THEN "end" ELSE "read"]
    /\ UNCHANGED <<muxVars, pump, cached, toMachine, fromMachine, sent, written,
                   accepted, delivered, xfer, diverted, lastRead>>

InjectReceive ==
    /\ inj.pc = "read"
    /\ \/ /\ chan # <<>>
          /\ lastRead' = Head(chan)
          /\ chan' = Tail(chan)
          /\ inj' = [inj EXCEPT !.pc = "use"]
       \/ /\ chan = <<>> /\ injectCh = "nil"               \* closed and drained
          /\ inj' = [inj EXCEPT !.pc = "end"]
          /\ UNCHANGED <<chan, lastRead>>
    /\ UNCHANGED <<injecting, interactive, injectOverflow, injectStatusPolls,
                   injectCh, abortCh, aborted, heldController, controllerMidXfer, pump, cached, toMachine, fromMachine, sent, written,
                   accepted, delivered, xfer, diverted>>

\* The operation is over: it has what it wants, or its read deadline passed.
\* A jog lease goes on for as long as its user likes.
InjectDone ==
    /\ inj.pc \in {"use", "read"}
    /\ inj' = [inj EXCEPT !.pc = "end"]
    /\ UNCHANGED <<muxVars, pump, cached, toMachine, fromMachine, sent, written,
                   accepted, delivered, xfer, diverted, lastRead>>

\* Mutant: the window closes when the flush starts, not when it is done.
ReleaseInjectionEarly ==
    /\ inj.pc = "end"
    /\ heldController' = <<>>
    /\ injecting' = FALSE /\ interactive' = FALSE
    /\ injectStatusPolls' = 0
    /\ injectCh' = "nil" /\ chan' = <<>>
    /\ abortCh' = "nil" /\ aborted' = IF abortCh = "open" THEN TRUE ELSE aborted
    /\ inj' = IF heldController = <<>> THEN IdleInj
              ELSE [inj EXCEPT !.pc = "flush", !.batch = heldController]
    /\ UNCHANGED <<injectOverflow, controllerMidXfer, pump, cached, toMachine,
                   fromMachine, sent, written, accepted, delivered, xfer,
                   diverted, lastRead>>

\* One turn of releaseInjection's loop: take the held frames, or close the
\* window in the critical section that found none.
ReleaseInjection ==
    /\ inj.pc = "end"
    /\ heldController' = <<>>
    /\ \/ /\ heldController # <<>>
          /\ inj' = [inj EXCEPT !.pc = "flush", !.batch = heldController]
          /\ UNCHANGED <<injecting, interactive, injectStatusPolls, injectCh,
                         chan, abortCh, aborted>>
       \/ /\ heldController = <<>>
          /\ injecting' = FALSE /\ interactive' = FALSE
          /\ injectStatusPolls' = 0
          /\ injectCh' = "nil" /\ chan' = <<>>
          /\ abortCh' = "nil" /\ aborted' = IF abortCh = "open" THEN TRUE ELSE aborted
          /\ inj' = IdleInj
    /\ UNCHANGED <<injectOverflow, controllerMidXfer, pump, cached,
                   toMachine, fromMachine, sent, written, accepted, delivered,
                   xfer, diverted, lastRead>>

\* machine.Write of the batch, frame by frame, then the loop again.
FlushHeld ==
    /\ inj.pc = "flush"
    /\ \/ /\ inj.batch = <<>>
          /\ inj' = [inj EXCEPT !.pc = "end"]
          /\ UNCHANGED <<toMachine, delivered>>
       \/ /\ inj.batch # <<>>
          /\ toMachine' = Append(toMachine, Head(inj.batch))
          /\ delivered' = Append(delivered, Head(inj.batch))
          /\ inj' = [inj EXCEPT !.batch = Tail(inj.batch)]
    /\ UNCHANGED <<muxVars, pump, cached, fromMachine, sent, written, accepted,
                   xfer, diverted, lastRead>>

-----------------------------------------------------------------------------
(* The machine and pumpMachineToController                                  *)

\* External: the firmware answers frames in order.  A poll gets a status
\* report, an upload ends with the FILE_END the firmware sends (as client.Upload
\* expects it), anything else gets one informational frame.
MachineStep ==
    /\ toMachine # <<>>
    /\ toMachine' = Tail(toMachine)
    /\ LET f == Head(toMachine)
           r == [src |-> f.src, kind |-> CASE f.kind = "poll" -> "status"
                                           [] f.kind = "upload" -> "fileEnd"
                                           [] OTHER -> "info"]
       IN fromMachine' = Append(fromMachine, r)
    /\ UNCHANGED <<muxVars, pump, cached, inj, sent, written, accepted, delivered,
                   xfer, diverted, lastRead>>

\* deliverInjectLocked: never blocks; a full channel errors a managed window
\* and loses the frame of a jog lease.
DeliverInject ==
    /\ diverted' = diverted + 1
    /\ \/ /\ injectCh = "nil" \/ (Len(chan) >= ChanCap /\ interactive)
          /\ UNCHANGED <<chan, injectCh, injectOverflow>>
       \/ /\ injectCh = "open" /\ Len(chan) < ChanCap
          /\ chan' = Append(chan, diverted + 1)
          /\ UNCHANGED <<injectCh, injectOverflow>>
       \/ /\ injectCh = "open" /\ Len(chan) >= ChanCap /\ ~interactive
          /\ injectOverflow' = TRUE /\ injectCh' = "nil" /\ UNCHANGED chan

\* Whether routeMachineFrame diverts a frame of this kind to the window.
Diverts(kind) ==
    injecting /\ (kind = "status" => interactive \/ injectStatusPolls > 0)

RouteMachineFrame ==
    /\ fromMachine # <<>>
    /\ fromMachine' = Tail(fromMachine)
    /\ LET f == Head(fromMachine) IN
       \/ /\ Diverts(f.kind)
          /\ DeliverInject
          /\ injectStatusPolls' = IF f.kind = "status" /\ ~interactive
                                  THEN injectStatusPolls - 1 ELSE injectStatusPolls
          /\ xfer' = xfer
       \/ /\ ~Diverts(f.kind)
          /\ xfer' = IF f.kind = "fileEnd" /\ xfer = "upload" THEN "none" ELSE xfer
          /\ UNCHANGED <<diverted, chan, injectCh, injectOverflow, injectStatusPolls>>
    /\ UNCHANGED <<injecting, interactive, abortCh, aborted, heldController,
                   controllerMidXfer, pump, cached, inj, toMachine, sent, written,
                   accepted, delivered, lastRead>>

-----------------------------------------------------------------------------
PumpStep ==
    \/ \E kind \in Kinds : NoteControllerFrame(kind)
    \/ StartCachedDownload \/ FinishCachedDownload

InjStep ==
    \/ \E lease \in BOOLEAN : Acquire(lease)
    \/ \E kind \in {"poll", "cmd"} : InjectCheck(kind)
    \/ NoteInjectedFrames \/ InjectWrite \/ InjectRead \/ InjectReceive
    \/ InjectDone \/ ReleaseInjection \/ FlushHeld

MuxNext == PumpStep \/ PumpWrite \/ InjStep \/ MachineStep \/ RouteMachineFrame

MuxSpec == MuxInit /\ [][MuxNext]_sessionVars
(***************************************************************************)
(* Fairness: a pump that has a frame to write writes it, an operation with  *)
(* a deadline ends, and a jog session leaves when its abort channel closes  *)
(* - but a lease nobody aborts may last for ever.                           *)
(***************************************************************************)
LeaseEnds == InjectDone /\ (interactive => aborted)

FairSpec ==
    /\ MuxSpec
    /\ WF_sessionVars(PumpWrite) /\ WF_sessionVars(NoteInjectedFrames) /\ WF_sessionVars(InjectWrite)
    /\ WF_sessionVars(LeaseEnds)
    /\ WF_sessionVars(ReleaseInjection) /\ WF_sessionVars(FlushHeld)

-----------------------------------------------------------------------------
(* Properties                                                               *)

Pending == IF pump = NoFrame THEN <<>> ELSE <<pump>>

(***************************************************************************)
(* FramesInOrder: the controller frames written to the machine, the one the *)
(* pump is about to write, the batch being flushed and the held frames are, *)
(* in this order, the frames the controller sent: releaseInjection neither  *)
(* loses, duplicates nor lets one overtake another (F8 in mux.go).          *)
(***************************************************************************)
FramesInOrder ==
    accepted = delivered \o Pending \o inj.batch \o heldController

(***************************************************************************)
(* OrderInv strengthens FramesInOrder to an inductive invariant: nothing is *)
(* held while no window is open or while the pump has a frame in hand.      *)
(***************************************************************************)
OrderInv ==
    /\ injecting <=> inj.pc # "idle"
    /\ ~injecting \/ pump # NoFrame => heldController = <<>> /\ inj.batch = <<>>
    /\ inj.pc # "flush" => inj.batch = <<>>

(***************************************************************************)
(* ManagedRepliesComplete: what a managed operation has read, followed by   *)
(* what its channel holds, is every frame diverted to it from the first on, *)
(* unless the overflow error is pending: no truncated listing can look like *)
(* a whole one (deliverInjectLocked).                                       *)
(***************************************************************************)
ManagedRepliesComplete ==
    (injecting /\ ~interactive) =>
        /\ \A i \in 1 .. Len(chan) : chan[i] = lastRead + i
        /\ diverted = lastRead + Len(chan) \/ injectOverflow

(***************************************************************************)
(* NoWindowMidTransfer: an injection window or a jog lease never opens      *)
(* while the controller is inside a file transfer, served by the machine or *)
(* from the cache (AcquireInjection's controllerMidXfer check).             *)
(***************************************************************************)
NoWindowMidTransfer == [][~injecting /\ injecting' => xfer = "none"]_sessionVars

(***************************************************************************)
(* WindowsAreClean: a window opens outside the transfers of the controller, *)
(* and what is read through it is whole (AcquireInjection,                  *)
(* deliverInjectLocked).                                                    *)
(***************************************************************************)
WindowsAreClean == []ManagedRepliesComplete /\ NoWindowMidTransfer

(***************************************************************************)
(* WindowInv strengthens WindowsAreClean to an inductive invariant: in a    *)
(* managed window only the overflow closes the channel, and whenever the    *)
(* controller sees itself inside a transfer the flag of the mux says so.    *)
(***************************************************************************)
RepliesInv ==
    /\ ManagedRepliesComplete
    /\ injecting /\ ~interactive => (injectCh = "nil" <=> injectOverflow)

XferInv ==
    /\ xfer # "none" => controllerMidXfer
    /\ cached => xfer = "cached"

WindowInv == RepliesInv /\ XferInv

(***************************************************************************)
(* FramesReachMachine: every controller frame is written in the end, also   *)
(* one sent under a jog lease that would otherwise never end (the abort in  *)
(* noteControllerFrame, the loop in releaseInjection).                      *)
(***************************************************************************)
FramesReachMachine ==
    \A n \in 1 .. MaxFrames : Len(accepted) >= n ~> Len(delivered) >= n

(***************************************************************************)
(* HeldWhileInjecting: "While an injection holds the mux:                   *)
(* controller->machine frames are buffered and replayed when it releases"   *)
(* (mux.go, the comment on type mux).                                       *)
(***************************************************************************)
HeldWhileInjecting ==
    [][delivered' # delivered => inj.pc \in {"idle", "end", "flush"}]_sessionVars

(***************************************************************************)
(* MidXferMeansTransfer: "controllerMidXfer is true while the controller is *)
(* inside a file transfer" (mux.go): the flag that refuses injections is    *)
(* not set when the controller has no transfer.                             *)
(***************************************************************************)
MidXferMeansTransfer == controllerMidXfer => xfer # "none"

\* The machine pump routes a non-status reply to a frame of this origin.
Routes(src) ==
    /\ Len(fromMachine') < Len(fromMachine)
    /\ Head(fromMachine).src = src
    /\ Head(fromMachine).kind # "status"

(***************************************************************************)
(* OnlyInjectedRepliesDiverted: "machine->controller frames produced by the *)
(* injected op are diverted to the injector" - and the replies to the       *)
(* controller's own commands are not.                                       *)
(***************************************************************************)
OnlyInjectedRepliesDiverted == [][Routes("ctl") => diverted' = diverted]_sessionVars

(***************************************************************************)
(* InjectedRepliesStayHidden: the replies of an injected operation "never   *)
(* reach the controller and corrupt its state" (mux.go).                    *)
(***************************************************************************)
InjectedRepliesStayHidden == [][Routes("inj") => diverted' = diverted + 1]_sessionVars
=============================================================================
