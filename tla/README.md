# A TLA+ verification of the Makera CNC proxy

The program is a proxy that sits between a CNC machine and everything that
wants to use it: the vendor's controller application, a web interface, a WebDAV
drive. The firmware can hold **one conversation at a time**, so the proxy
multiplexes it; it keeps a local copy of the machine's G-code files and
brings the machine up to date whenever it is reachable and idle. Nearly all of
its difficulty is concurrency: goroutines that share a connection, a queue, a
catalog and a cache directory, and that release their locks across I/O.

Contents: [the system](#the-system) · [modules](#modules) ·
[runs](#runs-and-bounds) · [fairness](#fairness) · [proofs](#proofs) ·
[deviations](#where-code-and-documentation-disagree) · [left out](#what-is-left-out) ·
[plan](#plan).

## The system

| Component | Source | State | Operations | Hard because |
|---|---|---|---|---|
| Session arbiter | `internal/session/arbiter.go` | mode (owner/relay), owner connection, connection generation, `opMu` | `WithMachine`, `AcquireJog`/`Release`, `SendControl`, `EnterRelay`/`ExitRelay`, `Poll` | dials outside the lock; a controller may take the machine at any moment; halt must not wait |
| Relay server | `internal/relay/relay.go` | `active`, current mux, two pumps | `handle`, `AcquireMachine`, `AcquireInteractive`, `SendControl` | deferred calls of one session overlap the next one |
| Relay mux | `internal/relay/mux.go` | window open?, held frames, reply channel, mid-transfer flag, abort channel | `noteControllerFrame`, `AcquireInjection`, `AcquireInteractive`, `releaseInjection`, `routeMachineFrame`, transport `Read`/`Write` | decides under a lock, writes after it; replies carry no sequence number; bounded channel |
| Download cache | `internal/relay/download_cache.go` | the running local download | start, packets, end | counts as a transfer of the controller |
| Store | `internal/store` | catalog, job queue, settings, on disk | `Batch` and its operations | a write may fail: the batch is undone |
| Sync engine | `internal/synceng/engine.go` | the pass over the queue | `drain`, `runJob`, `execute`, `record…` | snapshot of the queue; user acts during a transfer; answers get lost; machine done but disk not |
| Reconciler | `internal/synceng/reconcile.go` | a listing and a catalog snapshot | metadata sweep, deep sweep, startup validation, recovery | both snapshots are old when they are used |
| File service | `internal/service/service.go` | cache directory, `commitMu` | upload, ranges, delete, discard, rename, retry, fetch, prune | several files and a batch per call; unlinks outside locks |
| Machine operations | `internal/service/service.go`, `active_gcode.go` | the operation lock, the tracker | pause, resume, paused commands, MDI, probing, tracing, tools, origins, alarm recovery | many exchanges per operation; holds, halts and a program come between them; statuses get lost or grow old |
| Active program, execution context | `internal/service/active_gcode.go`, `service.go` | stored path, parsed preview, spindle context, its checkpoint | select, read, run, clear, probe of the playing file, checkpoint, scan | two locks, none held across I/O; three goroutines that checkpoint; restarts |
| Preview | `internal/service/active_gcode.go` | modes, position, cycle | one line after the other | must agree with what a machine does |
| Jog | `internal/jog/jog.go` | owner session, lease, planned position, segments | arm, disarm, input, step, target, origin, capture | stale status, capture against admission, leases that overlap |
| Client connection | `internal/client/conn.go` | transport | managed commands, status, upload, download | no sequence numbers: late replies; frames lost or damaged |
| Tracker, attention, notifications, run history | `internal/machine`, `internal/attention`, `internal/notifications`, `internal/runhistory` | latest status, open event, seen changes, current run | observe, publish, replay, send, clear, import | bounded channels that drop; goroutines out of step |
| Tray manager | `internal/traymgr`, `cmd/tray` | the child process, binaries, `deployMu` | start, stop, restart, build, deploy, upgrade itself | concurrent callers; processes that crash or linger; failure between two renames |
| The rest | API, WebDAV, discovery, camera, installers, web UI | – | – | I/O, decoding, presentation |

How they interact: API, WebDAV, engine, sweeps and poller call
`Arbiter.WithMachine`, which runs their callback under `opMu` on the owner
connection or, while a controller is connected, inside an injection window of
the session's mux. Jog sessions take the same lock for as long as they are
armed. `SendControl` (hold, resume, halt) bypasses it. The file service and the
engine meet in the store (through `Batch`), in the cache directory and on the
machine; the engine takes `opMu`, the service takes `commitMu`, and neither
takes the other's.

What makes each of them correct:

- arbiter and relay: one transport to the machine at a time, none leaked, the
  mode follows the session, windows are always given back, halts get through;
- mux: controller frames neither lost, repeated nor reordered; no truncated
  reply taken for a whole one; no window inside a transfer;
- jog: one session at a time owns movement and the machine; nobody keeps either
  after a failed arm, an abort or a disconnect; a disarm takes effect, whoever asks
  for it, and sessions that disarm one another do not wait in a circle;
- files: what the catalog says is pending is in the queue; what it calls synced
  is on the machine; what the cache serves is what the catalog describes; order
  per path; the user's wishes are not undone by a sweep, a late result or a
  restart, and are all settled in the end;
- planned movement: the plan is the end of the machine's queue, a capture is that
  end, soft limits and the safe Z hold, a verdict on a target is true and comes;
- machine operations: a halt ends the operation it meets, a program is not
  disturbed, a work zero is where the probe touched, every operation ends;
- transfers: what is reported as stored is stored and what is downloaded is whole;
  an answer is taken for another's only by a question of the same sort;
- active program and spindle context: what was selected last is loaded; a restart
  restores no spindle state that had been replaced;
- observers: no execution told as two runs while the observers keep in step, an
  attention event exactly while a person is needed, no change sent twice;
- tray manager: one supervised proxy, a deployment ends with a proxy that serves
  and is the one installed, a manager answers again after an upgrade, and no
  binary is lost on the way.

`PROJECT.json` lists every component with its status, every hazard with its
line, and for each definition the source lines it models.

## Modules

```
Conversation  <-- refined by --  Arbiter, RelayMux  <-- RelayProofs
JogManager <-- JogManagerProofs          JogPlanner <-- JogPlannerProofs
Store <- SyncState <- SyncEngine, FileService, Reconciler <- FileSync <-- FileSyncProofs
MachineFirmware <- MachineOps <-- MachineOpsProofs
MachineLink <- ClientConn
ActiveGcode <- ExecutionContext <-- ExecutionContextProofs
GcodePreview <- FakeMotion <- PreviewCheck
RunHistory <- Observers <-- ObserversProofs
Supervisor <- ManagerUpgrade <-- ManagerUpgradeProofs
MC*: instances for TLC
```

**Conversation** is the abstract promise: a single holder talks to the machine, and a
conversation that has ended is never resumed. None ends without cause: its own
failure (`Drop`, not `Forget`, by who met it), a controller that claims the machine,
or that controller's leaving; and only its own begins while it has the machine.

**Arbiter** (arbiter.go and `Server.handle`). Every `WithMachine` or
`AcquireJog` call, every `SendControl` call and every controller session has a
program counter. A step is one critical section of `Arbiter.mu` or one piece of
I/O outside it: `ReadMode`, `AcquireOwner`, `DialOwner`, `InstallOwner` are the
stretches of one `WithMachine` call between which anything may happen. `opMu` is
a variable because it is held across steps; `mu` is not. Whether the machine is
idle, whether a dial succeeds and whether the mux is in a transfer are
nondeterministic. Sockets are numbered; `open` holds those not yet closed.

**RelayMux** (mux.go and both pumps). Controller frames are numbered and have a
kind; an injected operation writes frames and reads replies. `NoteControllerFrame`
is the pump's critical section and `PumpWrite` the write that follows it outside
the lock. `ReleaseInjection` is one turn of the flush loop, `FlushHeld` one
write. The machine (external) answers in order. Observer variables (`accepted`,
`delivered`, `diverted`, `lastRead`, `xfer`) are read by properties only.

**JogManager** (jog.go). Each session's run loop has a program counter that is
`loop` at the `select` and otherwise names the call it is blocked in: `AcquireJog`
(`acquire`), the arming query (`verify`), another session's `disarmAndWait` (`ask`,
`await`), `statusWG.Wait` (`join`). A status query is a goroutine of its own, an
element of `queries` until `statusWG.Done`; its answer travels through `statusCh`
with the number of its lease. A command sent by `disarmAndWait` carries its caller,
which stands for the `complete` channel. What a movement command writes is the
subject of JogPlanner: here it is refused, asks for a status, or ends the lease. `Arbiter.opMu` is
external here and is held by at most one session; whatever else may hold it is
the failing branch of `Acquire`.

**Store** gives each operation of `store.Batch` as a function on the model, so a
batch is a composition: `Enqueue(SetEntrySync(store, p, "pending_delete"), job)`.
An MD5 is modelled by the content it names. The queue is a function from job numbers,
which `Enqueue` deals out in order, so "older" is "smaller number". **SyncState** holds what the parts
share, and `Batch`/`BatchFails`: a batch reaches the disk or changes nothing. The
guard on `UpdatedAt` is modelled by `fresh`: the entries a reader has seen and
nobody has written since.

**SyncEngine**: `drain` over a snapshot of the queue (`Left` is what the pass has not
dealt with, `CurrentId` its oldest job), `runJob`, `execute` with one
step per batch, open, machine call and unlink, and the three ways an outcome is
recorded. A machine call may fail before or after its effect. **FileService**: the
calls of the service, with one step per lock acquisition, batch, replacement and
unlink. A *scene* selects which calls, sweeps and faults take part, and with how
many jobs, callers and paths (`SyncState`). **Reconciler**: the sweeps, one step
per listing, comparison, catalog read and folded entry. **FileSync** composes the
three, adds the controller's own changes and `Crash`, which is a stop at any step
followed by the start-up sequence (`recoverInterruptedJobs`,
`PrepareStartupCacheValidation`), and states the properties.

The modules below model their part against the machine. What the machine does is
taken from the simulator that the repository's own tests use
(`internal/carveratest`), which records observed firmware behaviour; what the
simulator does not say is external and nondeterministic. As in SyncState, a
behaviour belongs to one of the `Scenes` of its run, a record of the requests and
faults that happen in it.

**JogPlanner** (jog.go). One armed session on one horizontal axis and Z. `Admit`,
`SendLine` and `WriteReturns` are the parts of `motionTick`'s loop between which
`SetInput` and `CapturePosition` come in; `Step`, `Target` (with its `Legs`) and
`SetOrigin` are the explicit commands; `TakeStatus` is `applyStatusPayload`. The
machine reads lines from a first-in first-out wire, executes its queue at the
predicted pace or slower, and answers late. Time passes in halves of a segment;
a point in time is kept as its distance from now.

**MachineOps** and **MachineFirmware** (service.go, active_gcode.go). Each method of
the service is a sequence of instructions (`Send`, `Await`, `Poll`, `Gate`, `Query`,
`Contact`, ...), one definition per method; a step carries out one exchange. Between
two steps the machine moves, the tracker is fed or grows stale, the other client
works, a hold, resume or halt arrives, or the controller starts a program.
MachineFirmware says what a line does to states, position, tool, spindle, alarm.
An exchange is one step, so a halt falls between two exchanges: it ends the operation
that has its turn (`HaltStopsOperation`). `ProbeZ` takes two turns, and gives up the
first before the second begins.

**ClientConn** and **MachineLink** (conn.go). One operation at a time on the
arbiter's connection, each read and write a step; MachineLink is the firmware's
side: handlers of requests, the transfer slot, packets asked for one by one. Frames
are lost, damaged or late. Each frame carries the number of the operation it
belongs to, which only the properties look at. The drain before a query ends with
the first pause of 2 ms, that is, whenever no frame is there: what the machine
answers later to an operation that stopped waiting goes to the next one that takes
it. So a status may be that of an earlier poll (the gate before an operation may act
on it), an md5sum that of the file asked about before, and what a console command
returns may have lines of the replies to earlier ones; other operations get their own.

**ActiveGcode** and **ExecutionContext** (active_gcode.go, service.go). A request
is cut at each access to the store or to the preview, since no lock spans both;
the probe task runs beside them. ExecutionContext adds the three goroutines that
update the spindle context: an update under one lock, a checkpoint under another,
the scan of the program that recovers a direction, and a restart.

**GcodePreview**, **FakeMotion** and **PreviewCheck** (active_gcode.go,
fakemachine.go): the preview parser and the simulator's interpreter, as functions
of a parser state, a machine and a line, and the composition in which every short
program of a dialect is read by both. Coordinates are small integers, an inch is
two of them; arcs keep their end, not their course.

**RunHistory** and **Observers** (runhistory.go, attention.go, notifications.go,
state.go). RunHistory has the pure parts: what one report does to the history, and
which marker explains a pause. Observers has the goroutines and the bounded
channels between the tracker, the service's observers, the monitor and the
dispatcher, with clears, imports, UI selections, a dispatcher that starts late, and
a file that may have been active when the service stopped.

**Supervisor** and **ManagerUpgrade** (supervisor.go, deploy.go, server.go,
manager_upgrade.go, cmd/tray/tray.go). Processes have a binary, an owner and a
state; one of them may have the proxy's ports. Of its two, a taken API port is only
logged, a taken relay port ends the proxy (cmd/proxy/main.go): `port` is both, so the
moment in which an ending proxy has given back one of them only is not modelled. Each caller of the supervisor is a
thread with a program counter; `Reap` and `SendDone` are the goroutine `wait`.
ManagerUpgrade adds deployments, the manager process and the finalizer, with each
rename a step that may fail or be the last one before a kill, and so may the rename
that puts a binary back (`FailsTwice`, bounded by `budget.torn`), whose error the code
ignores. `FinDown` waits until the manager has gone; that it still answers at the limit
of 45 s ends the finalizer with an error, as a kill would (`FinKilled`).

## Runs and bounds

| Run | Instance | Shows | Distinct states |
|---|---|---|---|
| `arbiter` | poller, caller, jogger, halt, 2 controller sessions, 2 dials | `SingleConversation`; `NothingLeftBehind` = `NoStraySocket`, `RelayModeIffSession`, `WindowOwned`; `ImplementsConversation`; `EveryCallReturns` = `ControlReturns`, `CallersReturn` | 227,528 |
| `relay_mux` | 3 controller frames, 1 injected write, channel of 1 | `FramesInOrder`; `WindowsAreClean` = `ManagedRepliesComplete`, `NoWindowMidTransfer`; `FramesReachMachine` | 209,675 |
| `sync_queue` | 1 path, 2 callers, 2 contents, 3 jobs, 2 attempts; upload, delete | `CatalogIsTrue` = `PendingHasJob`, `SyncedAgrees`; `InOrderPerPath`; `EveryIntentSettles` | 136,348 |
| `sync_files` | 8 scenes: renames, ranges, deletes on a failing disk (2 or 3 jobs, 1 or 2 paths); each kind of sweep beside 2 callers and the controller, both beside 1 (1 or 2 jobs); restarts with retries and discards, or with a metadata sweep (2 jobs) | `UploadIsSafe` = `PendingHasJobWhileUp`, `CacheHoldsUploads`; `RunningIsCurrentOnDisk`; `CompletedNotRequeued`; `SweepsAreCareful` = `InFlightUntouched`, `ConfirmedBeforeServed` | 1,000,800 |
| `jog` | 3 sessions, 1 WebDAV upload, queue of 1, status channel of 2, 2 commands | `LeaseHeldByOwner`; `OneReaderInsideLease`; `NoWaitCycle`; `AnswersAreOwn` = `InFlightHasAnswer`, `CompleteMeansDisarmed` | 1,142,820 |
| `jog_planner` | 7 scenes: sticks on a lagging, failing or paced machine, steps, targets with and without safe Z, targets written slowly; axes of 2 or 3 segments, 4 changes of input | `PlanIsTrue` = `PlannedIsQueueEnd`, `CaptureIsQueueEnd`; `MovesAreSafe` = `SoftLimitsKept`, `CrossesAboveSafeZ`, `OriginAtRest`; `StopsInTime` = `OneStaleSegment`, `BoundedAhead`; `TargetIsJudged` = `VerdictIsTrue`, `TargetResolves` | 821,054 |
| `machine_ops` | 17 scenes of 2 clients and up to 3 calls each | `TravelAtSafeZ`; `YieldsToOthers` = `HaltStopsOperation`, `ProgramIsSpared`; `SuccessIsTrue` = `OwnMotionDone`, `WorkZeroIsContact`; `OperationsEnd` | 160,193 |
| `transfer` | 8 scenes of up to 5 operations, 3 connections, files of 0 to 3 bytes, packets of 2 | `ResultsAreTrue` = `UploadedIsStored`, `DownloadIsWhole`, `MistakenForItsLike`; `TransfersEnd` = `LeavesTransferMode`, `SlotHasOneHolder`, `OperationsEnd` | 298,307 |
| `active_job` | 7 scenes, 2 programs of 2 lines, 2 versions | `ChoicesAreKept` = `SelectionStaysLoaded`, `CommandsAreDurable`, `RecoveredIsPrograms`; `PlayingFileIsFound`; `NewerCommandWins` = `CheckpointsMoveForward`, `RecoveryYields` | 726,513 |
| `preview` | all programs of up to 7 lines in 4 dialects | `PreviewIsTrue` = `AnchoredAxesAgree`, `NoFabricatedRapid`, `CompleteOnceAnchored` | 36,012 |
| `observers` | 4 scenes, 2 programs, history and event lists of 2, channels of 1 and 2 | `RunsFollowJobs` = `HistoryShape`, `OneRunPerJob`; `EpisodesToldOnce` = `EpisodeTracksState`, `MarkerExplainsOnePause`, `NotifiedOnce`, `NoDeliveryStuck`; `SettlesWhenIdle` | 587,011 |
| `tray` | 14 scenes, 2 callers, 5 processes | `BinaryKept`; `DeployedServes`; `StaysSupervised` = `OneChild`, `RestartReplaces`; `ComesBack` = `StoppedIsReaped`, `ProxyComesBack`, `ManagerComesBack` | 97,037 |

A property that is the conjunction of others is written with its parts: each part
has its own definition and comment, and the whole is what a user of the component
relies on. Each property has a mutant in `PROJECT.json`: a plausible mistake in a
mapped definition under which TLC reports the property. Every module of a run has a
`TypeOK`; it is not listed in the configurations and holds in each of them (for
eight compositions it is proved).

Why the bounds are enough to be interesting:

- *arbiter*: two sessions overlap in their deferred calls; two dials let a
  `WithMachine` call and a halt race to install a socket, or a socket fail after
  its replacement is installed; a third contender behaves as the second one. The
  safety properties are proved for all values.
- *mux*: one frame held, one in the batch being flushed, one arriving meanwhile.
  A channel of one overflows at the second reply. The run has no deadlock check
  because the frames are bounded: the model may stop after the last one, the
  system would read on.
- *jog*: three sessions are the smallest circle in which ownership can have moved
  on; two commands arm one session and disarm it from another, while the WebDAV
  call disarms it a third time; ticks, aborts, answers and disconnects are
  unbounded. A queue of one is full at once. The model may stop when all sessions
  are closed, so deadlock is not checked.
- *files*: three jobs are one running, one that replaces it and one more behind;
  two attempts are a first failure and a final one. Two contents tell old from
  new; an upload uses content that is nowhere in use, so that an accidental
  match of contents cannot hide a mistake. Contents and callers are symmetric;
  `sync_queue` uses no symmetry because it
  checks liveness. All contents have the same size, which is the case a size
  comparison cannot tell.

- *planner*: two or three segments of travel let a stick reach a limit, turn and come
  back; a lookahead of one segment and ticks of half a segment let an answer be
  older than the last write. `MaxLate` bounds how long a write may outlast the move it
  sends; at the bound no move of the scenes leads any more. *Operations*: two clients suffice because one lock
  admits one operation; each scene has the interruptions that its operations
  react to. *Transfers*: three bytes are a full and a partial packet. *Preview*: a
  cycle needs four lines (position, start, hole, end); seven leave room for a
  change of mode before and a move after. *Tray*: a deployment uses two processes;
  five allow for a crash, an orphan and a manager of each version.
- Most of these runs do not check deadlock: a behaviour may end when its scene's
  requests are used up. That nothing is stuck is stated by `OperationsEnd`,
  `TransfersEnd`, `TargetIsJudged`, `ComesBack`.

Not every property is checked with every call, because with some calls it is
false; those combinations are listed under deviations, and the names say so:
`PendingHasJobWhileUp` excludes `DiscardLocal`, restarts and retries of renames,
`CacheHoldsUploads` deletes, renames, retries, `DiscardLocal` and restarts,
`RunningIsCurrentOnDisk` a failing disk; in
`sync_queue` `SyncedAgrees` and `InOrderPerPath` are checked without fetches,
renames and failing disk. Likewise `jog_planner` has no scene in which a tap
follows a stick on a late machine, `transfer` none in which an upload follows a
download without a status query, `tray` none in which a proxy is slow to find its
port taken, or in which a deployment follows one whose binary could not be renamed
back. A step that is written slowly is out of `jog_planner`, because the plan is not
true then; a tap target is in, but with nothing commanded before its verdict. In `observers` the two observer goroutines keep in step (`OneRunPerJob` is
claimed under `InStep` only), and `MarkerExplainsOnePause` leaves out scenes in which
a file is selected: a file selected anew has its markers explained from the start.

## Fairness

- *Arbiter, `ControlReturns`*: only `SendControl` steps are promised to happen:
  dials and writes have deadlines. Nothing is assumed of the operation that holds
  `opMu`.
- *Arbiter, `CallersReturn`*: weak fairness on the steps of a call that has
  started (dials, reads and writes have deadlines; a jog lease is bounded by its
  session), strong fairness on `opMu.Lock` of `WithMachine`, because Go's mutex
  hands over to a waiter that starves. `lockOp` polls with `TryLock` and gets no
  such promise; nothing is claimed for it. No fairness on sessions: a controller
  may stay for ever.
- *Mux*: the pump writes the frame it has, a managed operation ends (read
  deadline), a lease ends once it is aborted (the session loop selects on
  `Abort`), the flush goes on. A lease that nobody aborts may last for ever, and
  the machine need not answer.
- *Jog, `DisarmHonoured`*: blocking calls have timeouts (`AcquireJog` and
  `disarmAndWait` 2 s, `QueryState` its own), so a started step ends (weak
  fairness); `select` chooses at random among its ready cases, so a command, an
  answer or the end of the session that is ready again and again is taken
  (strong fairness). `JoinStatus` gets weak fairness only: it goes on when the
  goroutine has ended, which `MCJogManagerRelease.cfg` shows need not happen.
- *Files*: the engine's goroutine runs (a ticker every 2 s), and a job that is
  attempted again and again gets past the back-off (`maxBackoff` caps it) and past
  a blocked session (strong fairness: the controller goes away and the machine
  becomes idle again and again). Without that an upload would rightly wait for
  ever. Callers get no fairness; one may stop between two steps.
- *Planner, `TargetResolves`*: time passes, the machine reads and executes, writes
  return, tickers fire (weak fairness); of many status answers one is read, and
  of many ticks one finds the loop free (strong fairness, `select` again).
- *Operations and transfers, `OperationsEnd`*: the goroutine of a started operation
  goes on, because each exchange and each wait has a deadline; the machine reads
  what it is sent, but need not answer, move or finish.
- *Active program, `PlayingFileIsFound`*: the poller, the observer and the probe task
  run; of repeated queries of the playing file one is answered (strong fairness).
- *Observers, `SettlesWhenIdle`*: the goroutines at both ends of each channel run
  (`LiveSpec`; the theorems are about `Spec`, which has no fairness).
- *Tray*: some step of the program is taken as long as one is possible: deadlines
  pass and goroutines run. Operators and processes sent SIGTERM owe nothing.

## Proofs

`RelayProofs` (arbiter and mux), `JogManagerProofs`, `FileSyncProofs`, `ManagerUpgradeProofs`,
`ExecutionContextProofs`, `ObserversProofs`, `JogPlannerProofs` and `MachineOpsProofs`
prove, for every value of the constants:

| Theorem | Statement |
|---|---|
| `InductiveInvariant` | `Spec => []IInv` |
| `TypeCorrect`, `MuxTypeCorrect` | `TypeOK` of the arbiter, of the mux |
| `OneConversation` | `SingleConversation` |
| `NoLeakedSocket` | `NoStraySocket` |
| `ModeFollowsSession` | `RelayModeIffSession` |
| `NoOrphanWindow` | `WindowOwned` |
| `NothingOutlivesItsOwner` | `NothingLeftBehind`, the three above |
| `Refinement` | `Spec => Abstract!Spec`: the arbiter implements `Conversation` |
| `OrderPreserved` | `FramesInOrder` |
| `WindowsStayClean` | `WindowsAreClean`, both parts |
| `JogTypeCorrect` | `TypeOK` of the movement manager |
| `JogLeaseHeldByOwner` | `LeaseHeldByOwner` |
| `JogNoWaitCycle` | `NoWaitCycle` |
| `JogOneReader` | `OneReaderInsideLease` |
| `JogAnswersAreOwn` | `AnswersAreOwn`, both parts |
| `FileSyncTyped` | `TypeOK` of the file synchronisation |
| `NoOrphanedJob` | `RunningIsCurrentOnDisk` |
| `CompletedStays` | `CompletedNotRequeued` |
| `SweepsStayCareful` | `SweepsAreCareful`, both parts |
| `PendingStaysQueued` | `PendingHasJobWhileUp` |
| `UploadsAreSafe` | `UploadIsSafe`: the line above and `CacheHoldsUploads` |
| `OrderPerPath` | `InOrderPerPath` in scenes without renames and retries |
| `CatalogAgrees` | `CatalogIsTrue` in `Steady` scenes (below) |
| `UpgradeTyped` | `TypeOK` of supervisor, deployments and manager upgrade |
| `UpgradeStaysSupervised` | `StaysSupervised`, both parts |
| `UpgradeKeepsBinaries` | `BinaryKept` in `Orderly` scenes (below) |
| `UpgradeServes` | `DeployedServes` in `DeploysAlone` scenes (below) |
| `ContextTypes` | `TypeOK` of active program and execution context |
| `ContextKeepsChoices` | `ChoicesAreKept`, the three parts |
| `ContextNewerWins` | `NewerCommandWins`, both parts |
| `ObserversTyped` | `TypeOK` of tracker, run history, monitor and dispatcher |
| `RunsStayJobs` | `RunsFollowJobs`, both parts |
| `EpisodesStayTrue` | `EpisodesToldOnce`, the four parts |
| `PlannerTyped` | `TypeOK` of what a jog session writes |
| `PlannerStopsInTime` | `StopsInTime`, both parts |
| `PlanFollowsTheQueue` | `PlanIsTrue`, both parts, in `Tracked` scenes (below) |
| `MovesKeepSafe` | `MovesAreSafe`, the three parts, in `Tracked` scenes |
| `VerdictsTell` | `VerdictIsTrue` in `Tracked` scenes |
| `MachineOpsTypeCorrect` | `TypeOK` of machine, tracker and operations |
| `OperationsYield` | `YieldsToOthers`, both parts, unless a panel starts programs (below) |
| `TravelsSafely` | `TravelAtSafeZ` on machines that refuse lines in Alarm (below) |
| `SuccessesAreTrue` | `SuccessIsTrue`, both parts |

The assumptions are the ones stated in the modules: the bounds are naturals, the
"nobody" values are not members of the sets they complete, callers and joggers
are disjoint and sessions are not socket numbers; in the file synchronisation, actors
are told apart and `None` is no path and no content; in the tray manager, the boot is
no client, a process can be started, and a scene has the fields of a scene
(`CallersAssumption`, `ProcsAssumption`, `ScenesAssumption`); in the active program,
programs are sequences of lines, `None` is no file and no goroutine, and a program is
not uploaded anew in a scene with a spindle (`ScenesAssumption`: there the file's
lines are fixed by `Program`); in the observers, `None` is no file, state or number, and the
markers of a file are numbers of lines in ascending order; in the planner, durations
and limits are naturals, a segment and an axis have some length (`TimeAssumption`,
`ScenesAssumption`); in the machine operations, heights and tools are integers, `None` is
no client, operation or result, a scene has the fields of a scene, and a machine found
in Alarm has a reason for it and stands still (`FirmwareAssumption`, `OpsAssumption`,
`ScenesAssumption`). No set is assumed finite. RelayProofs extends Arbiter and RelayMux, which
is why the latter's specification has names of its own (`MuxInit`, `MuxNext`, `MuxSpec`).

*Arbiter.* None of the safety properties is inductive by itself. That the mode
follows the session needs that only one session is between its accept and its end
(`OneSession`, from the compare-and-swap of `active` and the order of the
deferred calls). That one transport carries frames needs that in relay mode there
is no owner connection (`OwnerSocket`), that a socket which has been dialled and not
installed is known to one call alone (`PrivateSockets`), that every other open
socket is the owner connection (`NoStraySocket`), and that the relay's transport is
up only between `OpenMachine` and the end of the pumps (`LinkIsUp`). `WindowOwned`
needs that one call at a time is past `opMu` (`OpHolder`) and that a call uses a
socket or a window but not both (`OneTransport`). `IInv` is the conjunction; each
action preserves each conjunct it can disturb. The refinement maps the installed
socket, or else the relay's transport, to the holder, closed sockets and
finished sessions to the conversations that have ended, a socket whose error is
reported to those that have failed (`opMu` admits one), and relay mode to the claim.

*Mux.* `FramesInOrder` equates a concatenation of four sequences with the history of
frames. It is preserved by a controller frame only because nothing is held or
being flushed while no window is open or while the pump has a frame in hand
(`OrderInv`): that is the "injecting stays true until the held queue has drained"
of mux.go. `WindowsAreClean` rests on `WindowInv`: the reply channel of a managed window
is gone exactly when it has overflowed, so nothing is missing from what is still
there, and whenever the controller sees itself inside a transfer `controllerMidXfer`
says so.

*Jog.* `LeaseHeldByOwner` is inductive once ownership is tied to the program
counters (`OwnInv`): a loop that has a lease is at its `select`, and a session that
arms or releases is the owner. `NoWaitCycle` follows by one fact from it: a session
starts to wait only for the owner, and the owner is never inside `disarmAndWait`
itself, so a new wait points outside any set of waiting sessions; later changes of
ownership do not matter. One reader at a time needs that a query belongs to the
current lease or is being waited for by the release of its lease (`QueryInv`, from
`statusWG.Wait`), and that an answer in the channel with the current number is the
only one and excludes a running query (`AnswerInv`): otherwise a late answer would
reset `statusInFlight` and let a second query start.

`JogAnswersAreOwn` needs that a session with a query in flight has an answer of its own
lease coming, from a running query or in the channel (`ComingInv`), and that whoever
is told or about to be told that a session has disarmed asked about a lease which
is over by then, even if the session has armed again (`DisarmInv`).

*Files.* `BaseInv` gives each step what it may rely on: the types, the jobs the engine
holds and the ones the store still has, what each caller has read and under which
lock. It is preserved by every batch through one lemma per operation of
`store.Batch` (`PutEntryHolds`, `EnqueueHolds`, `DiscardJobsHolds`, ...), composed as the
code composes them, and through one predicate per component (`ServiceShape`,
`SyncShape`, `SweepShape`) that says what its steps leave alone. On it rest:

- `RunInv`: the job in hand is the one the store calls running. With a disk that
  may fail it is false, since `recordFailure` may not be recorded; hence the
  hypothesis of `RunningIsCurrentOnDisk`.
- `PassInv` and `OrderInv`: the jobs left of a pass are older than every job that waits
  outside it, or of a path the pass holds back. A rename touches two paths and a
  retry makes an old job wait again; both make it false (`MCRename`), which is why
  `OrderPerPath` leaves them out.
- `RemoteInv`: an entry of a file that is on the machine alone is neither held back nor
  served. A sweep works on what it read a while ago, but it writes only entries that
  the store still holds as it has read them (`FreshInv`, the guard on `UpdatedAt`).
- `ServedInv`: every entry that waits has a job of its kind and content that is not the
  one about to be recorded as done. It is what `PendingHasJob` lacks to be inductive:
  between the machine's answer and `recordDone` the job in the store still looks alive.
- `CacheInv`: an entry names the cache file of its own path; whoever moves that file
  away holds `commitMu` and keeps what the entry names as backup. The calls that
  unlink or move a file after their batch break it (`MCDeleteRace`, `MCRename`).
- `AgreeInv`: the job that carries the content of a live entry is the youngest of its
  path, nothing that could touch a synced file is left, and what is in flight is
  what the job names as long as the entry still matches it. `Steady` scenes are
  those with uploads of new contents, ranges, deletes and pruning on a good disk, with
  any number of callers, files and jobs: a fetch, a controller, a restart, a discard or
  a sweep each have a counterexample in the table below.

*Tray manager.* `CallsInv` says which steps an operation has and that only the boot of a
manager process boots; `ManagerInv` who may be at work in each state of that process.
`OneChild` is inductive with `ChildInv`: a supervised process is the one whose goroutine
`wait` has not cleared `cmd` yet, and its owner is the current manager. A Restart
replaces what it stopped because its target is past `wait` when it goes on (`StopInv`),
so that a supervised process it finds then is another one.

- `BinaryKept` needs to know who else may touch the binary. In a `Lone` scene one request
  is made, whatever fails, quits or is killed, the renames back included; in a `ProxyOnly`
  scene there are any number of clients who deploy the proxy and control it, only the
  holder of `deployMu` builds, and (`Steady`) the binary could be renamed back so far. The binary is missing only between the two renames of one build, which has
  kept a backup (`ProxyInv`, `BuildInv`); `FinInv` says where the manager's two binaries
  are at each step of the finalizer. With a build beside a deployment, or a deployment
  after a kill between the renames or a failure of both, it is false (`MCBuildMeanwhile`,
  `MCTornDeploy`, `MCTornTwice`), so `Orderly`, `Lone` or `Steady`, is the hypothesis.
- `DeployedServes` needs that between its stop and its start a deployment finds no
  process, and afterwards its own (`ServesAt`), that a process that listens has the port
  (`PortInv`), and that nobody else starts one: either one request is made and proxies
  claim their port in time, or clients only stop and deploy (`DeploysAlone`). A Start in
  between and a slow proxy are the counterexamples (`MCStartMeanwhile`, `MCSlowPort`).

*Active program and execution context.* A selection that nothing else has touched since
is the loaded program and is in the store, its file is known, and no read of it is
about to drop it (`OwnInv`): a parse that ends late installs its program only if the
selection has not changed. For the context:

- `CheckpointInv`: whoever writes holds `persistMu`, and the snapshot it took under the
  lock lies between what is on disk and what is in memory. It is why a slow
  goroutine cannot put back an older context, the first half of `NewerCommandWins`.
- `DurableInv`: while nobody waits for a forced checkpoint, what is on disk, and what
  is being written, keeps what was said last. A status report may pass without a
  checkpoint; `CommandsAreDurable` holds nevertheless because what it adds keeps
  direction, speed and source (`Keeps`, an order on contexts).
- `SpindleInv`: machine, report and scan agree with the program at their line as
  long as nobody else speaks to the spindle, from which `RecoveredIsPrograms` follows.
  `ObserverInv`: only the status goroutine scans a program, and it records no command.
- The modal state after `n` lines is a recursive function (`SpindleAt`). That it
  satisfies its recursion for every program is shown without an induction rule that
  takes an operator: a least counterexample among the naturals is refuted
  (`SpindleDefined`).

*Observers.* A list of runs is well formed through clears, exports, imports and dropped
reports (`ShapeInv`; the backup is one too, since an import restores it). On it and on
`QueueInv` (what waits in the subscription is in the order in which it happened) rest:

- `JobInv`: a run that has ended is of an older job, or of one that is over and of which
  nothing is left to be read: no play line, no file hint, no status with progress
  (`Over`). Otherwise a late report would start a second run. It needs `InStep`, and fails
  without it (`MCTwoJobs`).
- `EpisodeInv`: of the retained events only the last may be active, and it has the last
  state observed; that list is cut from its front, so the index of the active one moves.
- `MarkerInv`: every marker that explains an event of a job which may still show
  progress was passed by the scan, that is, lies before `next`; hence one that is selected
  now comes later in the file. Two facts make this hold across programs: a job whose
  markers may be read anew has no status left with progress (`Past`), and the scan starts
  anew only with another path or with the first run after an end was reported.
- `DeliveryInv`: what has been delivered was marked as seen before, so neither the
  subscription nor the replay sends it again, and a delivery is "sending" only in the hands
  of its goroutine.

*Planner.* A scene is `Tracked` when it is `Sticks`, that is, no steps and targets are
commanded and an answer is younger than a segment when it is handled, or `Prompt`: the
machine keeps the predicted pace, lines are read and answers handled at once, and steps
and targets are commanded too. In the first the machine may lag and writes may be slow;
in both it may refuse lines, stop or be alarmed, and queries and writes may fail. Slow
writes are left out of the second because a step or a target predicts the end of its
move from before the write, so that the lead is over before the machine is there
(`MCSlowStep`); a slow tap whose verdict nothing overtakes is model-checked. Every
scene of `jog_planner` but that one (`MCSlowTargets`) is `Tracked`. `BaseInv` is what
every step relies on: moves take time, a session that has let go waits for no answer,
and a command that is written without delay adds to the lead of now (`DueInv`).

- `StaleInv` says which input the segment being written was computed from: the one of
  now, once one of an older input is under way. `OneStaleSegment` follows for all scenes.
- `PaceInv` bounds what the machine has still to do by the session's prediction, and by
  one segment more while a write has not returned. `BoundedAhead` excludes, in its own
  statement, machines that lag or stop, and steps and targets, whose length is not a
  segment's.
- `PromptInv` is the same bound by the length of the line being written, whatever it is:
  a machine that keeps the pace has come to its end when the prediction has. So the
  position a step or a target starts from is where the machine rests.
- `CommandInv` orders the queries: at most one is under way, and none when a step or a
  target is written, so the answer after a target was asked for after its last leg.
- `LimitInv`: every point a segment starts from or leads to is inside the limits, also
  the one an answer reports from the middle of a move.
- `IdleInv` is why a late Idle answer does no harm: a line that was written since it was
  given still counts in the predicted lead, so the plan is not re-anchored. It needs
  the answer to be younger than a segment; with older ones it is false
  (`MCLateAnswer`), hence the hypothesis.
- `LineInv`: each line starts where the one before it ends, and the last ends where the
  session thinks (`Intended`). `EndsInside` turns this and `LimitInv` into
  `SoftLimitsKept`. `OriginInv` does the same for origin commands.
- `PathInv` says of every leg, whether the machine, the wire or the loop has it, that it
  crosses at the safe height or above, and that it does not pass through the target
  before its end (`Nears`): on some axis it starts elsewhere and either stays or goes all
  the way. Hence a position equal to the target is the end of the last leg (`OnTheWay`).
- `PendingInv`, resting on it: an answer given while a target is pending either shows the
  machine under way and not at the target, or a machine at rest. `VerdictInv` follows:
  after the verdict the machine rests where it says until the next line.
- Where the lines end and how long they last are recursive functions (`EndsOf`, `Total`);
  that they satisfy their recursions is shown by a least counterexample (`Unfolding`).

Steps and targets on a machine that answers late are left out because there a tap after
a stick re-anchors on the clock (`MCTapAfterStick`). A captured position is claimed
where `CapturesSettle`: with steps a capture may fall into the write of one
(`MCCaptureStep`), and of a machine that has refused a line or stopped the session
captures, until it notices, a point that the machine will not reach. The
safe height is claimed where targets alone move the machine (`Careful`), since a stick is
held at any height.

*Machine operations.* The instructions of an operation are a sequence that its method
computes; one lemma per method says what stands at each position (`ProbeScript`, ...),
so that the steps are about instructions and not about methods. `BaseInv` has the types,
that an operation is one that was asked for (`Requested`), that the holder of the lock is
exactly the one inside `WithMachine` (`LockInv`), and that a machine in Alarm stands still
and has a reason (`AlarmInv`). From it follow lemmas in place of the eighteen actions:
a step of a client takes its own operation on, repeats it or ends it (`Outcome`) and leaves
the others' alone (`OthersKept`), and every other step lets the machine drift (`WorldIs`:
time, a halt, a move done, a program started). On them rest:

- `HaltInv`: who was inside when a halt came finds the diagnostic at the next exchange,
  unless only a last best-effort look at the machine is left.
- `SpareInv`: past its own query an operation knows that no program runs, since programs
  that come by the connection wait for the lock. A program started at the machine's own
  panel does not, hence the hypothesis `NoPanel` of `OperationsYield`.
- `LiftInv` and `TravelInv`: before the travel move of `ProbeZ` the queue ends at the safe
  height or the machine is in Alarm, during that of `TraceOutline` the whole queue stays
  there, whatever was queued before; so a move of either along X starts at that height,
  whichever moves in front of it are still to be done. On a
  machine that takes lines in Alarm it is false (`MCAlarmScenes`), hence `LocksInAlarm`:
  each scene's machine refuses them, or nobody probes in it.
- `RestInv`: at its last instructions, and from then on, an operation has no move in the
  queue: the wait for Idle asks the machine again after the move was queued, and a
  machine that answers Idle has an empty queue.
- `ZeroInv`: what `zProbeSetWorkZero` knows at each instruction, from the contact (the
  last move is its probing, or the queue keeps the height) to the origin, which also a
  move that is queued by then must keep.

Only model-checked: `ResultsAreTrue` of the client connection, the
parser of PreviewCheck, and all liveness (`EveryCallReturns`, `FramesReachMachine`,
`TargetResolves`, `EveryIntentSettles`, `OperationsEnd`, `DisarmHonoured`, `ComesBack`, ...).
Liveness under fairness and `ENABLED` are outside the prover's reach, and so is
induction over data in general, which the parser of PreviewCheck would need. No
proved module uses a recursive operator; two use recursive functions.

## Where code and documentation disagree

Each line has a property that fails. One has a configuration of its own (`tlc
-config <cfg> <module>` ends with a counterexample); for the others the table names
a run and what to change in its configuration: the value of one or two constants,
and the named property in place of the run's. The definitions that stand on the
right of `<-` are in the MC modules. These are the reasons why the passing runs
leave the named combinations out.

Disagreements with a sentence of the documentation:

| Configuration, or run and change | Property | The code does | A comment says |
|---|---|---|---|
| `relay_mux`, `MaxWrites = 2` | `MidXferMeansTransfer` | `controllerMidXfer` is cleared by frames of the controller only, but an upload ends with the machine's FILE_END: afterwards every injection gets `ErrBusy` until the next download or the end of the session | mux.go:61 "controllerMidXfer is true while the controller is inside a file transfer (FILE_START..FILE_END/CAN)" |
| `sync_files`, `Scenes <- MCRename` | `InOrderPerPath` | a rename skipped because its source is held back does not hold back its destination; a later upload of the destination overtakes it and is then overwritten | engine.go:164 "later jobs for those paths must wait to preserve per-path ordering" |
| `sync_files`, `Scenes <- MCRename` | `CacheHoldsEntry` | a renamed entry keeps the cache file named after its old path and later serves another file's content | types.go:41 "CacheReady means local bytes may be served without machine I/O" |
| `sync_files`, `Scenes <- MCUpload` | `FailsOnlyWhenTried` | eight ticks with the machine switched off fail a job for good | engine.go:3 "Jobs that can't run yet (..., machine unreachable) simply stay queued and are retried" |
| `MCJogManagerRelease.cfg` | `DisarmHonoured` | answers of earlier leases may fill `statusCh`; then `release`, on the loop that reads it, waits for ever for a goroutine that waits for room, and the machine lock is kept until the session disconnects | jog.go:579 "Disarm releases the machine lease." |
| `arbiter`, `MaxConn = 3` | `FreshConversationFreshGeneration` | a halt that dials installs a socket without a new connection generation | `ConnectionGeneration` in arbiter.go |
| `machine_ops`, `Scenes <- MCGateScenes` | `OrdinaryCommandsSpareProgram` | the gate trusts the tracker, which may not have seen a program that has just started | service.go, `SendGcode`: "an ordinary command can never disturb a running program" |
| `transfer`, `Scenes <- MCStaleEnd` | `UploadedIsStored` | the end of a download that the machine still owes is taken for that of an upload that follows at once, without a status query in between | engine.go:334 |
| `tray`, `Scenes <- MCTwoStops` | `EveryStopReturns` | `done` carries one value: the second of two Stops of one process never returns, and in a deployment keeps `deployMu` | supervisor.go, `Stop` |
| `tray`, `Scenes <- MCRolledBack` | `ServedIsSupervised` | on systems other than Windows stale proxies are not stopped: after a roll-back the proxy serves unsupervised | `StartAfterDeployment` in supervisor.go |

Races and sequences that no document rules out:

| Configuration, or run and change | Property | What happens |
|---|---|---|
| `relay_mux`, `MaxWrites = 2` | `HeldWhileInjecting` | a frame the pump decided to forward is written inside a window that opened since |
| `relay_mux`, `MaxWrites = 2` | `OnlyInjectedRepliesDiverted` | a reply to the controller's earlier command goes to the injected operation |
| `relay_mux`, `MaxWrites = 2` | `InjectedRepliesStayHidden` | the late reply of an operation that gave up goes to the controller |
| `sync_files`, `Scenes <- MCTwoUploads` | `DoneStaysDone` | a dial error re-queues a job that was superseded during the dial |
| `sync_files`, `Scenes <- MCDiscardRace` | `PendingHasJob` | discarding a path without an entry closes the job of an upload that came in between |
| `sync_files`, `Scenes <- MCDeleteRace` | `CacheHoldsEntry` | a delete's late unlink removes the content of the next upload |
| `sync_files`, `Scenes <- MCFetchRace` | `SyncedAgrees` | a fetch lends its old content to an upload before it is rolled back |
| `sync_files`, `Scenes <- MCUploadSweep` | `DropsOnlyVanished` | a listing older than an upload drops the uploaded file's entry |
| `sync_files`, `Scenes <- MCDelete` | `DeletedIsGone` | deleting a file that waits for a second upload leaves the first on the machine |
| `sync_files`, `Scenes <- MCCrash` | `CacheHoldsEntry` | a stop between cache replacement and batch leaves the old entry with new bytes |
| `sync_files`, `Scenes <- MCCrash` | `PendingHasJob` | after a restart an entry is still "uploading" with its job failed |
| `sync_files`, `Scenes <- MCRetryRename` | `PendingHasJob` | a failed rename is retried on a file that has another content by then, and the entry waits for a job that is not its own |
| `sync_files`, `Scenes <- MCRetryFetched` | `CacheHoldsEntry` | a retried upload brings back the entry's state for a file that was fetched since |
| `jog_planner`, `Scenes <- MCTapAfterStick` | `PlannedIsQueueEnd` | a target tapped just after a stick re-anchors on the clock, before the machine has stopped |
| `jog_planner`, `Scenes <- MCLateAnswer` | `PlannedIsQueueEnd` | an answer a whole segment old is taken for the state after the queue |
| `jog_planner`, `Scenes <- MCCaptureStep` | `CaptureIsQueueEnd` | a step is captured while it is being written |
| `jog_planner`, `Scenes <- MCSlowStep` | `PlannedIsQueueEnd` | a step that is written slowly is predicted to end before it does, and the next status re-anchors the plan on the way |
| `jog_planner`, `Scenes <- MCSlowMachine`, `MaxQueue = 9` | `LeadIsBounded` | a machine slower than predicted is led by more than the check allows |
| `machine_ops`, `Scenes <- MCToolScenes` | `ProbesWithProbe` | the tool is set by another client between the check and the probing move |
| `machine_ops`, `Scenes <- MCReasonScenes` | `ClearsWithReason` | a second alarm is unlocked on the reason of the first |
| `machine_ops`, `Scenes <- MCAlarmScenes` | `TravelAtSafeZ` | on a machine that takes lines in Alarm (the simulator does) a halted probe goes on at the wrong height |
| `transfer`, `Scenes <- MCLateDigest` | `AnswersOwnRequest` | an md5sum that timed out answers the next one |
| `transfer`, `Scenes <- MCLatePoll` | `AnswersOwnRequest` | the status a poll gave up on comes after the drain and answers the next query |
| `transfer`, `Scenes <- MCLostEnd` | `LeavesTransferMode` | a lost acknowledgement of a download leaves the machine in transfer mode |
| `active_job`, `Scenes <- MCWindowScenes` | `WindowOfSelection` | a window of segments comes from the previously selected file |
| `active_job`, `Scenes <- MCDirectionScenes` | `OfferedDirectionIsLast` | the direction of an earlier program is offered in the next one |
| `active_job`, `Scenes <- MCStopScenes` | `StopStaysSuppressed` | a status from before M5, read after it, clears the recorded stop |
| `observers`, `Scenes <- MCTwoJobs`, `InStep = FALSE` | `OneRunPerJob` | log and status goroutines out of step split one execution into two runs |
| `observers`, `Scenes <- MCNotified` | `ResolvedAfterOpened` | the end of an attention event is announced without its beginning |
| `observers`, `Scenes <- MCReselect` | `MarkersGoForward` | a pause late in a file that was selected anew is explained by an early marker again |
| `preview`, `Dialects <- MCRelativeAnywhere` | `AnchoredAxesAgree` | a G91 move from an unknown position is taken for a position |
| `preview`, `Dialects <- MCModalDrilling` | `CompleteOnceAnchored` | a drilling cycle repeated by a line with axes only is not drawn |
| `preview`, `Dialects <- MCRPlane` | `AnchoredAxesAgree` | G99 returns to another height than the simulator does |
| `preview`, `Dialects <- MCDrilling`, `Queued = TRUE` | `AnchoredAxesAgree` | the simulator starts a cycle from where the machine is, not from where it will be, when lines are queued |
| `tray`, `Scenes <- MCStartMeanwhile` | `DeployedServes` | a Start during a deployment runs the old binary, which is then reported as deployed |
| `tray`, `Scenes <- MCSlowPort` | `DeployedServes` | a proxy that needs more than 300 ms to find its port taken passes for ready |
| `tray`, `Scenes <- MCBuildMeanwhile` | `BinaryKept` | a build beside a deployment (it does not take `deployMu`) may use the same backup name |
| `tray`, `Scenes <- MCTornDeploy` | `BinaryKept` | after a kill between the renames the next deployment cleans up the only copy |
| `tray`, `Scenes <- MCTornTwice` | `BinaryKept` | the binary could not be renamed back after a failed install, and the next deployment cleans up the only copy |
| `tray`, `Scenes <- MCClientLeaves` | `StoppedComesBack` | a client that leaves while a deployment stops the proxy leaves it stopped |

## What is left out

- In the arbiter: the content of status reports and their age (`ensureFreshIdle` is
  an outcome), `SetInjector` and `SetControlWriter` (called once at start-up).
- In the relay: bytes, checksums, logging; a machine write that fails ends the
  session (`PumpsEnd`).
- In the store: directories, modification times, error texts, UI settings.
  `maxFailedJobsPerPath` is 1.
- In the engine: `mkdir` jobs; compression and the MD5 check after an upload are in
  ClientConn, not in FileSync (the check only logs).
- In the file service: `Mkdir`, `PutRemoteOnly`. `Delete` and `Rename` read the entry
  and the jobs one after the other; the model reads them in one step, and checks
  again where the code does.
- In the planner: position tolerances, the A axis, the slower Z feed, motion
  estimates sent to the browser, WebSocket decoding.
- In the machine operations: tool lengths, texts, setup storage; `AutoZProbe` returns
  while its retract still moves, so `OwnMotionDone` is not claimed for it.
- In the connection: bytes, checksums, the format of listings; QuickLZ.
- In the active program: statistics of a file, how windows are cut; an upload of a
  file that is selected does not invalidate its preview until the next read.
- In the preview: the course of arcs, feed and tool changes, G10 and G53 lines, G98
  from an unknown Z.
- In the observers: what a run and a message contain, HTTP to the push service.
- In the tray manager: WebDAV mounts, upload notifications, menus, custom build
  commands, the log, the moment between the end of an exiting manager's listener
  and of its process, a second finalizer; `waitForManagerDown` takes any failed
  request for the end of the manager, also one that is answered too late.
- In the simulator: stock removal, snapshots, probe geometry, scripted answers.
- WebDAV, API, discovery, camera, authentication, installers, command lines and the
  web interface: I/O, decoding and presentation without state that others share;
  `PROJECT.json` gives the reason for each.

## Plan

Modelled and checked: arbiter, relay, file synchronisation, movement, machine
operations, transfers, active program, preview, observers, tray manager. Proved:
the safety of arbiter, mux, movement manager, file synchronisation, tray manager,
observers, machine operations, of the active program with its execution context, and of
the planner, except for steps and targets on a machine that reads or answers late.
Next: `ResultsAreTrue` of the client connection.
