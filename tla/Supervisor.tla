------------------------------ MODULE Supervisor ------------------------------
(***************************************************************************)
(* The tray manager's supervisor (internal/traymgr/supervisor.go): one       *)
(* child process, the proxy, started, stopped and restarted by the tray's    *)
(* menu and by HTTP handlers that run concurrently.                          *)
(*                                                                          *)
(* Start holds the mutex for its whole body.  Stop reads cmd and done under  *)
(* the mutex, signals the process and waits without it.  The goroutine wait  *)
(* reaps the process, clears cmd and then sends ONE value on done.  The      *)
(* proxy claims the API and the relay port, which one process has or none:   *)
(* port is both.  A build replaces the proxy's binary with two renames.      *)
(***************************************************************************)
EXTENDS Naturals, FiniteSets, FiniteSetsExt

CONSTANTS
    Callers,      \* goroutines that call the supervisor: the tray loop, handlers
    Boot,         \* the start of a manager process, before it listens
    Scenes,       \* what may happen, a sequence of records
    MaxProcs      \* bound: proxy processes started in a behaviour

\* What a client or the tray's menu can ask for, and what may go wrong how often
Requests == {"start", "stop", "restart", "config", "build", "deploy"}
Budgets == [ops : Nat, faults : Nat, crashes : Nat, quits : Nat, kills : Nat,
            gone : Nat, launches : Nat, refused : Nat, torn : Nat]

ASSUME CallersAssumption == {Boot, "nobody"} \cap Callers = {}
ASSUME ProcsAssumption == MaxProcs \in Nat \ {0}
ASSUME ScenesAssumption ==
    \A i \in DOMAIN Scenes :
        /\ Scenes[i].windows \in BOOLEAN
        /\ Scenes[i].component \in {"proxy", "manager", "all"}
        /\ Scenes[i].restart \in BOOLEAN
        /\ Scenes[i].ops \in [Callers -> SUBSET Requests]
        /\ Scenes[i].budget \in Budgets

VARIABLES
    scene,        \* which of Scenes this behaviour is
    procs,        \* the proxy processes
    port,         \* the process that holds the proxy's ports, 0 for none
    cmd,          \* Supervisor.cmd: the supervised process, 0 for nil
    reap,         \* per process, where its goroutine wait is
    th,           \* per goroutine, the call it is in
    lock,         \* who holds deployMu
    disk,         \* source tree and binaries
    mgr,          \* the manager process
    budget        \* bounds: calls, failures, crashes, ... still to come

Here == Scenes[scene]
Procs == 1 .. MaxProcs
Threads == Callers \cup {Boot}
Nobody == "nobody"

Ops == Requests \cup {"boot"}
Versions == {"none", "old", "mixed", "new"}
Idle == [op |-> "none", pc |-> "idle", tgt |-> 0, was |-> FALSE, bak |-> FALSE,
         art |-> "none", gone |-> FALSE, res |-> "none"]

Alive(p) == procs[p].st \in {"starting", "up", "term"}
\* Something goes wrong, which the budget allows so many times.
Fails == budget.faults > 0 /\ budget' = [budget EXCEPT !.faults = @ - 1]
Works == UNCHANGED budget
\* A rename fails, and so does the one that should undo what came before it.
FailsTwice ==
    /\ budget.faults > 0 /\ budget.torn > 0
    /\ budget' = [budget EXCEPT !.faults = @ - 1, !.torn = @ - 1]
\* That has happened.
Torn == budget.torn < Here.budget.torn

Goto(t, pc) == th' = [th EXCEPT ![t].pc = pc]

\* The call returns; a deployment unlocks deployMu.
Return(t, res) ==
    /\ th' = [th EXCEPT ![t] = [Idle EXCEPT !.res = res]]
    /\ lock' = IF lock = t THEN Nobody ELSE lock

-----------------------------------------------------------------------------
(* The proxy process                                                        *)

Ends(dead) ==
    /\ procs' = [p \in Procs |-> IF p \in dead /\ Alive(p)
                                 THEN [procs[p] EXCEPT !.st = "dead"] ELSE procs[p]]
    /\ port' = IF port \in dead THEN 0 ELSE port

\* It claims the ports.  Where another process has them, the API's is logged and
\* the relay's ends it.
Listens(p) ==
    /\ procs[p].st = "starting"
    /\ IF port = 0
       THEN procs' = [procs EXCEPT ![p].st = "up"] /\ port' = p
       ELSE Ends({p})
    /\ UNCHANGED <<cmd, reap, th, lock, disk, mgr, budget>>

\* It obeys SIGTERM, at some time or never.
Exits(p) ==
    /\ procs[p].st = "term"
    /\ Ends({p})
    /\ UNCHANGED <<cmd, reap, th, lock, disk, mgr, budget>>

Crashes(p) ==
    /\ procs[p].st \in {"starting", "up"}
    /\ budget.crashes > 0
    /\ budget' = [budget EXCEPT !.crashes = @ - 1]
    /\ Ends({p})
    /\ UNCHANGED <<cmd, reap, th, lock, disk, mgr>>

-----------------------------------------------------------------------------
(* Start, and the goroutine wait                                            *)

Spawn ==
    LET p == Min({q \in Procs : procs[q].st = "unborn"}) IN
    /\ \E q \in Procs : procs[q].st = "unborn"
    /\ procs' = [procs EXCEPT ![p] = [st |-> "starting", bin |-> disk.proxy, own |-> mgr.inc]]
    /\ cmd' = p
    /\ reap' = [reap EXCEPT ![p] = "waiting"]

\* Start: nothing to do while a process is supervised; no process without a
\* binary, or when the configuration, the log file or exec fails.
Start(ok) ==
    \/ cmd # 0 /\ ok /\ UNCHANGED <<procs, cmd, reap>> /\ Works
    \/ cmd = 0 /\ ok /\ disk.proxy # "none" /\ Spawn /\ Works
    \/ cmd = 0 /\ ~ok /\ UNCHANGED <<procs, cmd, reap>>
       /\ \/ disk.proxy = "none" /\ Works
          \/ budget.refused > 0 /\ budget' = [budget EXCEPT !.refused = @ - 1]

\* Mutant: the value is sent first, and the state is left as it is.
ReapSendsFirst(p) ==
    /\ reap[p] = "waiting" /\ procs[p].st = "dead"
    /\ reap' = [reap EXCEPT ![p] = "sent"]
    /\ UNCHANGED <<procs, port, cmd, th, lock, disk, mgr, budget>>

\* wait: Wait returns, the supervisor's state is cleared ...
Reap(p) ==
    /\ reap[p] = "waiting" /\ procs[p].st = "dead"
    /\ reap' = [reap EXCEPT ![p] = "cleared"]
    /\ cmd' = IF cmd = p THEN 0 ELSE cmd
    /\ UNCHANGED <<procs, port, th, lock, disk, mgr, budget>>

\* ... and then one value is sent on done, which holds one.
SendDone(p) ==
    /\ reap[p] = "cleared"
    /\ reap' = [reap EXCEPT ![p] = "sent"]
    /\ UNCHANGED <<procs, port, cmd, th, lock, disk, mgr, budget>>

-----------------------------------------------------------------------------
(* Stop and Restart                                                         *)

\* What follows Stop in the call that made it
AfterStop(op) ==
    CASE op \in {"restart", "config"} -> "start"
      [] op = "deploy" -> "mirror"
      [] OTHER -> "return"

\* SIGTERM, and on Windows a kill
Signal(p) ==
    IF Here.windows THEN Ends({p})
    ELSE /\ procs' = [procs EXCEPT ![p].st = IF Alive(p) THEN "term" ELSE @]
         /\ UNCHANGED port

\* Stop: read cmd and done, signal the process, then wait for it.
Stop(t) ==
    /\ th[t].pc = "stop"
    /\ IF cmd = 0
       THEN Goto(t, AfterStop(th[t].op)) /\ UNCHANGED <<procs, port>>
       ELSE /\ Signal(cmd)
            /\ th' = [th EXCEPT ![t].pc = "wait", ![t].tgt = cmd]
    /\ UNCHANGED <<cmd, reap, lock, disk, mgr, budget>>

\* The deadline passes or the request's context is cancelled: kill, then wait
\* for the reaper without a limit.
StopDeadline(t) ==
    /\ th[t].pc = "wait"
    /\ Ends({th[t].tgt})
    /\ Goto(t, "kill")
    /\ UNCHANGED <<cmd, reap, lock, disk, mgr, budget>>

\* The value of done is received.  Callers ignore DeadlineExceeded; after
\* Canceled, Restart and installSourceZip return without going on.
StopDone(t) ==
    /\ th[t].pc \in {"wait", "kill"}
    /\ reap[th[t].tgt] = "sent"
    /\ reap' = [reap EXCEPT ![th[t].tgt] = "taken"]
    /\ IF th[t].pc = "kill" /\ th[t].gone THEN Return(t, "cancelled")
       ELSE Goto(t, AfterStop(th[t].op)) /\ UNCHANGED lock
    /\ UNCHANGED <<procs, port, cmd, disk, mgr, budget>>

\* stopProxy answers
StopReturns(t) ==
    /\ th[t].pc = "return"
    /\ Return(t, "ok")
    /\ UNCHANGED <<procs, port, cmd, reap, disk, mgr, budget>>

\* Start of startProxy and of Restart
StartStep(t) ==
    /\ th[t].pc = "start"
    /\ \E ok \in BOOLEAN : Start(ok) /\ Return(t, IF ok THEN "ok" ELSE "failed")
    /\ UNCHANGED <<port, disk, mgr>>

\* The client of a handler disconnects: its request context is cancelled.
ClientGone(t) ==
    /\ th[t].pc # "idle" /\ ~th[t].gone
    /\ t # Boot /\ budget.gone > 0
    /\ budget' = [budget EXCEPT !.gone = @ - 1]
    /\ th' = [th EXCEPT ![t].gone = TRUE]
    /\ UNCHANGED <<procs, port, cmd, reap, lock, disk, mgr>>

-----------------------------------------------------------------------------
(* StartAfterDeployment                                                     *)

\* stopStaleManagedProxyProcesses: on Windows every process that runs the
\* managed binary is terminated; elsewhere nothing is done.
StopStale(t) ==
    /\ th[t].pc = "stale"
    /\ IF Here.windows THEN Ends(Procs) ELSE UNCHANGED <<procs, port>>
    /\ Goto(t, "begin")
    /\ UNCHANGED <<cmd, reap, lock, disk, mgr, budget>>

\* What a deployment or the start of a manager does when its proxy is ready
\* or has failed
Deployed(t, res) ==
    IF th[t].op = "boot"
    THEN th' = [th EXCEPT ![t].pc = "auto", ![t].res = res] /\ UNCHANGED lock
    ELSE Return(t, res)

StartDeployed(t) ==
    /\ th[t].pc = "begin"
    /\ \/ Start(TRUE) /\ Goto(t, "ready") /\ UNCHANGED lock
       \/ Start(FALSE) /\ Deployed(t, "failed")
    /\ UNCHANGED <<port, disk, mgr>>

\* In the 300 ms between two healthy answers a process that finds the port
\* taken exits and is reaped, where the scene's proxy is prompt.
Settled == Here.prompt => (cmd = 0 \/ procs[cmd].st \in {"up", "term"})

\* Mutant: the first healthy answer counts.
ReadyAtOnce(t) ==
    /\ th[t].pc \in {"ready", "ready2"}
    /\ \/ cmd = 0 /\ Deployed(t, "failed") /\ Works
       \/ cmd # 0 /\ port # 0 /\ Deployed(t, "ok") /\ Works
       \/ cmd # 0 /\ ((th[t].gone /\ Works) \/ Fails) /\ Deployed(t, "failed")
    /\ UNCHANGED <<procs, port, cmd, reap, disk, mgr>>

\* waitUntilProxyReady: a supervised process and healthy answers 300 ms apart,
\* before the limit.
Ready(t) ==
    /\ th[t].pc \in {"ready", "ready2"}
    /\ \/ cmd = 0 /\ Deployed(t, "failed") /\ Works
       \/ cmd # 0 /\ port # 0 /\ th[t].pc = "ready" /\ Goto(t, "ready2") /\ UNCHANGED lock /\ Works
       \/ cmd # 0 /\ port = 0 /\ th[t].pc = "ready2" /\ Goto(t, "ready") /\ UNCHANGED lock /\ Works
       \/ cmd # 0 /\ port # 0 /\ th[t].pc = "ready2" /\ Settled /\ Deployed(t, "ok") /\ Works
       \/ cmd # 0 /\ ((th[t].gone /\ Works) \/ Fails) /\ Deployed(t, "failed")
    /\ UNCHANGED <<procs, port, cmd, reap, disk, mgr>>

-----------------------------------------------------------------------------
(* Build                                                                    *)

\* A build that fails: buildProxy answers, a deployment removes the manager it
\* had staged and goes back to the proxy it had stopped.
BuildFailed(t) ==
    IF th[t].op = "build" THEN Return(t, "failed") /\ UNCHANGED disk
    ELSE /\ Goto(t, "recover")
         /\ disk' = [disk EXCEPT !.staged = "none"]
         /\ UNCHANGED lock

\* The go command compiles what the source tree holds, into a staged file; it
\* is killed when the request's context is cancelled.
Build(t) ==
    /\ th[t].pc = "build"
    /\ \/ /\ Works /\ UNCHANGED <<lock, disk>>
          /\ th' = [th EXCEPT ![t].pc = "promote", ![t].art = disk.src]
       \/ (Fails \/ (th[t].gone /\ Works)) /\ BuildFailed(t)
    /\ UNCHANGED <<procs, port, cmd, reap, mgr>>

\* Mutant: the installed binary is removed, not renamed.
PromoteRemoves(t) ==
    /\ th[t].pc = "promote"
    /\ Works /\ UNCHANGED lock
    /\ disk' = [disk EXCEPT !.proxy = "none"]
    /\ th' = [th EXCEPT ![t].pc = "install", ![t].bak = FALSE]
    /\ UNCHANGED <<procs, port, cmd, reap, mgr>>

\* promoteStagedBinary: the installed binary is renamed out of the way ...
Promote(t) ==
    /\ th[t].pc = "promote"
    /\ \/ /\ Works /\ UNCHANGED lock
          /\ th' = [th EXCEPT ![t].pc = "install", ![t].bak = disk.proxy # "none"]
          /\ disk' = IF disk.proxy = "none" THEN disk
                     ELSE [disk EXCEPT !.proxy = "none", !.prev = disk.proxy]
       \/ disk.proxy # "none" /\ Fails /\ BuildFailed(t)
    /\ UNCHANGED <<procs, port, cmd, reap, mgr>>

\* The install fails, and these binaries are left.
InstallFailed(t, left) ==
    IF th[t].op = "build" THEN Return(t, "failed") /\ disk' = left
    ELSE Goto(t, "recover") /\ disk' = [left EXCEPT !.staged = "none"] /\ UNCHANGED lock

\* The old binary comes back, if there was one.
Restored(t) ==
    IF th[t].bak /\ disk.prev # "none" THEN [disk EXCEPT !.proxy = disk.prev, !.prev = "none"] ELSE disk

\* ... the staged one takes its place, or the old one is renamed back; the error
\* of that rename is ignored, and where it fails the binary keeps its other name ...
Install(t) ==
    /\ th[t].pc = "install"
    /\ \/ Works /\ disk' = [disk EXCEPT !.proxy = th[t].art] /\ Goto(t, "unlink") /\ UNCHANGED lock
       \/ Fails /\ InstallFailed(t, Restored(t))
       \/ th[t].bak /\ FailsTwice /\ InstallFailed(t, disk)
    /\ UNCHANGED <<procs, port, cmd, reap, mgr>>

\* ... and the backup is removed, or left when that fails.
Unlink(t) ==
    /\ th[t].pc = "unlink"
    /\ \/ Works /\ disk' = IF th[t].bak THEN [disk EXCEPT !.prev = "none"] ELSE disk
       \/ th[t].bak /\ Fails /\ UNCHANGED disk
    /\ IF th[t].op = "build" THEN Return(t, "ok") ELSE Goto(t, "built") /\ UNCHANGED lock
    /\ UNCHANGED <<procs, port, cmd, reap, mgr>>
=============================================================================
