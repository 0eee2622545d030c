---------------------------- MODULE ManagerUpgrade ----------------------------
(***************************************************************************)
(* Deployments of the tray manager (internal/traymgr/deploy.go, server.go,   *)
(* manager_upgrade.go, cmd/tray/tray.go).  A deployment stops the proxy,      *)
(* mirrors the uploaded source, builds the proxy, the manager or both, and    *)
(* starts the proxy again.  A new manager cannot replace the one that runs:   *)
(* the deployment launches the staged binary as a finalizer and lets the      *)
(* manager exit.  The finalizer waits for that, installs the binary with two  *)
(* renames, launches it, waits until it answers and otherwise rolls back.     *)
(*                                                                          *)
(* A manager that exits loses the handle of its proxy; the proxy stays.       *)
(***************************************************************************)
EXTENDS Supervisor

VARIABLE fin      \* the finalizer process

vars == <<scene, procs, port, cmd, reap, th, lock, disk, mgr, budget, fin>>

NoFinalizer == [pc |-> "none", start |-> FALSE, bak |-> FALSE]

PCs == {"idle", "start", "stop", "wait", "kill", "return", "build", "promote", "install", "unlink",
        "lock", "unzip", "mirror", "mirrored", "manager", "recover", "built", "launch",
        "stale", "begin", "ready", "ready2", "auto", "listen"}
Calls == [op : Ops \cup {"none"}, pc : PCs, tgt : 0 .. MaxProcs, was : BOOLEAN, bak : BOOLEAN,
          art : Versions, gone : BOOLEAN, res : {"none", "ok", "failed", "cancelled"}]
Stages == {"unborn", "starting", "up", "term", "dead"}
Processes == [st : Stages, bin : Versions, own : Nat]
Disks == [src : Versions, proxy : Versions, prev : Versions,
          manager : Versions, mprev : Versions, staged : {"none", "new"}]
Managers == [st : {"up", "boot", "down"}, inc : Nat, bin : Versions, exit : BOOLEAN]
Finalizers == [pc : {"none", "down", "backup", "install", "launch", "ready", "rollback",
                     "restore", "relaunch", "cleanup", "end"},
               start : BOOLEAN, bak : BOOLEAN]

(***************************************************************************)
(* TypeOK: every variable has the shape of the fields it models.            *)
(***************************************************************************)
TypeOK ==
    /\ scene \in DOMAIN Scenes
    /\ procs \in [Procs -> Processes]
    /\ port \in 0 .. MaxProcs
    /\ cmd \in 0 .. MaxProcs
    /\ reap \in [Procs -> {"none", "waiting", "cleared", "sent", "taken"}]
    /\ th \in [Threads -> Calls]
    /\ lock \in Threads \cup {Nobody}
    /\ disk \in Disks
    /\ mgr \in Managers
    /\ budget \in Budgets
    /\ fin \in Finalizers

\* The manager runs and has started the proxy that its binary holds.
Init ==
    /\ scene \in DOMAIN Scenes
    /\ procs = [p \in Procs |-> IF p = 1 THEN [st |-> "up", bin |-> "old", own |-> 1]
                                ELSE [st |-> "unborn", bin |-> "none", own |-> 0]]
    /\ port = 1
    /\ cmd = 1
    /\ reap = [p \in Procs |-> IF p = 1 THEN "waiting" ELSE "none"]
    /\ th = [t \in Threads |-> Idle]
    /\ lock = Nobody
    /\ disk = [src |-> "old", proxy |-> "old", prev |-> "none",
               manager |-> "old", mprev |-> "none", staged |-> "none"]
    /\ mgr = [st |-> "up", inc |-> 1, bin |-> "old", exit |-> FALSE]
    /\ budget = Here.budget
    /\ fin = NoFinalizer

-----------------------------------------------------------------------------
(* Requests                                                                 *)

\* The first step of a call; putProxyConfig restarts the proxy only where it runs.
FirstStep(op) ==
    CASE op \in {"start", "build"} -> op
      [] op = "deploy" -> "lock"
      [] op = "config" /\ cmd = 0 -> "return"
      [] OTHER -> "stop"

\* A request is accepted, or an entry of the tray's menu is clicked.
Begin(t, op) ==
    /\ mgr.st = "up" /\ th[t].pc = "idle" /\ t # Boot
    /\ budget.ops > 0 /\ op \in Here.ops[t]
    /\ budget' = [budget EXCEPT !.ops = @ - 1]
    /\ th' = [th EXCEPT ![t] = [Idle EXCEPT !.op = op, !.pc = FirstStep(op)]]
    /\ UNCHANGED <<procs, port, cmd, reap, lock, disk, mgr, fin>>

BuildsProxy == Here.component \in {"proxy", "all"}
BuildsManager == Here.component \in {"manager", "all"}

\* DeployZipWithOptions: take deployMu, remove what earlier deployments left.
Deploy(t) ==
    /\ th[t].pc = "lock" /\ lock = Nobody
    /\ lock' = t
    /\ disk' = [disk EXCEPT !.prev = "none", !.mprev = "none", !.staged = "none"]
    /\ Goto(t, "unzip")
    /\ UNCHANGED <<procs, port, cmd, reap, mgr, budget, fin>>

\* installSourceZip: a zip that cannot be used ends it before anything changes.
Unzip(t) ==
    /\ th[t].pc = "unzip"
    /\ \/ Fails /\ Return(t, "failed")
       \/ /\ Works /\ UNCHANGED lock
          /\ th' = [th EXCEPT ![t].was = cmd # 0,
                              ![t].pc = IF cmd # 0 THEN "stop" ELSE "mirror"]
    /\ UNCHANGED <<procs, port, cmd, reap, disk, mgr, fin>>

\* mirrorSourceTree replaces one file after the other ...
Mirror(t) ==
    /\ th[t].pc = "mirror"
    /\ disk' = [disk EXCEPT !.src = "mixed"]
    /\ Goto(t, "mirrored")
    /\ UNCHANGED <<procs, port, cmd, reap, lock, mgr, budget, fin>>

\* ... until the last, or until a file stays locked for the ten seconds that
\* retryDeploymentFileOp tries.
Mirrored(t) ==
    /\ th[t].pc = "mirrored"
    /\ \/ /\ Works /\ disk' = [disk EXCEPT !.src = "new"]
          /\ Goto(t, IF BuildsManager THEN "manager" ELSE "build")
       \/ Fails /\ Goto(t, "recover") /\ UNCHANGED disk
    /\ UNCHANGED <<procs, port, cmd, reap, lock, mgr, fin>>

\* BuildManager: into a staged file beside the target
BuildManager(t) ==
    /\ th[t].pc = "manager"
    /\ \/ /\ Works /\ disk' = [disk EXCEPT !.staged = "new"]
          /\ Goto(t, IF BuildsProxy THEN "build" ELSE "built")
       \/ (Fails \/ (th[t].gone /\ Works)) /\ Goto(t, "recover") /\ UNCHANGED disk
    /\ UNCHANGED <<procs, port, cmd, reap, lock, mgr, fin>>

\* Mutant: a deployment that failed leaves the proxy stopped.
RecoverNothing(t) ==
    /\ th[t].pc = "recover"
    /\ UNCHANGED <<procs, cmd, reap, budget>> /\ Return(t, "failed")
    /\ UNCHANGED <<port, disk, mgr, fin>>

\* recoverProxy: the proxy that was stopped is started again.
Recover(t) ==
    /\ th[t].pc = "recover"
    /\ IF th[t].was THEN \E ok \in BOOLEAN : Start(ok)
       ELSE UNCHANGED <<procs, cmd, reap, budget>>
    /\ Return(t, "failed")
    /\ UNCHANGED <<port, disk, mgr, fin>>

\* Everything is built: the manager's restart starts the proxy, or this one does.
Built(t) ==
    /\ th[t].pc = "built"
    /\ IF BuildsManager THEN Goto(t, "launch") /\ lock' = Nobody
       ELSE IF th[t].was \/ Here.restart THEN Goto(t, "stale") /\ UNCHANGED lock
       ELSE Return(t, "ok")
    /\ UNCHANGED <<procs, port, cmd, reap, disk, mgr, budget, fin>>

\* The handler launches the finalizer, answers and lets the manager exit; when
\* that fails it removes the staged manager and starts the proxy itself.
LaunchFinalizer(t) ==
    LET starts == th[t].was \/ Here.restart IN
    /\ th[t].pc = "launch" /\ fin.pc \in {"none", "end"}
    /\ \/ /\ Works /\ Return(t, "ok")
          /\ fin' = [pc |-> "down", start |-> starts, bak |-> FALSE]
          /\ mgr' = [mgr EXCEPT !.exit = TRUE]
          /\ UNCHANGED <<procs, cmd, reap, disk>>
       \/ /\ Fails
          /\ disk' = [disk EXCEPT !.staged = "none"]
          /\ IF starts /\ cmd = 0 /\ disk.proxy # "none" THEN Spawn ELSE UNCHANGED <<procs, cmd, reap>>
          /\ Return(t, "failed")
          /\ UNCHANGED <<mgr, fin>>
    /\ UNCHANGED port

-----------------------------------------------------------------------------
(* The manager process                                                      *)

\* A manager that ends takes its goroutines and its handle of the proxy along.
ManagerEnds ==
    /\ mgr' = [mgr EXCEPT !.st = "down", !.exit = FALSE]
    /\ cmd' = 0
    /\ reap' = [p \in Procs |-> IF reap[p] = "none" THEN "none" ELSE "taken"]
    /\ th' = [t \in Threads |-> Idle]
    /\ lock' = Nobody

\* scheduleManagerProcessExit
ManagerExits ==
    /\ mgr.st = "up" /\ mgr.exit
    /\ ManagerEnds
    /\ UNCHANGED <<procs, port, disk, budget, fin>>

\* The operator quits the tray, or the manager crashes.
ManagerQuits ==
    /\ mgr.st = "up" /\ budget.quits > 0
    /\ budget' = [budget EXCEPT !.quits = @ - 1]
    /\ ManagerEnds
    /\ UNCHANGED <<procs, port, disk, fin>>

\* A binary that exits before it answers, or that never answers
Bad == mgr.bin = "new" /\ Here.bad # "no"

ManagerFails ==
    /\ mgr.st = "boot" /\ Bad /\ Here.bad = "exits"
    /\ ManagerEnds
    /\ UNCHANGED <<procs, port, disk, budget, fin>>

\* onReady of a manager process, with the flag to start the proxy
Launch(flag) ==
    /\ mgr' = [st |-> "boot", inc |-> mgr.inc + 1, bin |-> disk.manager, exit |-> FALSE]
    /\ th' = [th EXCEPT ![Boot] = [Idle EXCEPT !.op = "boot", !.pc = IF flag THEN "stale" ELSE "auto"]]

\* The operator launches the manager again.
OperatorLaunches ==
    /\ mgr.st = "down" /\ fin.pc \in {"none", "end"}
    /\ disk.manager # "none" /\ budget.launches > 0
    /\ budget' = [budget EXCEPT !.launches = @ - 1]
    /\ Launch(FALSE)
    /\ UNCHANGED <<procs, port, cmd, reap, lock, disk, fin>>

\* App.Run: start the proxy where auto_start is set ...
AutoStart ==
    /\ th[Boot].pc = "auto"
    /\ IF Here.auto THEN \E ok \in BOOLEAN : Start(ok) ELSE UNCHANGED <<procs, cmd, reap, budget>>
    /\ Goto(Boot, "listen")
    /\ UNCHANGED <<port, lock, disk, mgr, fin>>

\* ... and listen; the staged binary that was its finalizer is removed.
ManagerListens ==
    /\ th[Boot].pc = "listen" /\ ~Bad
    /\ mgr' = [mgr EXCEPT !.st = "up"]
    /\ disk' = [disk EXCEPT !.staged = "none"]
    /\ th' = [th EXCEPT ![Boot] = Idle]
    /\ UNCHANGED <<procs, port, cmd, reap, lock, budget, fin>>

-----------------------------------------------------------------------------
(* FinalizeManagerUpgrade                                                   *)

Fin(pc) == fin' = [fin EXCEPT !.pc = pc]

\* waitForManagerDown: it answers as long as it runs.  (That it still does at the
\* limit ends the finalizer: FinKilled.)
FinDown ==
    /\ fin.pc = "down" /\ mgr.st = "down"
    /\ Fin("backup")
    /\ UNCHANGED <<procs, port, cmd, reap, th, lock, disk, mgr, budget>>

\* installManagerBinary: after a failure it tries again until its limit.
RetryOrGiveUp == Fin("backup") \/ Fin("relaunch")

\* installManagerBinaryOnce: copy, and rename the target out of the way.
FinBackup ==
    /\ fin.pc = "backup"
    /\ \/ /\ disk.staged # "none" /\ Works
          /\ fin' = [fin EXCEPT !.pc = "install", !.bak = disk.manager # "none"]
          /\ disk' = IF disk.manager = "none" THEN disk
                     ELSE [disk EXCEPT !.manager = "none", !.mprev = disk.manager]
       \/ Fails /\ RetryOrGiveUp /\ UNCHANGED disk
       \/ disk.staged = "none" /\ Works /\ Fin("relaunch") /\ UNCHANGED disk
    /\ UNCHANGED <<procs, port, cmd, reap, th, lock, mgr>>

\* The copy takes the target's place, or the previous binary comes back to it;
\* that rename may fail too.
FinInstall ==
    /\ fin.pc = "install"
    /\ \/ Works /\ disk' = [disk EXCEPT !.manager = "new"] /\ Fin("launch")
       \/ /\ Fails /\ RetryOrGiveUp
          /\ disk' = IF fin.bak THEN [disk EXCEPT !.manager = disk.mprev, !.mprev = "none"] ELSE disk
       \/ FailsTwice /\ fin.bak /\ RetryOrGiveUp /\ UNCHANGED disk
    /\ UNCHANGED <<procs, port, cmd, reap, th, lock, mgr>>

\* launchManagerBinary
FinLaunch ==
    /\ fin.pc = "launch"
    /\ \/ Works /\ Launch(fin.start) /\ Fin("ready")
       \/ Fails /\ Fin("rollback") /\ UNCHANGED <<mgr, th>>
    /\ UNCHANGED <<procs, port, cmd, reap, lock, disk>>

\* waitForManagerReady: it answers, it exits, or it is killed at the limit.
FinReady ==
    /\ fin.pc = "ready"
    /\ \/ mgr.st = "up" /\ Fin("cleanup") /\ Works /\ UNCHANGED <<mgr, cmd, reap, th, lock>>
       \/ mgr.st = "down" /\ Fin("rollback") /\ Works /\ UNCHANGED <<mgr, cmd, reap, th, lock>>
       \/ /\ mgr.st = "boot" /\ ((Bad /\ Works) \/ Fails)
          /\ ManagerEnds /\ Fin("rollback")
    /\ UNCHANGED <<procs, port, disk>>

\* rollbackManagerUpgrade: remove the target ...
FinRollback ==
    /\ fin.pc = "rollback"
    /\ \/ fin.bak /\ Works /\ disk' = [disk EXCEPT !.manager = "none"] /\ Fin("restore")
       \/ fin.bak /\ Fails /\ UNCHANGED disk /\ Fin("relaunch")
       \/ ~fin.bak /\ Works /\ UNCHANGED disk /\ Fin("relaunch")
    /\ UNCHANGED <<procs, port, cmd, reap, th, lock, mgr>>

\* ... and rename the backup to it.
FinRestore ==
    /\ fin.pc = "restore"
    /\ \/ Works /\ disk' = [disk EXCEPT !.manager = disk.mprev, !.mprev = "none"]
       \/ Fails /\ UNCHANGED disk
    /\ Fin("relaunch")
    /\ UNCHANGED <<procs, port, cmd, reap, th, lock, mgr>>

\* relaunchManagerAfterFailedUpgrade: whatever the target is now
FinRelaunch ==
    /\ fin.pc = "relaunch" /\ Fin("end")
    /\ \/ disk.manager # "none" /\ Works /\ Launch(fin.start)
       \/ (Fails \/ (disk.manager = "none" /\ Works)) /\ UNCHANGED <<mgr, th>>
    /\ UNCHANGED <<procs, port, cmd, reap, lock, disk>>

\* cleanupManagerInstallBackup
FinCleanup ==
    /\ fin.pc = "cleanup" /\ Fin("end")
    /\ \/ Works /\ disk' = IF fin.bak THEN [disk EXCEPT !.mprev = "none"] ELSE disk
       \/ Fails /\ UNCHANGED disk
    /\ UNCHANGED <<procs, port, cmd, reap, th, lock, mgr>>

\* The finalizer is killed between two of its steps, or gives up on a manager
\* that does not exit.
FinKilled ==
    /\ fin.pc \notin {"none", "end"} /\ budget.kills > 0
    /\ budget' = [budget EXCEPT !.kills = @ - 1]
    /\ Fin("end")
    /\ UNCHANGED <<procs, port, cmd, reap, th, lock, disk, mgr>>

-----------------------------------------------------------------------------
SupervisorStep(t) ==
    /\ \/ Stop(t) \/ StopDeadline(t) \/ StopDone(t) \/ StopReturns(t) \/ StartStep(t)
       \/ StopStale(t) \/ StartDeployed(t) \/ Ready(t)
       \/ Build(t) \/ Promote(t) \/ Install(t) \/ Unlink(t)
    /\ UNCHANGED fin

DeployStep(t) ==
    \/ Deploy(t) \/ Unzip(t) \/ Mirror(t) \/ Mirrored(t) \/ BuildManager(t)
    \/ Recover(t) \/ Built(t) \/ LaunchFinalizer(t)

ProcessStep(p) ==
    (Listens(p) \/ Reap(p) \/ SendDone(p)) /\ UNCHANGED fin

Finalizer ==
    \/ FinDown \/ FinBackup \/ FinInstall \/ FinLaunch \/ FinReady
    \/ FinRollback \/ FinRestore \/ FinRelaunch \/ FinCleanup

\* What the program and the scheduler do by themselves
System ==
    \/ \E t \in Threads : SupervisorStep(t) \/ DeployStep(t)
    \/ \E p \in Procs : ProcessStep(p)
    \/ ManagerExits \/ ManagerFails \/ AutoStart \/ ManagerListens
    \/ Finalizer

\* What operators, clients and failures do
Environment ==
    \/ \E t \in Callers, op \in Ops : Begin(t, op)
    \/ \E t \in Callers : ClientGone(t) /\ UNCHANGED fin
    \/ \E p \in Procs : (Exits(p) \/ Crashes(p)) /\ UNCHANGED fin
    \/ ManagerQuits \/ OperatorLaunches \/ FinKilled

Next == (System \/ Environment) /\ UNCHANGED scene

Spec == Init /\ [][Next]_vars
\* The program goes on as long as one of its steps is possible: every deadline
\* passes, every runnable goroutine runs.  Nothing is asked of operators, and
\* nothing of a process that was sent SIGTERM.
FairSpec == Spec /\ WF_vars(System /\ UNCHANGED scene)

-----------------------------------------------------------------------------
(***************************************************************************)
(* OneChild: a process that the running manager has started and that still   *)
(* lives is the one it supervises; Start never loses sight of a process that *)
(* is on its way out.                                                        *)
(***************************************************************************)
OneChild == \A p \in Procs : Alive(p) /\ procs[p].own = mgr.inc /\ mgr.st # "down" => cmd = p

(***************************************************************************)
(* BinaryKept: a binary of the proxy and of the manager is left, installed   *)
(* or under its .previous name, and until an upgraded manager has answered   *)
(* that is the previous manager: of one request whatever fails, the renames  *)
(* back included, and wherever the manager or the finalizer is killed; of    *)
(* several as long as the proxy's binary could be renamed back each time     *)
(* (the next deployment removes what is left under the .previous name).      *)
(***************************************************************************)
BinaryKept ==
    /\ disk.proxy = "none" => disk.prev # "none"
    /\ disk.manager = "none" => disk.mprev # "none"
    /\ fin.pc \notin {"none", "cleanup", "end"} /\ mgr.st # "up"
         => "old" \in {disk.manager, disk.mprev}

(***************************************************************************)
(* RestartReplaces: a Restart that succeeds, raced by other calls, ends with *)
(* a supervised process other than the one it stopped ("silent no-op" in the *)
(* comment of wait).                                                         *)
(***************************************************************************)
RestartReplaces ==
    [][\A t \in Callers :
        th[t].op \in {"restart", "config"} /\ th[t].pc = "start" /\ th'[t].res = "ok"
          => cmd' \notin {0, th[t].tgt}]_vars

(***************************************************************************)
(* DeployedServes: when a deployment, or a manager started by an upgrade,     *)
(* reports that the proxy is ready, the process on the API port is the one it *)
(* supervises and runs the installed binary - not a leftover of an earlier    *)
(* manager that answers in its place.                                         *)
(***************************************************************************)
DeployedServes ==
    [][\A t \in Threads :
        th[t].pc \in {"ready", "ready2"} /\ th'[t].pc \in {"idle", "auto"} /\ th'[t].res = "ok"
          => port = cmd /\ procs[port].bin = disk.proxy]_vars

(***************************************************************************)
(* StoppedIsReaped: of the calls that stop a process one returns, whether     *)
(* the process obeys SIGTERM, ignores it or has died by itself.               *)
(***************************************************************************)
StoppedIsReaped ==
    \A t \in Callers, p \in Procs :
        (th[t].pc \in {"wait", "kill"} /\ th[t].tgt = p) ~> (reap[p] = "taken")

(***************************************************************************)
(* StaysSupervised: whatever the tray and the web page ask for at the same   *)
(* time, the manager knows the one process it has started and a restart      *)
(* replaces it (Start, Stop, Restart, wait).                                 *)
(***************************************************************************)
StaysSupervised == []OneChild /\ RestartReplaces

\* Nobody but this deployment will touch the proxy.
Undisturbed(t) ==
    /\ budget.ops = 0 /\ budget.crashes = 0 /\ budget.quits = 0 /\ budget.kills = 0
    /\ budget.refused = 0
    /\ \A u \in Threads \ {t} : th[u].pc = "idle"

\* A binary could not be renamed back, and nobody will do it now.
LeftTorn == Torn /\ fin.pc \in {"none", "end"} /\ "none" \in {disk.proxy, disk.manager}

(***************************************************************************)
(* ProxyComesBack: a deployment that has stopped the proxy ends with a proxy *)
(* that serves, even when its mirroring, a build, an install or the launch   *)
(* of the finalizer fails, or the manager it installs is a bad one.  Only    *)
(* where a binary could not be renamed back it ends without.                 *)
(***************************************************************************)
ProxyComesBack ==
    \A t \in Callers :
        (th[t].pc = "mirror" /\ th[t].was /\ Undisturbed(t))
          ~> (port # 0 \/ (th[t].pc = "idle" /\ LeftTorn))

(***************************************************************************)
(* ManagerComesBack: once a finalizer has been launched a manager answers    *)
(* again: the new one, or after a failure of any step the previous one, but   *)
(* for a previous one that could not be renamed back.                        *)
(***************************************************************************)
ManagerComesBack ==
    (fin.pc = "down" /\ budget.kills = 0 /\ budget.quits = 0)
      ~> (fin.pc = "end" /\ (mgr.st = "up" \/ LeftTorn))

(***************************************************************************)
(* ComesBack: a stop ends the process, a deployment or an upgrade that fails *)
(* half-way ends with a proxy that serves and a manager that answers.        *)
(***************************************************************************)
ComesBack == StoppedIsReaped /\ ProxyComesBack /\ ManagerComesBack

\* Stated for reproductions.  Every Stop returns; a process on the port of a
\* manager that runs is supervised; a deployment that stops the proxy brings it
\* back from its first step on.
EveryStopReturns == \A t \in Callers : (th[t].pc \in {"wait", "kill"}) ~> (th[t].pc \notin {"wait", "kill"})
ServedIsSupervised == (fin.pc = "end" /\ budget.ops = 0) ~> (mgr.st = "up" /\ port = cmd)
StoppedComesBack ==
    \A t \in Callers :
        (th[t].pc = "wait" /\ th[t].op = "deploy" /\ Undisturbed(t)) ~> (port # 0 /\ procs[port].st # "term")
=============================================================================
