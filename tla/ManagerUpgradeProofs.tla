------------------------- MODULE ManagerUpgradeProofs -------------------------
(***************************************************************************)
(* Proofs about ManagerUpgrade, for any number of clients, processes and    *)
(* requests, and for every scene.                                           *)
(***************************************************************************)
EXTENDS ManagerUpgrade, WellFoundedInduction, TLAPS

-----------------------------------------------------------------------------
(* The invariants.                                                          *)

\* The steps of each request.
StopPCs == {"stop", "wait", "kill"}
BuildPCs == {"build", "promote", "install", "unlink"}
DeployPCs == StopPCs \cup BuildPCs \cup
             {"lock", "unzip", "mirror", "mirrored", "manager", "recover", "built", "launch",
              "stale", "begin", "ready", "ready2"}
BootPCs == {"stale", "begin", "ready", "ready2", "auto", "listen"}

CallShape(op, pc) ==
    \/ op = "none" /\ pc = "idle"
    \/ op = "start" /\ pc = "start"
    \/ op = "stop" /\ pc \in StopPCs \cup {"return"}
    \/ op \in {"restart", "config"} /\ pc \in StopPCs \cup {"start", "return"}
    \/ op = "build" /\ pc \in BuildPCs
    \/ op = "deploy" /\ pc \in DeployPCs
    \/ op = "boot" /\ pc \in BootPCs

\* A request is at a step of its operation; only a manager process boots.
CallsInv ==
    /\ \A t \in Threads : CallShape(th[t].op, th[t].pc)
    /\ \A t \in Threads : th[t].op # "none" => (th[t].op = "boot" <=> t = Boot)
    /\ \A c \in Callers : th[c].pc # "idle" => th[c].res = "none"

\* The manager knows the processes it has started.
ChildInv ==
    /\ OneChild
    /\ \A p \in Procs : procs[p].own <= mgr.inc
    /\ \A p \in Procs : reap[p] = "none" <=> procs[p].st = "unborn"
    /\ cmd # 0 => reap[cmd] = "waiting" /\ procs[cmd].own = mgr.inc

\* What a call has stopped has been there, and is gone when it goes on.
StopAt(pc, tgt) ==
    /\ pc \in {"lock", "unzip", "stop"} => tgt = 0
    /\ pc \in {"wait", "kill"} => tgt # 0
    /\ tgt # 0 => procs[tgt].st # "unborn"
    /\ pc = "start" /\ tgt # 0 => reap[tgt] = "taken"

StopInv == \A t \in Threads : StopAt(th[t].pc, th[t].tgt)

\* Who may be at work, given the state of the manager process.
ManagerInv ==
    /\ mgr.st = "down" => cmd = 0 /\ lock = Nobody /\ \A t \in Threads : th[t].pc = "idle"
    /\ mgr.st = "boot" => lock = Nobody /\ \A c \in Callers : th[c].pc = "idle"
    /\ mgr.st = "up" => th[Boot].pc = "idle"
    /\ fin.pc \in {"backup", "install", "launch", "rollback", "restore", "relaunch"} => mgr.st = "down"

-----------------------------------------------------------------------------
\* A scene with one request, and one in which clients deploy and control the
\* proxy but do not build it elsewhere, while the manager stays.
Lone == Here.budget.ops <= 1
ProxyOnly ==
    /\ Here.component = "proxy" /\ Here.budget.quits = 0
    /\ \A c \in Callers : "build" \notin Here.ops[c]
OneBuilds == Lone \/ ProxyOnly

\* In the latter every binary could be renamed back so far.
Steady == ProxyOnly /\ ~Torn
Orderly == Lone \/ Steady
TornInv == budget.torn <= Here.budget.torn

InBuild(t) == th[t].op \in {"build", "deploy"} /\ th[t].pc # "lock"

LoneInv ==
    /\ budget.ops <= 1
    /\ budget.ops = 1 => \A c \in Callers : th[c].pc = "idle"
    /\ \A c, d \in Callers : th[c].pc # "idle" /\ th[d].pc # "idle" => c = d
    /\ fin.pc # "none" => budget.ops = 0 /\ \A c \in Callers : th[c].pc = "idle"

ProxyOnlyInv ==
    /\ budget.quits = 0 /\ mgr.st = "up" /\ ~mgr.exit
    /\ fin.pc = "none"
    /\ \A c \in Callers : th[c].op # "build" /\ th[c].pc \notin {"manager", "launch"}
    /\ \A c \in Callers : InBuild(c) => lock = c

OrderlyInv == (Lone => LoneInv) /\ (ProxyOnly => ProxyOnlyInv)

\* A build installs something, and what it takes away it has kept.
BuildInv ==
    \A c \in Callers :
        /\ th[c].pc \in {"promote", "install"} => th[c].art # "none"
        /\ th[c].pc = "unlink" => disk.proxy # "none"
        /\ th[c].pc = "install" /\ Steady => th[c].bak

ProxyInv ==
    /\ disk.src # "none"
    /\ disk.proxy = "none" =>
        /\ disk.prev # "none"
        /\ Lone => budget.ops = 0 /\ \A c \in Callers : th[c].pc # "lock"
        /\ Steady => \E c \in Callers : th[c].pc = "install"

\* Where the two binaries of the manager are at each step of the finalizer.
FinInv ==
    LET pc == fin.pc
    IN  /\ pc \in {"none", "down"} => disk.manager = "old"
        /\ pc = "backup" => disk.manager = "old" \/ (disk.manager = "none" /\ disk.mprev = "old")
        /\ pc = "relaunch" => disk.manager = "old" \/ disk.mprev = "old"
        /\ pc \in {"launch", "ready", "rollback"} => disk.manager = "new" /\ disk.mprev = "old"
        /\ pc \in {"install", "restore"} => disk.manager = "none" /\ disk.mprev = "old"
        /\ pc = "cleanup" => disk.manager = "new"
        /\ pc = "end" => disk.manager # "none" \/ disk.mprev # "none"

KeptInv == BuildInv /\ ProxyInv /\ FinInv

-----------------------------------------------------------------------------
\* A scene in which nobody else starts or builds the proxy: it has one request,
\* whose proxy claims its port or gives up in time, or clients stop and deploy
\* the proxy of a manager that stays.
DeployScene == ProxyOnly /\ \A c \in Callers : Here.ops[c] \subseteq {"stop", "deploy"}
DeploysAlone == (Lone /\ Here.prompt) \/ DeployScene

\* The port belongs to the process that listens.
PortInv ==
    /\ \A p \in Procs : procs[p].st = "up" => port = p
    /\ port # 0 => procs[port].st \in {"up", "term"}

\* From the moment it has stopped the proxy until it starts another one a
\* deployment finds none; then it finds its own.
Cleared(op, pc) ==
    \/ op = "deploy" /\ pc \notin {"lock", "unzip", "stop", "wait", "kill", "ready", "ready2"}
    \/ op = "boot" /\ pc \in {"stale", "begin"}

ServesAt(op, pc, tgt) ==
    /\ op = "deploy" /\ pc \in {"wait", "kill"} => cmd \in {0, tgt}
    /\ Cleared(op, pc) => cmd = 0
    /\ pc \in {"ready", "ready2"} /\ cmd # 0 =>
         procs[cmd].bin = disk.proxy /\ (Lone => procs[cmd].st # "term")

SceneInv ==
    DeployScene =>
        /\ mgr.inc = 1
        /\ \A p \in Procs : procs[p].st # "unborn" => procs[p].own = 1
        /\ \A c \in Callers : th[c].op \in {"none", "stop", "deploy"}

ServesInv == SceneInv /\ \A t \in Threads : ServesAt(th[t].op, th[t].pc, th[t].tgt)

-----------------------------------------------------------------------------
(* Types.                                                                   *)

LEMMA HereTyped ==
    ASSUME TypeOK
    PROVE  /\ Here.windows \in BOOLEAN /\ Here.component \in {"proxy", "manager", "all"}
           /\ Here.restart \in BOOLEAN
           /\ Here.ops \in [Callers -> SUBSET Requests] /\ Here.budget \in Budgets
BY ScenesAssumption DEF TypeOK, Here

\* A set of natural numbers has a least element, which Min chooses.
LEMMA MinIsLeast ==
    ASSUME NEW S \in SUBSET Nat, S # {}
    PROVE  Min(S) \in S
<1>1. \E x \in S : \A y \in S : ~(<<y, x>> \in OpToRel(<, Nat))
  BY NatLessThanWellFounded, WFMin
<1>2. PICK x \in S : \A y \in S : ~(<<y, x>> \in OpToRel(<, Nat))
  BY <1>1
<1>3. \A y \in S : x <= y
  <2> SUFFICES ASSUME NEW y \in S PROVE x <= y
    OBVIOUS
  <2>1. <<y, x>> \in Nat \X Nat /\ <<y, x>>[1] = y /\ <<y, x>>[2] = x
    OBVIOUS
  <2>2. ~(y < x)
    BY <2>1, <1>2 DEF OpToRel
  <2> QED BY <2>2
<1> QED BY <1>3 DEF Min

ChildTyped ==
    /\ procs \in [Procs -> Processes] /\ port \in 0 .. MaxProcs /\ cmd \in 0 .. MaxProcs
    /\ reap \in [Procs -> {"none", "waiting", "cleared", "sent", "taken"}]

\* Spawn takes a process that was not there.
LEMMA SpawnEffect ==
    ASSUME TypeOK, Spawn
    PROVE  \E p \in Procs :
              /\ procs[p].st = "unborn" /\ cmd' = p /\ reap' = [reap EXCEPT ![p] = "waiting"]
              /\ procs' = [procs EXCEPT ![p] = [st |-> "starting", bin |-> disk.proxy, own |-> mgr.inc]]
<1> DEFINE S == {q \in Procs : procs[q].st = "unborn"}
<1>1. S \in SUBSET Nat /\ S # {}
  BY ProcsAssumption DEF Spawn, Procs
<1>2. Min(S) \in S
  BY <1>1, MinIsLeast
<1> QED BY <1>2 DEF Spawn

LEMMA SpawnTyped ==
    ASSUME TypeOK, Spawn, port' = port
    PROVE  ChildTyped'
<1>1. disk.proxy \in Versions /\ mgr.inc \in Nat
  BY DEF TypeOK, Disks, Managers
<1> QED BY <1>1, SpawnEffect DEF TypeOK, ChildTyped, Processes, Stages, Procs

LEMMA EndsTyped ==
    ASSUME TypeOK, NEW dead, Ends(dead)
    PROVE  procs' \in [Procs -> Processes] /\ port' \in 0 .. MaxProcs
BY ProcsAssumption DEF Ends, TypeOK, Processes, Stages

LEMMA FailsTyped ==
    ASSUME TypeOK, Fails \/ FailsTwice \/ Works
    PROVE  budget' \in Budgets
<1> USE DEF TypeOK, Budgets
<1>1. CASE Fails
  BY <1>1 DEF Fails
<1>2. CASE FailsTwice
  <2> DEFINE b == [budget EXCEPT !.faults = @ - 1]
  <2>1. b \in Budgets /\ b.torn = budget.torn /\ b.torn > 0
    BY <1>2 DEF FailsTwice
  <2>2. budget' = [b EXCEPT !.torn = @ - 1]
    BY <1>2, <2>1 DEF FailsTwice
  <2> HIDE DEF b
  <2> QED BY <2>1, <2>2
<1>3. CASE Works
  BY <1>3 DEF Works
<1> QED BY <1>1, <1>2, <1>3

LEMMA StartTyped ==
    ASSUME TypeOK, NEW ok \in BOOLEAN, Start(ok), port' = port
    PROVE  ChildTyped' /\ budget' \in Budgets
BY SpawnTyped, FailsTyped DEF Start, TypeOK, ChildTyped, Budgets, Works

LEMMA GotoTyped ==
    ASSUME TypeOK, NEW t \in Threads, NEW pc \in PCs, Goto(t, pc)
    PROVE  th' \in [Threads -> Calls]
BY DEF Goto, TypeOK, Calls

LEMMA IdleTyped == Idle \in Calls
BY ProcsAssumption DEF Idle, Calls, PCs, Versions

LEMMA ReturnTyped ==
    ASSUME TypeOK, NEW t \in Threads, NEW res \in {"none", "ok", "failed", "cancelled"}, Return(t, res)
    PROVE  th' \in [Threads -> Calls] /\ lock' \in Threads \cup {Nobody}
BY IdleTyped DEF Return, TypeOK, Calls

\* Each action keeps the types.
LEMMA SupervisorTyped ==
    ASSUME TypeOK, NEW t \in Threads, SupervisorStep(t), scene' = scene
    PROVE  TypeOK'
<1> USE DEF TypeOK, ChildTyped
<1>1. CASE Stop(t)
  <2>1. cmd # 0 /\ Signal(cmd) => procs' \in [Procs -> Processes] /\ port' \in 0 .. MaxProcs
    BY EndsTyped DEF Signal, Processes, Stages, Procs
  <2>2. th' \in [Threads -> Calls]
    BY <1>1, GotoTyped DEF Stop, AfterStop, PCs, Calls
  <2> QED BY <1>1, <2>1, <2>2 DEF Stop, SupervisorStep
<1>2. CASE StopDeadline(t)
  BY <1>2, EndsTyped, GotoTyped DEF StopDeadline, SupervisorStep, PCs
<1>3. CASE StopDone(t)
  <2>1. th[t].tgt \in 0 .. MaxProcs /\ reap' \in [Procs -> {"none", "waiting", "cleared", "sent", "taken"}]
    BY <1>3 DEF StopDone, Calls
  <2>2. AfterStop(th[t].op) \in PCs
    BY DEF AfterStop, PCs
  <2>3. th' \in [Threads -> Calls] /\ lock' \in Threads \cup {Nobody}
    BY <1>3, <2>2, GotoTyped, ReturnTyped DEF StopDone
  <2> QED BY <1>3, <2>1, <2>3 DEF StopDone, SupervisorStep
<1>4. CASE StopReturns(t)
  BY <1>4, ReturnTyped DEF StopReturns, SupervisorStep
<1>5. CASE StartStep(t)
  BY <1>5, ReturnTyped, StartTyped DEF StartStep, SupervisorStep
<1>6. CASE StopStale(t)
  BY <1>6, EndsTyped, GotoTyped DEF StopStale, SupervisorStep, PCs
<1>d. ASSUME NEW res \in {"ok", "failed"}, Deployed(t, res)
      PROVE  th' \in [Threads -> Calls] /\ lock' \in Threads \cup {Nobody}
  BY <1>d, ReturnTyped DEF Deployed, PCs, Calls
<1>7. CASE StartDeployed(t)
  BY <1>7, <1>d, StartTyped, GotoTyped DEF StartDeployed, SupervisorStep, PCs
<1>8. CASE Ready(t)
  BY <1>8, <1>d, FailsTyped, GotoTyped DEF Ready, SupervisorStep, PCs
<1>b. ASSUME BuildFailed(t)
      PROVE  th' \in [Threads -> Calls] /\ lock' \in Threads \cup {Nobody} /\ disk' \in Disks
  BY <1>b, ReturnTyped, GotoTyped DEF BuildFailed, PCs, Disks
<1>9. CASE Build(t)
  <2>1. disk.src \in Versions
    BY DEF Disks
  <2> QED BY <1>9, <2>1, <1>b, FailsTyped DEF Build, SupervisorStep, PCs, Calls
<1>10. CASE Promote(t)
  <2>1. [disk EXCEPT !.proxy = "none", !.prev = disk.proxy] \in Disks
    BY DEF Disks, Versions
  <2>2. [th EXCEPT ![t].pc = "install", ![t].bak = disk.proxy # "none"] \in [Threads -> Calls]
    <3> DEFINE r == [th[t] EXCEPT !.pc = "install", !.bak = disk.proxy # "none"]
    <3>0. th[t] \in Calls
      OBVIOUS
    <3>1. ASSUME NEW b \in BOOLEAN PROVE [th[t] EXCEPT !.pc = "install", !.bak = b] \in Calls
      <4> HIDE DEF TypeOK
      <4> QED BY <3>0 DEF PCs, Calls
    <3>2. r \in Calls
      BY <3>1
    <3>3. [th EXCEPT ![t].pc = "install", ![t].bak = disk.proxy # "none"] = [th EXCEPT ![t] = r]
      OBVIOUS
    <3> QED BY <3>2, <3>3
  <2> QED BY <1>10, <1>b, <2>1, <2>2, FailsTyped DEF Promote, SupervisorStep
<1>11. CASE Install(t)
  <2>1. th[t].art \in Versions
    BY DEF Calls
  <2> DEFINE undone == IF th[t].bak /\ disk.prev # "none"
                       THEN [disk EXCEPT !.proxy = disk.prev, !.prev = "none"] ELSE disk
  <2>2. [disk EXCEPT !.proxy = th[t].art] \in Disks /\ undone \in Disks
    <3>1. disk \in Disks /\ disk.prev \in Versions
      BY DEF Disks
    <3>2. \A v \in Versions, w \in Versions :
              [disk EXCEPT !.proxy = v] \in Disks /\ [disk EXCEPT !.proxy = v, !.prev = w] \in Disks
      BY <3>1 DEF Disks
    <3>3. "none" \in Versions
      BY DEF Versions
    <3> QED BY <2>1, <3>1, <3>2, <3>3
  <2>3. [undone EXCEPT !.staged = "none"] \in Disks /\ [disk EXCEPT !.staged = "none"] \in Disks
    <3> HIDE DEF undone
    <3> QED BY <2>2 DEF Disks, Versions
  <2>4. disk' \in {[disk EXCEPT !.proxy = th[t].art], undone, [undone EXCEPT !.staged = "none"],
                   disk, [disk EXCEPT !.staged = "none"]}
    BY <1>11 DEF Install, InstallFailed, Restored
  <2>5. th' \in [Threads -> Calls] /\ lock' \in Threads \cup {Nobody}
    BY <1>11, GotoTyped, ReturnTyped DEF Install, InstallFailed, PCs
  <2>6. disk' \in Disks
    <3> HIDE DEF undone
    <3> QED BY <2>2, <2>3, <2>4
  <2> QED BY <1>11, <2>5, <2>6, FailsTyped DEF Install, SupervisorStep
<1>12. CASE Unlink(t)
  BY <1>12, FailsTyped, GotoTyped, ReturnTyped DEF Unlink, SupervisorStep, PCs, Disks, Versions
<1> QED BY <1>1, <1>2, <1>3, <1>4, <1>5, <1>6, <1>7, <1>8, <1>9, <1>10, <1>11, <1>12 DEF SupervisorStep

LEMMA DeployTyped ==
    ASSUME TypeOK, NEW t \in Threads, DeployStep(t), scene' = scene
    PROVE  TypeOK'
<1> USE DEF TypeOK, ChildTyped
<1>1. CASE Deploy(t)
  <2>1. lock' = t /\ th' \in [Threads -> Calls]
    BY <1>1, GotoTyped DEF Deploy, PCs
  <2>2. lock' \in Threads \cup {Nobody}
    BY <2>1
  <2> QED BY <1>1, <2>1, <2>2 DEF Deploy, Disks, Versions
<1>2. CASE Unzip(t)
  BY <1>2, ReturnTyped, FailsTyped DEF Unzip, PCs, Calls
<1>3. CASE Mirror(t)
  BY <1>3, GotoTyped DEF Mirror, PCs, Disks, Versions
<1>4. CASE Mirrored(t)
  BY <1>4, GotoTyped, FailsTyped DEF Mirrored, PCs, Disks, Versions
<1>5. CASE BuildManager(t)
  BY <1>5, GotoTyped, FailsTyped DEF BuildManager, PCs, Disks, Versions
<1>6. CASE Recover(t)
  BY <1>6, ReturnTyped, StartTyped DEF Recover
<1>7. CASE Built(t)
  BY <1>7, GotoTyped, ReturnTyped DEF Built, PCs
<1>8. CASE LaunchFinalizer(t)
  <2>1. th' \in [Threads -> Calls] /\ lock' \in Threads \cup {Nobody}
    BY <1>8, ReturnTyped DEF LaunchFinalizer
  <2>2. budget' \in Budgets /\ disk' \in Disks /\ mgr' \in Managers
    BY <1>8, FailsTyped DEF LaunchFinalizer, Disks, Managers
  <2>3. (th[t].was \/ Here.restart) \in BOOLEAN
    OBVIOUS
  <2>4. fin' \in Finalizers
    <3>1. ASSUME NEW b \in BOOLEAN PROVE [pc |-> "down", start |-> b, bak |-> FALSE] \in Finalizers
      BY DEF Finalizers
    <3>2. [pc |-> "down", start |-> th[t].was \/ Here.restart, bak |-> FALSE] \in Finalizers
      BY <2>3, <3>1
    <3> QED BY <1>8, <3>2 DEF LaunchFinalizer
  <2>5. ChildTyped'
    BY <1>8, SpawnTyped DEF LaunchFinalizer
  <2> QED BY <2>1, <2>2, <2>4, <2>5
<1> QED BY <1>1, <1>2, <1>3, <1>4, <1>5, <1>6, <1>7, <1>8 DEF DeployStep

LEMMA ManagerEndsTyped ==
    ASSUME TypeOK, ManagerEnds
    PROVE  /\ mgr' \in Managers /\ cmd' \in 0 .. MaxProcs
           /\ reap' \in [Procs -> {"none", "waiting", "cleared", "sent", "taken"}]
           /\ th' \in [Threads -> Calls] /\ lock' \in Threads \cup {Nobody}
<1>1. mgr' \in Managers
  BY DEF ManagerEnds, TypeOK, Managers
<1>2. cmd' \in 0 .. MaxProcs /\ lock' \in Threads \cup {Nobody}
  BY ProcsAssumption DEF ManagerEnds
<1>3. th' \in [Threads -> Calls]
  BY IdleTyped DEF ManagerEnds
<1>4. reap' \in [Procs -> {"none", "waiting", "cleared", "sent", "taken"}]
  BY DEF ManagerEnds
<1> QED BY <1>1, <1>2, <1>3, <1>4

LEMMA LaunchTyped ==
    ASSUME TypeOK, NEW flag, Launch(flag)
    PROVE  mgr' \in Managers /\ th' \in [Threads -> Calls]
<1>1. [Idle EXCEPT !.op = "boot", !.pc = IF flag THEN "stale" ELSE "auto"] \in Calls
  BY IdleTyped DEF Calls, Ops, PCs
<1>2. disk.manager \in Versions /\ mgr.inc + 1 \in Nat
  BY DEF TypeOK, Disks, Managers
<1> QED BY <1>1, <1>2 DEF Launch, TypeOK, Managers

LEMMA ManagerTyped ==
    ASSUME TypeOK, scene' = scene,
           ManagerExits \/ ManagerFails \/ AutoStart \/ ManagerListens \/ ManagerQuits \/ OperatorLaunches
    PROVE  TypeOK'
<1> USE DEF TypeOK, ChildTyped
<1>1. CASE ManagerExits \/ ManagerFails
  BY <1>1, ManagerEndsTyped DEF ManagerExits, ManagerFails
<1>2. CASE AutoStart
  BY <1>2, StartTyped, GotoTyped DEF AutoStart, PCs, Threads
<1>3. CASE ManagerListens
  BY <1>3, IdleTyped DEF ManagerListens, Managers, Disks
<1>4. CASE ManagerQuits
  BY <1>4, ManagerEndsTyped DEF ManagerQuits, Budgets
<1>5. CASE OperatorLaunches
  <2>1. mgr' \in Managers /\ th' \in [Threads -> Calls]
    BY <1>5, LaunchTyped DEF OperatorLaunches
  <2>2. budget' \in Budgets
    BY <1>5 DEF OperatorLaunches, Budgets
  <2> QED BY <1>5, <2>1, <2>2 DEF OperatorLaunches
<1> QED BY <1>1, <1>2, <1>3, <1>4, <1>5

LEMMA FinalizerTyped ==
    ASSUME TypeOK, scene' = scene, Finalizer \/ FinKilled
    PROVE  TypeOK'
<1> USE DEF TypeOK
<1>1. CASE FinDown
  BY <1>1 DEF FinDown, Fin, Finalizers
<1>2. CASE FinBackup
  <2>1. (disk.manager # "none") \in BOOLEAN
    OBVIOUS
  <2>2. disk' \in Disks
    <3>1. disk \in Disks /\ disk.manager \in Versions /\ "none" \in Versions
      BY DEF Disks, Versions
    <3>2. [disk EXCEPT !.manager = "none", !.mprev = disk.manager] \in Disks
      BY <3>1 DEF Disks
    <3> QED BY <1>2, <3>1, <3>2 DEF FinBackup
  <2>3. fin' \in Finalizers
    BY <1>2, <2>1 DEF FinBackup, Fin, RetryOrGiveUp, Finalizers
  <2> QED BY <1>2, <2>2, <2>3, FailsTyped DEF FinBackup
<1>3. CASE FinInstall
  <2>1. disk' \in Disks
    <3>1. disk \in Disks /\ disk.mprev \in Versions /\ "none" \in Versions /\ "new" \in Versions
      BY DEF Disks, Versions
    <3>2. [disk EXCEPT !.manager = disk.mprev, !.mprev = "none"] \in Disks /\ [disk EXCEPT !.manager = "new"] \in Disks
      BY <3>1 DEF Disks
    <3> QED BY <1>3, <3>1, <3>2 DEF FinInstall
  <2>2. fin' \in Finalizers
    BY <1>3 DEF FinInstall, Fin, RetryOrGiveUp, Finalizers
  <2>3. budget' \in Budgets
    BY <1>3, FailsTyped DEF FinInstall
  <2> QED BY <1>3, <2>1, <2>2, <2>3 DEF FinInstall
<1>4. CASE FinLaunch
  BY <1>4, FailsTyped, LaunchTyped DEF FinLaunch, Fin, Finalizers
<1>5. CASE FinReady
  BY <1>5, FailsTyped, ManagerEndsTyped DEF FinReady, Fin, Finalizers
<1>6. CASE FinRollback
  BY <1>6, FailsTyped DEF FinRollback, Fin, Finalizers, Disks, Versions
<1>7. CASE FinRestore
  BY <1>7, FailsTyped DEF FinRestore, Fin, Finalizers, Disks, Versions
<1>8. CASE FinRelaunch
  BY <1>8, FailsTyped, LaunchTyped DEF FinRelaunch, Fin, Finalizers
<1>9. CASE FinCleanup
  BY <1>9, FailsTyped DEF FinCleanup, Fin, Finalizers, Disks, Versions
<1>10. CASE FinKilled
  BY <1>10 DEF FinKilled, Fin, Finalizers, Budgets
<1> QED BY <1>1, <1>2, <1>3, <1>4, <1>5, <1>6, <1>7, <1>8, <1>9, <1>10 DEF Finalizer

LEMMA TypeInit == Init => TypeOK
<1> SUFFICES ASSUME Init PROVE TypeOK
  OBVIOUS
<1>1. budget \in Budgets
  BY ScenesAssumption DEF Init, Here
<1>2. procs \in [Procs -> Processes]
  BY DEF Init, Processes, Stages, Versions
<1>3. th \in [Threads -> Calls]
  BY IdleTyped DEF Init
<1>4. disk \in Disks /\ mgr \in Managers /\ fin \in Finalizers
  BY DEF Init, Disks, Versions, Managers, NoFinalizer, Finalizers
<1> QED BY <1>1, <1>2, <1>3, <1>4, ProcsAssumption DEF Init, TypeOK

LEMMA TypeStep == TypeOK /\ [Next]_vars => TypeOK'
<1> SUFFICES ASSUME TypeOK, [Next]_vars PROVE TypeOK'
  OBVIOUS
<1>1. CASE UNCHANGED vars
  BY <1>1 DEF TypeOK, vars
<1>2. CASE Next
  <2>s. scene' = scene
    BY <1>2 DEF Next
  <2>1. ASSUME NEW t \in Threads, SupervisorStep(t) \/ DeployStep(t) PROVE TypeOK'
    BY <2>1, <2>s, SupervisorTyped, DeployTyped
  <2>2. ASSUME NEW p \in Procs, ProcessStep(p) PROVE TypeOK'
    <3>1. CASE Listens(p)
      BY <2>2, <2>s, <3>1, EndsTyped DEF Listens, ProcessStep, TypeOK, Processes, Stages, Procs
    <3> QED BY <2>2, <2>s, <3>1, ProcsAssumption DEF ProcessStep, Reap, SendDone, TypeOK
  <2>3. ASSUME NEW t \in Callers, NEW op \in Ops, Begin(t, op) PROVE TypeOK'
    <3>1. FirstStep(op) \in PCs
      BY DEF FirstStep, PCs
    <3>2. [Idle EXCEPT !.op = op, !.pc = FirstStep(op)] \in Calls
      BY <3>1, IdleTyped DEF Calls
    <3>3. th' \in [Threads -> Calls]
      BY <2>3, <3>2 DEF Begin, TypeOK
    <3>4. budget' \in Budgets
      BY <2>3 DEF Begin, TypeOK, Budgets
    <3> QED BY <2>3, <2>s, <3>3, <3>4 DEF Begin, TypeOK
  <2>4. ASSUME NEW t \in Callers, ClientGone(t), UNCHANGED fin PROVE TypeOK'
    <3>1. t \in Threads
      BY DEF Threads
    <3> DEFINE r == [th[t] EXCEPT !.gone = TRUE]
    <3>r. r \in Calls
      BY <3>1 DEF TypeOK, Calls
    <3>h. th' = [th EXCEPT ![t] = r]
      BY <2>4 DEF ClientGone
    <3>2. th' \in [Threads -> Calls]
      <4> HIDE DEF r
      <4> QED BY <3>1, <3>r, <3>h DEF TypeOK
    <3>3. budget' \in Budgets
      BY <2>4 DEF ClientGone, TypeOK, Budgets
    <3> QED BY <2>4, <2>s, <3>2, <3>3 DEF ClientGone, TypeOK
  <2>5. ASSUME NEW p \in Procs, Exits(p) \/ Crashes(p), UNCHANGED fin PROVE TypeOK'
    BY <2>5, <2>s, EndsTyped DEF Exits, Crashes, TypeOK, Budgets
  <2> QED BY <1>2, <2>s, <2>1, <2>2, <2>3, <2>4, <2>5, ManagerTyped, FinalizerTyped DEF Next, System, Environment
<1> QED BY <1>1, <1>2

\* The supervisor, the deployments, the manager process and the finalizer keep
\* their state in the shapes that supervisor.go, deploy.go and
\* manager_upgrade.go give it.
THEOREM UpgradeTyped == Spec => []TypeOK
BY TypeInit, TypeStep, PTL DEF Spec

-----------------------------------------------------------------------------
(* Calls: what a step does to the call that takes it.                       *)

LEMMA IdleFields ==
    Idle.op = "none" /\ Idle.pc = "idle" /\ Idle.res = "none" /\ Idle.tgt = 0
BY DEF Idle

\* One call becomes another.
LEMMA CallBecomes ==
    ASSUME TypeOK, CallsInv, NEW t \in Threads, NEW r, th' = [th EXCEPT ![t] = r],
           CallShape(r.op, r.pc), r.op # "none" => (r.op = "boot" <=> t = Boot),
           t \in Callers /\ r.pc # "idle" => r.res = "none"
    PROVE  CallsInv'
<1>1. th'[t] = r /\ \A u \in Threads : u # t => th'[u] = th[u]
  BY DEF TypeOK
<1> QED BY <1>1 DEF CallsInv, Threads

\* A call goes on at another step of its operation.
LEMMA GotoEffect ==
    ASSUME TypeOK, NEW t \in Threads, NEW pc, Goto(t, pc)
    PROVE  /\ th' = [th EXCEPT ![t] = [th[t] EXCEPT !.pc = pc]]
           /\ th'[t] = [th[t] EXCEPT !.pc = pc]
           /\ th'[t].pc = pc /\ th'[t].op = th[t].op /\ th'[t].tgt = th[t].tgt /\ th'[t].res = th[t].res
           /\ th'[t].was = th[t].was /\ th'[t].bak = th[t].bak /\ th'[t].art = th[t].art
           /\ \A u \in Threads : u # t => th'[u] = th[u]
<1>1. th[t] \in Calls
  BY DEF TypeOK
<1>2. th' = [th EXCEPT ![t] = [th[t] EXCEPT !.pc = pc]]
  BY DEF Goto, TypeOK
<1>3. th'[t] = [th[t] EXCEPT !.pc = pc] /\ \A u \in Threads : u # t => th'[u] = th[u]
  BY <1>2 DEF TypeOK
<1> QED BY <1>1, <1>2, <1>3 DEF Calls

LEMMA GotoKeeps ==
    ASSUME TypeOK, CallsInv, NEW t \in Threads, NEW pc, Goto(t, pc),
           th[t].pc # "idle", CallShape(th[t].op, pc)
    PROVE  CallsInv'
<1>1. th[t].op # "none"
  BY DEF CallsInv, CallShape
<1>2. t \in Callers => th[t].res = "none"
  BY DEF CallsInv
<1> DEFINE r == th'[t]
<1>3. /\ th' = [th EXCEPT ![t] = r] /\ r.op = th[t].op /\ r.pc = pc /\ r.res = th[t].res
  BY GotoEffect
<1>4. r.op = "boot" <=> t = Boot
  BY <1>1, <1>3 DEF CallsInv
<1> QED BY <1>2, <1>3, <1>4, CallBecomes

LEMMA ReturnEffect ==
    ASSUME TypeOK, NEW t \in Threads, NEW res, Return(t, res)
    PROVE  /\ th' = [th EXCEPT ![t] = [Idle EXCEPT !.res = res]]
           /\ th'[t].op = "none" /\ th'[t].pc = "idle" /\ th'[t].tgt = 0 /\ th'[t].res = res
           /\ \A u \in Threads : u # t => th'[u] = th[u]
           /\ lock' = (IF lock = t THEN Nobody ELSE lock)
<1>1. th' = [th EXCEPT ![t] = [Idle EXCEPT !.res = res]]
  BY DEF Return
<1>2. th'[t] = [Idle EXCEPT !.res = res] /\ \A u \in Threads : u # t => th'[u] = th[u]
  BY <1>1 DEF TypeOK
<1> QED BY <1>1, <1>2 DEF Return, Idle

LEMMA ReturnKeeps ==
    ASSUME TypeOK, CallsInv, NEW t \in Threads, NEW res, Return(t, res)
    PROVE  CallsInv'
<1> DEFINE r == [Idle EXCEPT !.res = res]
<1>1. r.op = "none" /\ r.pc = "idle" /\ th' = [th EXCEPT ![t] = r]
  BY ReturnEffect DEF Idle
<1> HIDE DEF r
<1> QED BY <1>1, CallBecomes DEF CallShape

LEMMA DeployedKeeps ==
    ASSUME TypeOK, CallsInv, NEW t \in Threads, NEW res, Deployed(t, res), th[t].pc \in {"begin", "ready", "ready2"}
    PROVE  CallsInv'
<1>1. CASE th[t].op = "boot"
  <2> DEFINE r == [th[t] EXCEPT !.pc = "auto", !.res = res]
  <2>1. th[t] \in Calls /\ t = Boot
    BY <1>1 DEF TypeOK, CallsInv
  <2>2. th' = [th EXCEPT ![t] = r] /\ r.op = "boot" /\ r.pc = "auto"
    BY <1>1, <2>1 DEF Deployed, Calls, TypeOK
  <2> HIDE DEF r
  <2> QED BY <2>1, <2>2, CallBecomes, CallersAssumption DEF CallShape, BootPCs
<1>2. CASE th[t].op # "boot"
  BY <1>2, ReturnKeeps DEF Deployed
<1> QED BY <1>1, <1>2

LEMMA EndsKeeps ==
    ASSUME TypeOK, ManagerEnds
    PROVE  CallsInv' /\ \A t \in Threads : th'[t] = Idle
<1>1. \A t \in Threads : th'[t] = Idle
  BY DEF ManagerEnds
<1> QED BY <1>1, IdleFields DEF CallsInv, CallShape, Threads

LEMMA LaunchEffect ==
    ASSUME TypeOK, NEW flag, Launch(flag)
    PROVE  /\ th'[Boot].op = "boot" /\ th'[Boot].pc \in {"stale", "auto"}
           /\ th'[Boot].tgt = 0
           /\ \A u \in Threads : u # Boot => th'[u] = th[u]
           /\ mgr'.st = "boot" /\ mgr'.inc = mgr.inc + 1
<1>1. Boot \in Threads
  BY DEF Threads
<1>2. th'[Boot] = [Idle EXCEPT !.op = "boot", !.pc = IF flag THEN "stale" ELSE "auto"]
  BY <1>1 DEF Launch, TypeOK
<1> QED BY <1>1, <1>2 DEF Launch, TypeOK, Idle

LEMMA LaunchKeeps ==
    ASSUME TypeOK, CallsInv, NEW flag, Launch(flag)
    PROVE  CallsInv'
<1>1. /\ th'[Boot].op = "boot" /\ th'[Boot].pc \in {"stale", "auto"}
      /\ \A u \in Threads : u # Boot => th'[u] = th[u]
  BY LaunchEffect
<1>2. Boot \notin Callers /\ Boot \in Threads
  BY CallersAssumption DEF Threads
<1> QED BY <1>1, <1>2 DEF CallsInv, CallShape, BootPCs, Threads

LEMMA SupervisorCalls ==
    ASSUME TypeOK, CallsInv, NEW t \in Threads, SupervisorStep(t)
    PROVE  CallsInv'
<1>k. CallShape(th[t].op, th[t].pc)
  BY DEF CallsInv
<1>a. th[t].pc \in StopPCs => CallShape(th[t].op, AfterStop(th[t].op)) /\ CallShape(th[t].op, "wait") /\ CallShape(th[t].op, "kill")
  BY <1>k DEF CallShape, AfterStop, StopPCs, BuildPCs, DeployPCs, BootPCs
<1>1. CASE Stop(t)
  <2>1. CASE cmd = 0
    BY <1>1, <2>1, <1>a, GotoKeeps DEF Stop, StopPCs
  <2>2. CASE cmd # 0
    <3> DEFINE r == [th[t] EXCEPT !.pc = "wait", !.tgt = cmd]
    <3>1. th[t] \in Calls
      BY DEF TypeOK
    <3>2. th' = [th EXCEPT ![t] = r]
      BY <1>1, <2>2 DEF Stop, TypeOK
    <3>3. r.op = th[t].op /\ r.pc = "wait" /\ r.res = th[t].res
      BY <3>1 DEF Calls
    <3>4. th[t].pc = "stop" /\ th[t].op # "none"
      BY <1>1, <1>k DEF Stop, CallShape
    <3> HIDE DEF r
    <3> QED BY <1>a, <3>2, <3>3, <3>4, CallBecomes DEF CallsInv, StopPCs
  <2> QED BY <2>1, <2>2
<1>2. CASE StopDeadline(t)
  BY <1>2, <1>a, GotoKeeps DEF StopDeadline, StopPCs
<1>3. CASE StopDone(t)
  BY <1>3, <1>a, GotoKeeps, ReturnKeeps DEF StopDone, StopPCs
<1>4. CASE StopReturns(t)
  BY <1>4, ReturnKeeps DEF StopReturns
<1>5. CASE StartStep(t)
  BY <1>5, ReturnKeeps DEF StartStep
<1>6. CASE StopStale(t)
  <2>1. CallShape(th[t].op, "begin")
    BY <1>6, <1>k DEF StopStale, CallShape, StopPCs, BuildPCs, DeployPCs, BootPCs
  <2> QED BY <1>6, <2>1, GotoKeeps DEF StopStale
<1>7. CASE StartDeployed(t)
  <2>1. CallShape(th[t].op, "ready")
    BY <1>7, <1>k DEF StartDeployed, CallShape, StopPCs, BuildPCs, DeployPCs, BootPCs
  <2> QED BY <1>7, <2>1, GotoKeeps, DeployedKeeps DEF StartDeployed
<1>8. CASE Ready(t)
  <2>1. CallShape(th[t].op, "ready") /\ CallShape(th[t].op, "ready2")
    BY <1>8, <1>k DEF Ready, CallShape, StopPCs, BuildPCs, DeployPCs, BootPCs
  <2> QED BY <1>8, <2>1, GotoKeeps, DeployedKeeps DEF Ready
<1>b. th[t].pc \in BuildPCs => /\ th[t].op \in {"build", "deploy"}
                               /\ th[t].op = "deploy" => CallShape(th[t].op, "recover") /\ CallShape(th[t].op, "built")
                               /\ \A pc \in BuildPCs : CallShape(th[t].op, pc)
  BY <1>k DEF CallShape, StopPCs, BuildPCs, DeployPCs, BootPCs
<1>c. ASSUME BuildFailed(t), th[t].pc \in BuildPCs PROVE CallsInv'
  BY <1>b, <1>c, GotoKeeps, ReturnKeeps DEF BuildFailed, BuildPCs
<1>9. CASE Build(t)
  <2>1. CASE th' = [th EXCEPT ![t].pc = "promote", ![t].art = disk.src]
    <3> DEFINE r == [th[t] EXCEPT !.pc = "promote", !.art = disk.src]
    <3>1. th[t] \in Calls
      BY DEF TypeOK
    <3>2. th' = [th EXCEPT ![t] = r]
      BY <2>1 DEF TypeOK
    <3>3. r.op = th[t].op /\ r.pc = "promote" /\ r.res = th[t].res
      BY <3>1 DEF Calls
    <3>4. th[t].pc = "build"
      BY <1>9 DEF Build
    <3> HIDE DEF r
    <3> QED BY <1>b, <3>2, <3>3, <3>4, CallBecomes DEF CallsInv, BuildPCs
  <2> QED BY <1>9, <1>c, <2>1 DEF Build, BuildPCs
<1>10. CASE Promote(t)
  <2>1. CASE th' = [th EXCEPT ![t].pc = "install", ![t].bak = disk.proxy # "none"]
    <3> DEFINE r == [th[t] EXCEPT !.pc = "install", !.bak = disk.proxy # "none"]
    <3>1. th[t] \in Calls
      BY DEF TypeOK
    <3>2. th' = [th EXCEPT ![t] = r]
      BY <2>1 DEF TypeOK
    <3>3. r.op = th[t].op /\ r.pc = "install" /\ r.res = th[t].res
      BY <3>1 DEF Calls
    <3>4. th[t].pc = "promote"
      BY <1>10 DEF Promote
    <3> HIDE DEF r
    <3> QED BY <1>b, <3>2, <3>3, <3>4, CallBecomes DEF CallsInv, BuildPCs
  <2> QED BY <1>10, <1>c, <2>1 DEF Promote, BuildPCs
<1>11. CASE Install(t)
  BY <1>11, <1>b, GotoKeeps, ReturnKeeps DEF Install, InstallFailed, BuildPCs
<1>12. CASE Unlink(t)
  BY <1>12, <1>b, GotoKeeps, ReturnKeeps DEF Unlink, BuildPCs
<1> QED BY <1>1, <1>2, <1>3, <1>4, <1>5, <1>6, <1>7, <1>8, <1>9, <1>10, <1>11, <1>12 DEF SupervisorStep

LEMMA DeployCalls ==
    ASSUME TypeOK, CallsInv, NEW t \in Threads, DeployStep(t)
    PROVE  CallsInv'
<1>k. CallShape(th[t].op, th[t].pc)
  BY DEF CallsInv
<1>d. th[t].pc \in {"lock", "unzip", "mirror", "mirrored", "manager", "recover", "built", "launch"} =>
          th[t].op = "deploy" /\ \A pc \in DeployPCs : CallShape(th[t].op, pc)
  BY <1>k DEF CallShape, StopPCs, BuildPCs, DeployPCs, BootPCs
<1> USE DEF DeployPCs, StopPCs, BuildPCs
<1>1. CASE Deploy(t)
  BY <1>1, <1>d, GotoKeeps DEF Deploy
<1>2. CASE Unzip(t)
  <2>1. CASE th' = [th EXCEPT ![t].was = cmd # 0, ![t].pc = IF cmd # 0 THEN "stop" ELSE "mirror"]
    <3> DEFINE r == [th[t] EXCEPT !.was = cmd # 0, !.pc = IF cmd # 0 THEN "stop" ELSE "mirror"]
    <3>1. th[t] \in Calls
      BY DEF TypeOK
    <3>2. th' = [th EXCEPT ![t] = r]
      BY <2>1 DEF TypeOK
    <3>3. r.op = th[t].op /\ r.pc \in {"stop", "mirror"} /\ r.res = th[t].res
      BY <3>1 DEF Calls
    <3>4. th[t].pc = "unzip"
      BY <1>2 DEF Unzip
    <3> HIDE DEF r
    <3> QED BY <1>d, <3>2, <3>3, <3>4, CallBecomes DEF CallsInv
  <2> QED BY <1>2, <2>1, ReturnKeeps DEF Unzip
<1>3. CASE Mirror(t)
  BY <1>3, <1>d, GotoKeeps DEF Mirror
<1>4. CASE Mirrored(t)
  BY <1>4, <1>d, GotoKeeps DEF Mirrored
<1>5. CASE BuildManager(t)
  BY <1>5, <1>d, GotoKeeps DEF BuildManager
<1>6. CASE Recover(t)
  BY <1>6, ReturnKeeps DEF Recover
<1>7. CASE Built(t)
  BY <1>7, <1>d, GotoKeeps, ReturnKeeps DEF Built
<1>8. CASE LaunchFinalizer(t)
  BY <1>8, ReturnKeeps DEF LaunchFinalizer
<1> QED BY <1>1, <1>2, <1>3, <1>4, <1>5, <1>6, <1>7, <1>8 DEF DeployStep

LEMMA CallsUnchanged ==
    ASSUME CallsInv, th' = th
    PROVE  CallsInv'
BY DEF CallsInv

LEMMA CallsStep == TypeOK /\ CallsInv /\ [Next]_vars => CallsInv'
<1> SUFFICES ASSUME TypeOK, CallsInv, [Next]_vars PROVE CallsInv'
  OBVIOUS
<1>1. CASE UNCHANGED vars
  BY <1>1, CallsUnchanged DEF vars
<1>2. CASE Next
  <2>1. ASSUME NEW t \in Threads, SupervisorStep(t) \/ DeployStep(t) PROVE CallsInv'
    BY <2>1, SupervisorCalls, DeployCalls
  <2>2. ASSUME NEW p \in Procs, ProcessStep(p) PROVE CallsInv'
    BY <2>2, CallsUnchanged DEF ProcessStep, Listens, Reap, SendDone
  <2>3. ASSUME NEW t \in Callers, NEW op \in Ops, Begin(t, op) PROVE CallsInv'
    <3> DEFINE r == [Idle EXCEPT !.op = op, !.pc = FirstStep(op)]
    <3>1. op \in Requests /\ t \in Threads /\ t # Boot
      BY <2>3, HereTyped DEF Begin, Threads
    <3>2. th' = [th EXCEPT ![t] = r]
      BY <2>3 DEF Begin
    <3>3. r.op = op /\ r.pc = FirstStep(op) /\ r.res = "none"
      BY DEF Idle
    <3>4. CallShape(op, FirstStep(op))
      BY <3>1 DEF CallShape, FirstStep, Requests, StopPCs, BuildPCs, DeployPCs
    <3> HIDE DEF r
    <3> QED BY <3>1, <3>2, <3>3, <3>4, CallBecomes DEF Requests
  <2>4. ASSUME NEW t \in Callers, ClientGone(t) PROVE CallsInv'
    <3> DEFINE r == [th[t] EXCEPT !.gone = TRUE]
    <3>1. t \in Threads /\ th[t] \in Calls
      BY DEF TypeOK, Threads
    <3>2. th' = [th EXCEPT ![t] = r]
      BY <2>4, <3>1 DEF ClientGone, TypeOK
    <3>3. r.op = th[t].op /\ r.pc = th[t].pc /\ r.res = th[t].res
      BY <3>1 DEF Calls
    <3> HIDE DEF r
    <3> QED BY <3>1, <3>2, <3>3, CallBecomes DEF CallsInv
  <2>5. ASSUME NEW p \in Procs, Exits(p) \/ Crashes(p) PROVE CallsInv'
    BY <2>5, CallsUnchanged DEF Exits, Crashes
  <2>6. CASE ManagerExits \/ ManagerFails \/ ManagerQuits
    BY <2>6, EndsKeeps DEF ManagerExits, ManagerFails, ManagerQuits
  <2>7. CASE AutoStart
    <3>1. Boot \in Threads /\ th[Boot].op = "boot"
      BY <2>7 DEF AutoStart, CallsInv, CallShape, Threads, StopPCs, BuildPCs, DeployPCs
    <3> QED BY <2>7, <3>1, GotoKeeps DEF AutoStart, CallShape, BootPCs
  <2>8. CASE ManagerListens
    BY <2>8, CallBecomes, IdleFields DEF ManagerListens, CallShape, Threads
  <2>9. CASE OperatorLaunches
    BY <2>9, LaunchKeeps DEF OperatorLaunches
  <2>10. CASE Finalizer \/ FinKilled
    <3>1. th' = th \/ (\E flag \in BOOLEAN : Launch(flag)) \/ ManagerEnds
      <4>1. fin.start \in BOOLEAN
        BY DEF TypeOK, Finalizers
      <4> QED BY <2>10, <4>1 DEF Finalizer, FinDown, FinBackup, FinInstall, FinLaunch, FinReady, FinRollback,
                               FinRestore, FinRelaunch, FinCleanup, FinKilled
    <3> QED BY <3>1, CallsUnchanged, EndsKeeps, LaunchKeeps
  <2> QED BY <1>2, <2>1, <2>2, <2>3, <2>4, <2>5, <2>6, <2>7, <2>8, <2>9, <2>10 DEF Next, System, Environment
<1> QED BY <1>1, <1>2

-----------------------------------------------------------------------------
(* Who is at work.                                                          *)

\* What a step of a call leaves alone.
Act(t) == SupervisorStep(t) \/ DeployStep(t)

LEMMA OthersKept ==
    ASSUME TypeOK, NEW t \in Threads, Act(t)
    PROVE  \A u \in Threads : u # t => th'[u] = th[u]
<1>g. ASSUME NEW pc, Goto(t, pc) PROVE \A u \in Threads : u # t => th'[u] = th[u]
  BY <1>g, GotoEffect
<1>r. ASSUME NEW res, Return(t, res) PROVE \A u \in Threads : u # t => th'[u] = th[u]
  BY <1>r, ReturnEffect
<1>d. ASSUME NEW res, Deployed(t, res) PROVE \A u \in Threads : u # t => th'[u] = th[u]
  BY <1>d, <1>r DEF Deployed, TypeOK
<1>b. ASSUME BuildFailed(t) PROVE \A u \in Threads : u # t => th'[u] = th[u]
  BY <1>b, <1>r, <1>g DEF BuildFailed
<1>1. CASE SupervisorStep(t)
  <2>1. CASE Stop(t) \/ StopDeadline(t) \/ StopDone(t) \/ StopReturns(t) \/ StartStep(t)
    BY <2>1, <1>g, <1>r DEF Stop, StopDeadline, StopDone, StopReturns, StartStep, TypeOK
  <2>2. CASE StopStale(t) \/ StartDeployed(t) \/ Ready(t)
    BY <2>2, <1>g, <1>d DEF StopStale, StartDeployed, Ready
  <2>3. CASE Build(t) \/ Promote(t) \/ Install(t) \/ Unlink(t)
    BY <2>3, <1>g, <1>r, <1>b DEF Build, Promote, Install, InstallFailed, Unlink, TypeOK
  <2> QED BY <1>1, <2>1, <2>2, <2>3 DEF SupervisorStep
<1>2. CASE DeployStep(t)
  <2>1. CASE Deploy(t) \/ Unzip(t) \/ Mirror(t) \/ Mirrored(t)
    BY <2>1, <1>g, <1>r DEF Deploy, Unzip, Mirror, Mirrored, TypeOK
  <2>2. CASE BuildManager(t) \/ Recover(t) \/ Built(t) \/ LaunchFinalizer(t)
    BY <2>2, <1>g, <1>r DEF BuildManager, Recover, Built, LaunchFinalizer
  <2> QED BY <1>2, <2>1, <2>2 DEF DeployStep
<1> QED BY <1>1, <1>2 DEF Act

LEMMA ActEffect ==
    ASSUME TypeOK, CallsInv, NEW t \in Threads, Act(t)
    PROVE  /\ th[t].pc # "idle"
           /\ mgr'.st = mgr.st /\ mgr'.inc = mgr.inc /\ mgr'.bin = mgr.bin
           /\ (fin' = fin /\ mgr' = mgr) \/ (fin'.pc = "down" /\ th[t].pc = "launch")
           /\ lock' = lock \/ lock' = Nobody \/ (lock' = t /\ th[t].pc = "lock")
<1>r. ASSUME NEW res, Return(t, res) PROVE lock' = lock \/ lock' = Nobody
  BY <1>r DEF Return
<1>d. ASSUME NEW res, Deployed(t, res) PROVE lock' = lock \/ lock' = Nobody
  BY <1>d, <1>r DEF Deployed
<1>b. ASSUME BuildFailed(t) PROVE lock' = lock \/ lock' = Nobody
  BY <1>b, <1>r DEF BuildFailed
<1>1. CASE SupervisorStep(t)
  <2>0. fin' = fin /\ mgr' = mgr
    BY <1>1 DEF SupervisorStep, Stop, StopDeadline, StopDone, StopReturns, StartStep, StopStale,
                StartDeployed, Ready, Build, Promote, Install, InstallFailed, Unlink
  <2>p. th[t].pc # "idle"
    BY <1>1 DEF SupervisorStep, Stop, StopDeadline, StopDone, StopReturns, StartStep, StopStale,
                StartDeployed, Ready, Build, Promote, Install, InstallFailed, Unlink
  <2>l. lock' = lock \/ lock' = Nobody
    <3>1. CASE Stop(t) \/ StopDeadline(t) \/ StopDone(t) \/ StopReturns(t) \/ StartStep(t)
      BY <3>1, <1>r DEF Stop, StopDeadline, StopDone, StopReturns, StartStep
    <3>2. CASE StopStale(t) \/ StartDeployed(t) \/ Ready(t)
      BY <3>2, <1>d DEF StopStale, StartDeployed, Ready
    <3>3. CASE Build(t) \/ Promote(t) \/ Install(t) \/ Unlink(t)
      BY <3>3, <1>r, <1>b DEF Build, Promote, Install, InstallFailed, Unlink
    <3> QED BY <1>1, <3>1, <3>2, <3>3 DEF SupervisorStep
  <2> QED BY <2>0, <2>p, <2>l
<1>2. CASE DeployStep(t)
  <2>p. th[t].pc # "idle"
    BY <1>2 DEF DeployStep, Deploy, Unzip, Mirror, Mirrored, BuildManager, Recover, Built, LaunchFinalizer
  <2>1. CASE Deploy(t)
    BY <2>p, <2>1 DEF Deploy
  <2>2. CASE Unzip(t) \/ Mirror(t) \/ Mirrored(t) \/ BuildManager(t) \/ Recover(t) \/ Built(t)
    <3>1. fin' = fin /\ mgr' = mgr
      BY <2>2 DEF Unzip, Mirror, Mirrored, BuildManager, Recover, Built
    <3>2. lock' = lock \/ lock' = Nobody
      BY <2>2, <1>r DEF Unzip, Mirror, Mirrored, BuildManager, Recover, Built
    <3> QED BY <2>p, <3>1, <3>2
  <2>3. CASE LaunchFinalizer(t)
    <3>1. lock' = lock \/ lock' = Nobody
      BY <2>3, <1>r DEF LaunchFinalizer
    <3>2. th[t].pc = "launch" /\ ((fin' = fin /\ mgr' = mgr) \/ fin'.pc = "down")
      BY <2>3 DEF LaunchFinalizer
    <3>3. mgr'.st = mgr.st /\ mgr'.inc = mgr.inc /\ mgr'.bin = mgr.bin
      <4>1. mgr \in Managers
        BY DEF TypeOK
      <4> QED BY <2>3, <4>1 DEF LaunchFinalizer, Managers
    <3> QED BY <2>p, <3>1, <3>2, <3>3
  <2> QED BY <1>2, <2>1, <2>2, <2>3 DEF DeployStep
<1> QED BY <1>1, <1>2 DEF Act

LEMMA ManagerStep == TypeOK /\ CallsInv /\ ManagerInv /\ [Next]_vars => ManagerInv'
<1> SUFFICES ASSUME TypeOK, CallsInv, ManagerInv, [Next]_vars PROVE ManagerInv'
  OBVIOUS
<1>0. Boot \in Threads /\ Boot \notin Callers /\ \A c \in Callers : c \in Threads
  BY CallersAssumption DEF Threads
<1>e. ASSUME ManagerEnds PROVE ManagerInv'
  <2>1. \A t \in Threads : th'[t].pc = "idle"
    BY <1>e, EndsKeeps, IdleFields
  <2>2. mgr'.st = "down" /\ cmd' = 0 /\ lock' = Nobody
    BY <1>e DEF ManagerEnds, TypeOK, Managers
  <2> QED BY <2>1, <2>2, <1>0 DEF ManagerInv
<1>k. ASSUME mgr' = mgr, th' = th, cmd' = cmd, lock' = lock, fin' = fin PROVE ManagerInv'
  BY <1>k DEF ManagerInv
<1>l. ASSUME NEW flag, Launch(flag), mgr.st = "down", cmd' = cmd, lock' = lock,
             fin'.pc \in {"none", "ready", "end"}
      PROVE ManagerInv'
  <2>1. mgr'.st = "boot" /\ \A c \in Callers : th'[c] = th[c]
    BY <1>l, <1>0, LaunchEffect
  <2> QED BY <1>l, <2>1, <1>0 DEF ManagerInv
<1>1. CASE UNCHANGED vars
  BY <1>1, <1>k DEF vars
<1>2. CASE Next
  <2>1. ASSUME NEW t \in Threads, Act(t) PROVE ManagerInv'
    <3>1. /\ th[t].pc # "idle" /\ mgr'.st = mgr.st
          /\ fin' = fin \/ fin'.pc = "down"
          /\ lock' = lock \/ lock' = Nobody \/ (lock' = t /\ th[t].pc = "lock")
      BY <2>1, ActEffect
    <3>2. \A u \in Threads : u # t => th'[u] = th[u]
      BY <2>1, OthersKept
    <3>3. mgr.st # "down"
      BY <3>1 DEF ManagerInv
    <3>4. mgr.st = "boot" => t = Boot /\ th[t].pc # "lock"
      <4>1. th[Boot].pc # "lock"
        BY <1>0, CallersAssumption DEF CallsInv, CallShape, BootPCs
      <4> QED BY <3>1, <4>1 DEF ManagerInv, Threads
    <3>5. mgr.st = "up" => t # Boot
      BY <3>1 DEF ManagerInv
    <3> QED BY <3>1, <3>2, <3>3, <3>4, <3>5, <1>0 DEF ManagerInv
  <2>2. ASSUME NEW p \in Procs, ProcessStep(p) PROVE ManagerInv'
    <3>1. cmd' = cmd \/ cmd' = 0
      BY <2>2 DEF ProcessStep, Listens, Reap, SendDone
    <3> QED BY <2>2, <3>1 DEF ProcessStep, Listens, Reap, SendDone, ManagerInv
  <2>3. ASSUME NEW t \in Callers, NEW op \in Ops, Begin(t, op) PROVE ManagerInv'
    <3>1. mgr.st = "up" /\ th'[Boot] = th[Boot]
      BY <2>3, <1>0 DEF Begin, TypeOK
    <3> QED BY <2>3, <3>1 DEF Begin, ManagerInv
  <2>4. ASSUME NEW t \in Callers, ClientGone(t), UNCHANGED fin PROVE ManagerInv'
    <3>1. th'[Boot] = th[Boot] /\ th[t].pc # "idle" /\ t \in Threads
      BY <2>4, <1>0 DEF ClientGone, TypeOK
    <3> QED BY <2>4, <3>1, <1>0 DEF ClientGone, ManagerInv
  <2>5. ASSUME NEW p \in Procs, Exits(p) \/ Crashes(p), UNCHANGED fin PROVE ManagerInv'
    BY <2>5, <1>k DEF Exits, Crashes
  <2>6. CASE ManagerExits \/ ManagerFails \/ ManagerQuits
    BY <2>6, <1>e DEF ManagerExits, ManagerFails, ManagerQuits
  <2>7. CASE AutoStart
    <3>1. th[Boot].pc = "auto" /\ Goto(Boot, "listen") /\ lock' = lock /\ mgr' = mgr /\ fin' = fin
      BY <2>7 DEF AutoStart
    <3>2. mgr.st = "boot"
      BY <3>1, <1>0 DEF ManagerInv, TypeOK, Managers
    <3>3. \A c \in Callers : th'[c] = th[c]
      BY <3>1, <1>0, GotoEffect
    <3> QED BY <3>1, <3>2, <3>3 DEF ManagerInv
  <2>8. CASE ManagerListens
    <3>1. mgr.st = "boot"
      BY <2>8, <1>0 DEF ManagerListens, ManagerInv, TypeOK, Managers
    <3>2. mgr'.st = "up"
      BY <2>8 DEF ManagerListens, TypeOK, Managers
    <3>3. th'[Boot].pc = "idle" /\ fin' = fin
      BY <2>8, <1>0, IdleFields DEF ManagerListens, TypeOK
    <3> QED BY <3>1, <3>2, <3>3 DEF ManagerInv
  <2>9. CASE OperatorLaunches
    BY <2>9, <1>l DEF OperatorLaunches
  <2>10. CASE Finalizer \/ FinKilled
    <3>f. ASSUME NEW pc, Fin(pc) PROVE fin'.pc = pc
      BY <3>f DEF Fin, TypeOK, Finalizers
    <3>k. ASSUME mgr' = mgr, th' = th, cmd' = cmd, lock' = lock, mgr.st = "down" PROVE ManagerInv'
      BY <3>k DEF ManagerInv
    <3>1. CASE FinDown
      BY <3>1, <3>k DEF FinDown
    <3>2. CASE FinBackup
      BY <3>2, <3>k DEF FinBackup, ManagerInv
    <3>3. CASE FinInstall
      BY <3>3, <3>k DEF FinInstall, ManagerInv
    <3>4. CASE FinLaunch
      BY <3>4, <3>k, <3>f, <1>l DEF FinLaunch, ManagerInv
    <3>5. CASE FinReady
      <4>1. CASE mgr.st = "up" /\ Fin("cleanup") /\ UNCHANGED <<mgr, cmd, reap, th, lock>>
        BY <4>1, <3>f DEF ManagerInv
      <4>2. CASE mgr.st = "down" /\ UNCHANGED <<mgr, cmd, reap, th, lock>>
        BY <4>2, <3>k
      <4> QED BY <3>5, <4>1, <4>2, <1>e DEF FinReady
    <3>6. CASE FinRollback \/ FinRestore
      BY <3>6, <3>k DEF FinRollback, FinRestore, ManagerInv
    <3>7. CASE FinRelaunch
      BY <3>7, <3>k, <3>f, <1>l DEF FinRelaunch, ManagerInv
    <3>8. CASE FinCleanup \/ FinKilled
      <4>1. fin'.pc = "end"
        BY <3>8, <3>f DEF FinCleanup, FinKilled
      <4> QED BY <3>8, <4>1 DEF FinCleanup, FinKilled, ManagerInv
    <3> QED BY <2>10, <3>1, <3>2, <3>3, <3>4, <3>5, <3>6, <3>7, <3>8 DEF Finalizer
  <2> QED BY <1>2, <2>1, <2>2, <2>3, <2>4, <2>5, <2>6, <2>7, <2>8, <2>9, <2>10 DEF Next, System, Environment, Act
<1> QED BY <1>1, <1>2

-----------------------------------------------------------------------------
(* The child.                                                               *)

\* What a step can do to the processes and to the supervisor's state.
ProcKept(p) ==
    /\ procs'[p].own = procs[p].own /\ procs'[p].bin = procs[p].bin
    /\ procs'[p].st = "unborn" <=> procs[p].st = "unborn"
    /\ Alive(p)' => Alive(p)

Quiet ==
    /\ \A p \in Procs : ProcKept(p)
    /\ cmd' = cmd
    /\ \A p \in Procs : \/ reap'[p] = reap[p]
                        \/ reap[p] = "cleared" /\ reap'[p] = "sent"
                        \/ reap[p] = "sent" /\ reap'[p] = "taken"
    /\ mgr'.inc = mgr.inc /\ (mgr.st = "down" => mgr'.st = "down")

Spawned ==
    \E p \in Procs :
        /\ cmd = 0 /\ procs[p].st = "unborn" /\ cmd' = p /\ reap' = [reap EXCEPT ![p] = "waiting"]
        /\ procs' = [procs EXCEPT ![p] = [st |-> "starting", bin |-> disk.proxy, own |-> mgr.inc]]
        /\ mgr' = mgr

Reaped == \E p \in Procs : Reap(p)
Ended == ManagerEnds /\ procs' = procs
Launched ==
    /\ cmd = 0 /\ mgr'.inc = mgr.inc + 1
    /\ UNCHANGED <<procs, cmd, reap>>

ChildStep == Quiet \/ Spawned \/ Reaped \/ Ended \/ Launched

\* A process that ends, or is told to, keeps its owner and its binary.
LEMMA EndsKept ==
    ASSUME TypeOK, NEW dead, Ends(dead)
    PROVE  \A p \in Procs : ProcKept(p)
<1> SUFFICES ASSUME NEW p \in Procs PROVE ProcKept(p)
  OBVIOUS
<1>1. procs[p] \in Processes
  BY DEF TypeOK
<1>2. procs'[p] = IF p \in dead /\ Alive(p) THEN [procs[p] EXCEPT !.st = "dead"] ELSE procs[p]
  BY DEF Ends
<1> QED BY <1>1, <1>2 DEF ProcKept, Alive, Processes

LEMMA ProcsKept ==
    ASSUME procs' = procs
    PROVE  \A p \in Procs : ProcKept(p)
BY DEF ProcKept, Alive

LEMMA SignalKept ==
    ASSUME TypeOK, NEW q \in Procs, Signal(q)
    PROVE  \A p \in Procs : ProcKept(p)
<1>1. CASE Here.windows
  BY <1>1, EndsKept DEF Signal
<1>2. CASE ~Here.windows
  <2> SUFFICES ASSUME NEW p \in Procs PROVE ProcKept(p)
    OBVIOUS
  <2>1. procs[p] \in Processes
    BY DEF TypeOK
  <2>2. procs'[p] = IF p = q /\ Alive(q) THEN [procs[p] EXCEPT !.st = "term"] ELSE procs[p]
    BY <1>2, <2>1 DEF Signal, TypeOK, Processes
  <2> QED BY <2>1, <2>2 DEF ProcKept, Alive, Processes
<1> QED BY <1>1, <1>2

\* Start does nothing, or starts a process where none is supervised.
LEMMA StartKinds ==
    ASSUME TypeOK, NEW ok \in BOOLEAN, Start(ok), mgr' = mgr
    PROVE  Quiet \/ Spawned
<1>1. CASE UNCHANGED <<procs, cmd, reap>>
  BY <1>1, ProcsKept DEF Quiet
<1>2. CASE cmd = 0 /\ Spawn
  BY <1>2, SpawnEffect DEF Spawned
<1> QED BY <1>1, <1>2 DEF Start

LEMMA ActKinds ==
    ASSUME TypeOK, CallsInv, NEW t \in Threads, Act(t)
    PROVE  Quiet \/ Spawned
<1>0. mgr'.st = mgr.st /\ mgr'.inc = mgr.inc
  BY ActEffect
<1>1. ASSUME UNCHANGED <<procs, cmd, reap>> PROVE Quiet
  BY <1>0, <1>1, ProcsKept DEF Quiet
<1>2. ASSUME NEW dead, Ends(dead), UNCHANGED <<cmd, reap>> PROVE Quiet
  BY <1>0, <1>2, EndsKept DEF Quiet
<1>3. ASSUME NEW ok \in BOOLEAN, Start(ok), mgr' = mgr PROVE Quiet \/ Spawned
  BY <1>3, StartKinds
<1>4. CASE SupervisorStep(t)
  <2>1. CASE Stop(t)
    <3>1. cmd # 0 => cmd \in Procs
      BY DEF TypeOK, Procs
    <3>2. cmd # 0 => Quiet
      BY <1>0, <2>1, <3>1, SignalKept DEF Stop, Quiet
    <3> QED BY <2>1, <1>1, <3>2 DEF Stop
  <2>2. CASE StopDeadline(t)
    BY <2>2, <1>2 DEF StopDeadline
  <2>3. CASE StopDone(t)
    <3>1. /\ reap[th[t].tgt] = "sent" /\ reap' = [reap EXCEPT ![th[t].tgt] = "taken"]
          /\ procs' = procs /\ cmd' = cmd
      BY <2>3 DEF StopDone
    <3> QED BY <1>0, <3>1, ProcsKept DEF Quiet, TypeOK
  <2>4. CASE StopReturns(t) \/ Ready(t) \/ Build(t) \/ Promote(t) \/ Install(t) \/ Unlink(t)
    BY <2>4, <1>1 DEF StopReturns, Ready, Build, Promote, Install, InstallFailed, Unlink
  <2>5. CASE StartStep(t) \/ StartDeployed(t)
    BY <2>5, <1>3 DEF StartStep, StartDeployed
  <2>6. CASE StopStale(t)
    BY <2>6, <1>1, <1>2 DEF StopStale
  <2> QED BY <1>4, <2>1, <2>2, <2>3, <2>4, <2>5, <2>6 DEF SupervisorStep
<1>5. CASE DeployStep(t)
  <2>1. CASE Deploy(t) \/ Unzip(t) \/ Mirror(t) \/ Mirrored(t) \/ BuildManager(t) \/ Built(t)
    BY <2>1, <1>1 DEF Deploy, Unzip, Mirror, Mirrored, BuildManager, Built
  <2>2. CASE Recover(t)
    BY <2>2, <1>1, <1>3 DEF Recover
  <2>3. CASE LaunchFinalizer(t)
    <3>1. CASE UNCHANGED <<procs, cmd, reap>>
      BY <3>1, <1>1
    <3>2. CASE cmd = 0 /\ Spawn /\ mgr' = mgr
      BY <3>2, SpawnEffect DEF Spawned
    <3> QED BY <2>3, <3>1, <3>2 DEF LaunchFinalizer
  <2> QED BY <1>5, <2>1, <2>2, <2>3 DEF DeployStep
<1> QED BY <1>4, <1>5 DEF Act

LEMMA NextKinds ==
    ASSUME TypeOK, CallsInv, ManagerInv, [Next]_vars
    PROVE  ChildStep
<1>k. ASSUME UNCHANGED <<procs, cmd, reap, mgr>> PROVE Quiet
  BY <1>k, ProcsKept DEF Quiet
<1>l. ASSUME NEW flag, Launch(flag), mgr.st = "down", UNCHANGED <<procs, cmd, reap>> PROVE Launched
  BY <1>l, LaunchEffect DEF Launched, ManagerInv
<1>1. CASE UNCHANGED vars
  BY <1>1, <1>k DEF vars, ChildStep
<1>2. CASE Next
  <2>1. ASSUME NEW t \in Threads, Act(t) PROVE ChildStep
    BY <2>1, ActKinds DEF ChildStep
  <2>2. ASSUME NEW p \in Procs, ProcessStep(p) PROVE ChildStep
    <3>1. CASE Listens(p)
      <4>1. CASE port = 0
        <5>1. mgr' = mgr /\ cmd' = cmd /\ reap' = reap /\ procs[p].st = "starting"
              /\ procs' = [procs EXCEPT ![p].st = "up"]
          BY <3>1, <4>1 DEF Listens
        <5>2. \A q \in Procs : ProcKept(q)
          <6> SUFFICES ASSUME NEW q \in Procs PROVE ProcKept(q)
            OBVIOUS
          <6>1. procs[q] \in Processes /\ procs'[q] = IF q = p THEN [procs[q] EXCEPT !.st = "up"] ELSE procs[q]
            BY <5>1 DEF TypeOK
          <6> QED BY <5>1, <6>1 DEF ProcKept, Alive, Processes
        <5> QED BY <5>1, <5>2 DEF Quiet, ChildStep
      <4>2. CASE port # 0
        BY <3>1, <4>2, EndsKept DEF Listens, Quiet, ChildStep
      <4> QED BY <4>1, <4>2
    <3>2. CASE Reap(p)
      BY <3>2 DEF ChildStep, Reaped
    <3>3. CASE SendDone(p)
      BY <3>3, ProcsKept DEF SendDone, Quiet, ChildStep, TypeOK
    <3> QED BY <2>2, <3>1, <3>2, <3>3 DEF ProcessStep
  <2>3. ASSUME NEW t \in Callers, NEW op \in Ops, Begin(t, op) PROVE ChildStep
    BY <2>3, <1>k DEF Begin, ChildStep
  <2>4. ASSUME NEW t \in Callers, ClientGone(t) PROVE ChildStep
    BY <2>4, <1>k DEF ClientGone, ChildStep
  <2>5. ASSUME NEW p \in Procs, Exits(p) \/ Crashes(p) PROVE ChildStep
    BY <2>5, EndsKept DEF Exits, Crashes, Quiet, ChildStep
  <2>6. CASE ManagerExits \/ ManagerFails \/ ManagerQuits
    BY <2>6 DEF ManagerExits, ManagerFails, ManagerQuits, Ended, ChildStep
  <2>7. CASE AutoStart
    BY <2>7, <1>k, StartKinds DEF AutoStart, ChildStep
  <2>8. CASE ManagerListens
    <3>1. th[Boot].pc = "listen" /\ Boot \in Threads
      BY <2>8 DEF ManagerListens, Threads
    <3>2. mgr.st # "down" /\ mgr'.inc = mgr.inc
      BY <2>8, <3>1 DEF ManagerInv, ManagerListens, TypeOK, Managers
    <3> QED BY <2>8, <3>2, ProcsKept DEF ManagerListens, Quiet, ChildStep
  <2>9. CASE OperatorLaunches
    BY <2>9, <1>l DEF OperatorLaunches, ChildStep
  <2>10. CASE Finalizer \/ FinKilled
    <3>1. CASE FinLaunch \/ FinRelaunch
      BY <3>1, <1>k, <1>l DEF FinLaunch, FinRelaunch, ManagerInv, ChildStep
    <3>2. CASE FinReady
      BY <3>2, <1>k DEF FinReady, Ended, ChildStep
    <3>3. CASE FinDown \/ FinBackup \/ FinInstall \/ FinRollback \/ FinRestore \/ FinCleanup \/ FinKilled
      BY <3>3, <1>k DEF FinDown, FinBackup, FinInstall, FinRollback, FinRestore, FinCleanup, FinKilled, ChildStep
    <3> QED BY <2>10, <3>1, <3>2, <3>3 DEF Finalizer
  <2> QED BY <1>2, <2>1, <2>2, <2>3, <2>4, <2>5, <2>6, <2>7, <2>8, <2>9, <2>10 DEF Next, System, Environment, Act
<1> QED BY <1>1, <1>2

LEMMA ChildInit == Init => ChildInv
<1> SUFFICES ASSUME Init PROVE ChildInv
  OBVIOUS
<1>1. /\ \A p \in Procs : procs[p] = IF p = 1 THEN [st |-> "up", bin |-> "old", own |-> 1]
                                     ELSE [st |-> "unborn", bin |-> "none", own |-> 0]
      /\ \A p \in Procs : reap[p] = IF p = 1 THEN "waiting" ELSE "none"
      /\ cmd = 1 /\ mgr.inc = 1 /\ 1 \in Procs
  BY ProcsAssumption DEF Init, Procs
<1> QED BY <1>1 DEF ChildInv, OneChild, Alive

LEMMA ChildKept ==
    ASSUME TypeOK, TypeOK', ChildInv, ChildStep
    PROVE  ChildInv'
<1>t. /\ \A p \in Procs : procs[p] \in Processes /\ procs'[p] \in Processes
      /\ mgr.inc \in Nat /\ mgr'.inc \in Nat /\ cmd \in Procs \cup {0} /\ 0 \notin Procs
      /\ reap \in [Procs -> {"none", "waiting", "cleared", "sent", "taken"}]
      /\ procs \in [Procs -> Processes]
  BY DEF TypeOK, Procs, Managers
<1>1. CASE Quiet
  <2>1. ASSUME NEW p \in Procs PROVE /\ procs'[p].own <= mgr'.inc
                                     /\ reap'[p] = "none" <=> procs'[p].st = "unborn"
                                     /\ Alive(p)' /\ procs'[p].own = mgr'.inc /\ mgr'.st # "down" => cmd' = p
    <3>1. ProcKept(p)
      BY <1>1 DEF Quiet
    <3>2. reap'[p] = "none" <=> reap[p] = "none"
      BY <1>1 DEF Quiet
    <3> QED BY <1>1, <3>1, <3>2 DEF ProcKept, Quiet, ChildInv, OneChild
  <2>2. cmd' # 0 => reap'[cmd'] = "waiting" /\ procs'[cmd'].own = mgr'.inc
    BY <1>1, <1>t DEF Quiet, ChildInv, ProcKept
  <2> QED BY <2>1, <2>2 DEF ChildInv, OneChild
<1>2. CASE Spawned
  <2>1. PICK p \in Procs :
           /\ cmd = 0 /\ procs[p].st = "unborn" /\ cmd' = p /\ reap' = [reap EXCEPT ![p] = "waiting"]
           /\ procs' = [procs EXCEPT ![p] = [st |-> "starting", bin |-> disk.proxy, own |-> mgr.inc]]
           /\ mgr' = mgr
    BY <1>2 DEF Spawned
  <2>2. /\ procs'[p].own = mgr.inc /\ procs'[p].st = "starting" /\ reap'[p] = "waiting"
        /\ \A q \in Procs : q # p => procs'[q] = procs[q] /\ reap'[q] = reap[q]
    BY <2>1, <1>t
  <2> QED BY <2>1, <2>2, <1>t DEF ChildInv, OneChild, Alive
<1>3. CASE Reaped
  <2>1. PICK p \in Procs : Reap(p)
    BY <1>3 DEF Reaped
  <2>2. /\ procs' = procs /\ mgr' = mgr /\ procs[p].st = "dead" /\ reap[p] = "waiting"
        /\ cmd' = IF cmd = p THEN 0 ELSE cmd
        /\ \A q \in Procs : reap'[q] = IF q = p THEN "cleared" ELSE reap[q]
    BY <2>1, <1>t DEF Reap
  <2> QED BY <2>2, <1>t DEF ChildInv, OneChild, Alive
<1>4. CASE Ended
  <2>1. /\ procs' = procs /\ mgr'.st = "down" /\ mgr'.inc = mgr.inc /\ cmd' = 0
        /\ \A q \in Procs : reap'[q] = IF reap[q] = "none" THEN "none" ELSE "taken"
    BY <1>4 DEF Ended, ManagerEnds, TypeOK, Managers
  <2> QED BY <2>1, <1>t DEF ChildInv, OneChild
<1>5. CASE Launched
  <2>1. \A p \in Procs : procs[p].own < mgr'.inc
    BY <1>5, <1>t DEF Launched, ChildInv, Processes
  <2>2. procs' = procs /\ cmd' = 0 /\ reap' = reap
    BY <1>5 DEF Launched
  <2>3. \A p \in Procs : procs'[p].own <= mgr'.inc /\ procs'[p].own # mgr'.inc
    <3> SUFFICES ASSUME NEW p \in Procs PROVE procs'[p].own <= mgr'.inc /\ procs'[p].own # mgr'.inc
      OBVIOUS
    <3>1. procs[p].own \in Nat /\ procs[p].own < mgr'.inc /\ mgr'.inc \in Nat
      BY <1>t, <2>1 DEF Processes
    <3> QED BY <3>1, <2>2
  <2>4. OneChild'
    BY <2>3 DEF OneChild
  <2> QED BY <2>2, <2>3, <2>4 DEF ChildInv
<1> QED BY <1>1, <1>2, <1>3, <1>4, <1>5 DEF ChildStep

\* What a call has as its target, after a step of its own.
LEMMA ActTarget ==
    ASSUME TypeOK, CallsInv, NEW t \in Threads, Act(t), ~Stop(t), ~StopDone(t)
    PROVE  \/ th'[t].tgt = 0 /\ th'[t].pc \notin {"wait", "kill"}
           \/ /\ th'[t].tgt = th[t].tgt
              /\ \/ th'[t].pc \notin {"lock", "unzip", "stop", "wait", "kill", "start"}
                 \/ th[t].pc = "wait" /\ th'[t].pc = "kill"
                 \/ th[t].pc = "lock" /\ th'[t].pc = "unzip"
                 \/ th[t].pc = "unzip" /\ th'[t].pc = "stop"
<1> DEFINE Plain(pc) == pc \notin {"lock", "unzip", "stop", "wait", "kill", "start"}
           G == th'[t].tgt = th[t].tgt /\ Plain(th'[t].pc)
           R == th'[t].tgt = 0 /\ th'[t].pc \notin {"wait", "kill"}
<1>g. ASSUME NEW pc, Goto(t, pc), Plain(pc) PROVE G
  BY <1>g, GotoEffect
<1>r. ASSUME NEW res, Return(t, res) PROVE R
  BY <1>r, ReturnEffect
<1>d. ASSUME NEW res, Deployed(t, res) PROVE G \/ R
  <2>1. CASE th' = [th EXCEPT ![t].pc = "auto", ![t].res = res]
    <3>1. th[t] \in Calls
      BY DEF TypeOK
    <3>2. th'[t] = [th[t] EXCEPT !.pc = "auto", !.res = res]
      BY <2>1 DEF TypeOK
    <3>3. th'[t].pc = "auto" /\ th'[t].tgt = th[t].tgt
      BY <3>1, <3>2 DEF Calls
    <3> QED BY <3>3
  <2> QED BY <1>d, <2>1, <1>r DEF Deployed
<1>b. ASSUME BuildFailed(t) PROVE G \/ R
  BY <1>b, <1>r, <1>g DEF BuildFailed
<1>e. ASSUME NEW r, th' = [th EXCEPT ![t] = r], r.tgt = th[t].tgt, Plain(r.pc) PROVE G
  BY <1>e DEF TypeOK
<1>c. th[t] \in Calls
  BY DEF TypeOK
<1> HIDE DEF G, R
<1>1. CASE StopDeadline(t)
  BY <1>1, GotoEffect DEF StopDeadline
<1>2. CASE StopReturns(t) \/ StartStep(t)
  BY <1>2, <1>r DEF StopReturns, StartStep, R
<1>3. CASE StopStale(t) \/ StartDeployed(t) \/ Ready(t)
  BY <1>3, <1>g, <1>d DEF StopStale, StartDeployed, Ready, R, G
<1>4. CASE Build(t)
  <2>1. CASE th' = [th EXCEPT ![t].pc = "promote", ![t].art = disk.src]
    <3>1. th' = [th EXCEPT ![t] = [th[t] EXCEPT !.pc = "promote", !.art = disk.src]]
      BY <2>1 DEF TypeOK
    <3>2. [th[t] EXCEPT !.pc = "promote", !.art = disk.src].tgt = th[t].tgt
          /\ [th[t] EXCEPT !.pc = "promote", !.art = disk.src].pc = "promote"
      BY <1>c DEF Calls
    <3> QED BY <3>1, <3>2, <1>e DEF G
  <2> QED BY <1>4, <2>1, <1>b DEF Build, G, R
<1>5. CASE Promote(t)
  <2>1. CASE th' = [th EXCEPT ![t].pc = "install", ![t].bak = disk.proxy # "none"]
    <3>1. th' = [th EXCEPT ![t] = [th[t] EXCEPT !.pc = "install", !.bak = disk.proxy # "none"]]
      BY <2>1 DEF TypeOK
    <3>2. [th[t] EXCEPT !.pc = "install", !.bak = disk.proxy # "none"].tgt = th[t].tgt
          /\ [th[t] EXCEPT !.pc = "install", !.bak = disk.proxy # "none"].pc = "install"
      BY <1>c DEF Calls
    <3> QED BY <3>1, <3>2, <1>e DEF G
  <2> QED BY <1>5, <2>1, <1>b DEF Promote, G, R
<1>6. CASE Install(t) \/ Unlink(t)
  BY <1>6, <1>g, <1>r DEF Install, InstallFailed, Unlink, G, R
<1>7. CASE Deploy(t)
  BY <1>7, GotoEffect DEF Deploy
<1>8. CASE Unzip(t)
  <2>1. CASE th' = [th EXCEPT ![t].was = cmd # 0, ![t].pc = IF cmd # 0 THEN "stop" ELSE "mirror"]
    <3> DEFINE r == [th[t] EXCEPT !.was = cmd # 0, !.pc = IF cmd # 0 THEN "stop" ELSE "mirror"]
    <3>1. th'[t] = r
      BY <2>1 DEF TypeOK
    <3>2. r.tgt = th[t].tgt /\ r.pc \in {"stop", "mirror"}
      BY <1>c DEF Calls
    <3>3. th[t].pc = "unzip"
      BY <1>8 DEF Unzip
    <3> HIDE DEF r
    <3> QED BY <3>1, <3>2, <3>3
  <2> QED BY <1>8, <2>1, <1>r DEF Unzip, R
<1>9. CASE Mirror(t) \/ Mirrored(t) \/ BuildManager(t)
  BY <1>9, <1>g DEF Mirror, Mirrored, BuildManager, G
<1>10. CASE Recover(t) \/ Built(t) \/ LaunchFinalizer(t)
  BY <1>10, <1>g, <1>r DEF Recover, Built, LaunchFinalizer, G, R
<1> QED BY <1>1, <1>2, <1>3, <1>4, <1>5, <1>6, <1>7, <1>8, <1>9, <1>10 DEF Act, SupervisorStep, DeployStep

\* What a call has stopped stays there and stays stopped.
LEMMA TargetKept ==
    ASSUME TypeOK, TypeOK', ChildInv, Quiet \/ Spawned \/ Reaped \/ Launched,
           NEW tgt \in Procs, procs[tgt].st # "unborn"
    PROVE  procs'[tgt].st # "unborn" /\ (reap[tgt] = "taken" => reap'[tgt] = "taken")
<1>1. CASE Quiet
  BY <1>1 DEF Quiet, ProcKept
<1>2. CASE Spawned
  BY <1>2 DEF Spawned, TypeOK
<1>3. CASE Reaped
  BY <1>3 DEF Reaped, Reap, TypeOK
<1>4. CASE Launched
  BY <1>4 DEF Launched
<1> QED BY <1>1, <1>2, <1>3, <1>4

LEMMA StopKept ==
    ASSUME TypeOK, TypeOK', ChildInv, Quiet \/ Spawned \/ Reaped \/ Launched, StopInv,
           NEW t \in Threads, th'[t].pc = th[t].pc, th'[t].tgt = th[t].tgt
    PROVE  StopAt(th[t].pc, th[t].tgt)'
<1>1. th[t].tgt \in 0 .. MaxProcs
  BY DEF TypeOK, Calls
<1>2. StopAt(th[t].pc, th[t].tgt)
  BY DEF StopInv
<1>3. th[t].tgt # 0 => th[t].tgt \in Procs
  BY <1>1 DEF Procs
<1> QED BY <1>2, <1>3, TargetKept DEF StopAt

\* A call knows what it stops from its Stop on, and goes on when it is gone.
LEMMA OwnStop ==
    ASSUME TypeOK, TypeOK', CallsInv, ChildInv, StopInv, NEW t \in Threads, Act(t), Quiet \/ Spawned
    PROVE  StopAt(th[t].pc, th[t].tgt)'
<1>1. th[t].tgt \in 0 .. MaxProcs /\ cmd \in 0 .. MaxProcs
  BY DEF TypeOK, Calls
<1>2. StopAt(th[t].pc, th[t].tgt)
  BY DEF StopInv
<1>3. th[t].tgt # 0 => th[t].tgt \in Procs
  BY <1>1 DEF Procs
<1>4. th[t].tgt # 0 => procs[th[t].tgt].st # "unborn" /\ procs'[th[t].tgt].st # "unborn"
  BY <1>2, <1>3, TargetKept DEF StopAt
<1>5. CASE Stop(t)
  <2>1. th[t].tgt = 0 /\ th[t].pc = "stop"
    BY <1>2, <1>5 DEF Stop, StopAt
  <2>2. CASE cmd = 0
    <3>1. th'[t].tgt = 0 /\ th'[t].pc = AfterStop(th[t].op)
      BY <1>5, <2>1, <2>2, GotoEffect DEF Stop
    <3>2. AfterStop(th[t].op) \notin {"wait", "kill"}
      BY DEF AfterStop
    <3> QED BY <3>1, <3>2 DEF StopAt
  <2>3. CASE cmd # 0
    <3> DEFINE r == [th[t] EXCEPT !.pc = "wait", !.tgt = cmd]
    <3>1. th[t] \in Calls
      BY DEF TypeOK
    <3>2. th'[t] = r
      BY <1>5, <2>3 DEF Stop, TypeOK
    <3>3. r.pc = "wait" /\ r.tgt = cmd
      BY <3>1 DEF Calls
    <3>4. cmd \in Procs
      BY <1>1, <2>3 DEF Procs
    <3>5. procs[cmd].st # "unborn"
      BY <2>3, <3>4 DEF ChildInv
    <3>6. procs'[cmd].st # "unborn"
      BY <3>4, <3>5, TargetKept
    <3> HIDE DEF r
    <3> QED BY <2>3, <3>2, <3>3, <3>6 DEF StopAt
  <2> QED BY <2>2, <2>3
<1>6. CASE StopDone(t)
  <2>1. th[t].tgt # 0 /\ reap' = [reap EXCEPT ![th[t].tgt] = "taken"]
    BY <1>2, <1>6 DEF StopDone, StopAt
  <2>2. reap'[th[t].tgt] = "taken"
    BY <2>1, <1>3 DEF TypeOK
  <2>3. CASE Return(t, "cancelled")
    BY <2>3, ReturnEffect DEF StopAt
  <2>4. CASE Goto(t, AfterStop(th[t].op))
    <3>1. th'[t].tgt = th[t].tgt /\ th'[t].pc = AfterStop(th[t].op)
      BY <2>4, GotoEffect
    <3>2. AfterStop(th[t].op) \notin {"wait", "kill", "lock", "unzip", "stop"}
      BY DEF AfterStop
    <3> QED BY <2>1, <2>2, <3>1, <3>2, <1>4 DEF StopAt
  <2> QED BY <1>6, <2>3, <2>4 DEF StopDone
<1>7. CASE ~Stop(t) /\ ~StopDone(t)
  <2>1. CASE th'[t].tgt = 0 /\ th'[t].pc \notin {"wait", "kill"}
    BY <2>1 DEF StopAt
  <2>2. CASE th'[t].tgt = th[t].tgt
             /\ \/ th'[t].pc \notin {"lock", "unzip", "stop", "wait", "kill", "start"}
                \/ th[t].pc = "wait" /\ th'[t].pc = "kill"
                \/ th[t].pc = "lock" /\ th'[t].pc = "unzip"
                \/ th[t].pc = "unzip" /\ th'[t].pc = "stop"
    BY <2>2, <1>2, <1>4 DEF StopAt
  <2> QED BY <1>7, <2>1, <2>2, ActTarget
<1> QED BY <1>5, <1>6, <1>7

LEMMA StopStep ==
    TypeOK /\ TypeOK' /\ CallsInv /\ ManagerInv /\ ChildInv /\ StopInv /\ [Next]_vars => StopInv'
<1> SUFFICES ASSUME TypeOK, TypeOK', CallsInv, ManagerInv, ChildInv, StopInv, [Next]_vars PROVE StopInv'
  OBVIOUS
<1>0. Boot \in Threads /\ \A c \in Callers : c \in Threads
  BY DEF Threads
<1>1. CASE Ended
  BY <1>1, EndsKeeps, IdleFields DEF Ended, StopInv, StopAt
<1>2. CASE ~Ended
  <2>k. Quiet \/ Spawned \/ Reaped \/ Launched
    BY <1>2, NextKinds DEF ChildStep
  <2>1. ASSUME NEW t \in Threads, th'[t].pc = th[t].pc, th'[t].tgt = th[t].tgt PROVE StopAt(th[t].pc, th[t].tgt)'
    BY <2>1, <2>k, StopKept
  <2>2. ASSUME th' = th PROVE StopInv'
    BY <2>1, <2>2 DEF StopInv
  <2>3. ASSUME NEW u \in Threads, \A t \in Threads : t # u => th'[t] = th[t],
               th'[u].tgt = 0, th'[u].pc \notin {"wait", "kill"}
        PROVE  StopInv'
    <3>1. StopAt(th[u].pc, th[u].tgt)'
      BY <2>3 DEF StopAt
    <3> QED BY <2>1, <2>3, <3>1 DEF StopInv
  <2>l. ASSUME NEW flag, Launch(flag) PROVE StopInv'
    BY <2>l, <1>0, <2>3, LaunchEffect
  <2>4. CASE UNCHANGED vars
    BY <2>4, <2>2 DEF vars
  <2>5. ASSUME NEW t \in Threads, Act(t) PROVE StopInv'
    <3>1. StopAt(th[t].pc, th[t].tgt)'
      BY <2>5, ActKinds, OwnStop
    <3> QED BY <2>1, <2>5, <3>1, OthersKept DEF StopInv
  <2>6. ASSUME NEW p \in Procs, ProcessStep(p) PROVE StopInv'
    BY <2>6, <2>2 DEF ProcessStep, Listens, Reap, SendDone
  <2>7. ASSUME NEW t \in Callers, NEW op \in Ops, Begin(t, op) PROVE StopInv'
    <3> DEFINE r == [Idle EXCEPT !.op = op, !.pc = FirstStep(op)]
    <3>1. th'[t] = r /\ \A u \in Threads : u # t => th'[u] = th[u]
      BY <2>7, <1>0 DEF Begin, TypeOK
    <3>2. r.tgt = 0 /\ r.pc = FirstStep(op)
      BY DEF Idle
    <3>3. FirstStep(op) \notin {"wait", "kill"}
      BY DEF FirstStep
    <3> HIDE DEF r
    <3> QED BY <3>1, <3>2, <3>3, <1>0, <2>3
  <2>8. ASSUME NEW t \in Callers, ClientGone(t) PROVE StopInv'
    <3>1. th[t] \in Calls /\ t \in Threads
      BY <1>0 DEF TypeOK
    <3>2. th'[t] = [th[t] EXCEPT !.gone = TRUE] /\ \A u \in Threads : u # t => th'[u] = th[u]
      BY <2>8, <3>1 DEF ClientGone, TypeOK
    <3>3. th'[t].pc = th[t].pc /\ th'[t].tgt = th[t].tgt
      BY <3>1, <3>2 DEF Calls
    <3> QED BY <2>1, <3>2, <3>3 DEF StopInv
  <2>9. ASSUME NEW p \in Procs, Exits(p) \/ Crashes(p) PROVE StopInv'
    BY <2>9, <2>2 DEF Exits, Crashes
  <2>10. CASE ManagerExits \/ ManagerFails \/ ManagerQuits
    BY <2>10, <1>2 DEF ManagerExits, ManagerFails, ManagerQuits, Ended
  <2>11. CASE AutoStart
    <3>1. th'[Boot].pc = "listen" /\ th'[Boot].tgt = th[Boot].tgt /\ \A u \in Threads : u # Boot => th'[u] = th[u]
      BY <2>11, <1>0, GotoEffect DEF AutoStart
    <3>2. th[Boot].tgt \in 0 .. MaxProcs
      BY <1>0 DEF TypeOK, Calls
    <3>3. th[Boot].tgt # 0 => th[Boot].tgt \in Procs /\ procs[th[Boot].tgt].st # "unborn"
      BY <1>0, <3>2 DEF StopInv, StopAt, Procs
    <3>4. th[Boot].tgt # 0 => procs'[th[Boot].tgt].st # "unborn"
      BY <2>k, <3>3, TargetKept
    <3>5. StopAt(th[Boot].pc, th[Boot].tgt)'
      BY <3>1, <3>4 DEF StopAt
    <3> QED BY <2>1, <3>1, <3>5 DEF StopInv
  <2>12. CASE ManagerListens
    <3>1. th'[Boot] = Idle /\ \A u \in Threads : u # Boot => th'[u] = th[u]
      BY <2>12, <1>0 DEF ManagerListens, TypeOK
    <3> QED BY <3>1, <1>0, <2>3, IdleFields
  <2>13. CASE OperatorLaunches
    BY <2>13, <2>l DEF OperatorLaunches
  <2>14. CASE Finalizer \/ FinKilled
    <3>1. CASE FinReady
      BY <3>1, <1>2, <2>2 DEF FinReady, Ended
    <3>2. CASE FinLaunch \/ FinRelaunch
      BY <3>2, <2>2, <2>l DEF FinLaunch, FinRelaunch
    <3>3. CASE FinDown \/ FinBackup \/ FinInstall \/ FinRollback \/ FinRestore \/ FinCleanup \/ FinKilled
      BY <3>3, <2>2 DEF FinDown, FinBackup, FinInstall, FinRollback, FinRestore, FinCleanup, FinKilled
    <3> QED BY <2>14, <3>1, <3>2, <3>3 DEF Finalizer
  <2> QED BY <2>4, <2>5, <2>6, <2>7, <2>8, <2>9, <2>10, <2>11, <2>12, <2>13, <2>14 DEF Next, System, Environment, Act
<1> QED BY <1>1, <1>2

LEMMA CallsInit == Init => CallsInv /\ ManagerInv /\ StopInv
<1> SUFFICES ASSUME Init PROVE CallsInv /\ ManagerInv /\ StopInv
  OBVIOUS
<1>1. \A t \in Threads : th[t] = Idle
  BY DEF Init
<1>2. mgr.st = "up" /\ fin.pc = "none"
  BY DEF Init, NoFinalizer
<1> QED BY <1>1, <1>2, IdleFields DEF CallsInv, CallShape, ManagerInv, StopInv, StopAt, Threads

\* The invariants of the supervisor, from each of which the next one is proved.
SupervisedInv == TypeOK /\ CallsInv /\ ManagerInv /\ ChildInv /\ StopInv

LEMMA SupervisedInit == Init => SupervisedInv
BY TypeInit, CallsInit, ChildInit DEF SupervisedInv

LEMMA SupervisedStep == SupervisedInv /\ [Next]_vars => SupervisedInv'
<1> SUFFICES ASSUME SupervisedInv, [Next]_vars PROVE SupervisedInv'
  OBVIOUS
<1>1. TypeOK /\ CallsInv /\ ManagerInv /\ ChildInv /\ StopInv
  BY DEF SupervisedInv
<1>2. TypeOK' /\ CallsInv' /\ ManagerInv'
  BY <1>1, TypeStep, CallsStep, ManagerStep
<1>3. ChildInv'
  BY <1>1, <1>2, NextKinds, ChildKept
<1>4. StopInv'
  BY <1>1, <1>2, StopStep
<1> QED BY <1>2, <1>3, <1>4 DEF SupervisedInv

LEMMA SupervisedAlways == Spec => []SupervisedInv
BY SupervisedInit, SupervisedStep, PTL DEF Spec

\* A call that takes no step, or whose client leaves
Unmoved(u) ==
    /\ th'[u].op = th[u].op /\ th'[u].pc = th[u].pc /\ th'[u].tgt = th[u].tgt /\ th'[u].was = th[u].was
    /\ th'[u].bak = th[u].bak /\ th'[u].art = th[u].art /\ th'[u].res = th[u].res

\* What can happen to a call in a step of the system.
LEMMA CallStep ==
    ASSUME TypeOK, CallsInv, Next, NEW u \in Threads
    PROVE  \/ Unmoved(u)
           \/ Act(u)
           \/ ManagerEnds
           \/ \E op \in Ops : Begin(u, op)
           \/ u = Boot /\ (AutoStart \/ ManagerListens \/ \E flag \in BOOLEAN : Launch(flag))
<1> DEFINE Goal == \/ Unmoved(u)
                   \/ Act(u)
                   \/ ManagerEnds
                   \/ \E op \in Ops : Begin(u, op)
                   \/ u = Boot /\ (AutoStart \/ ManagerListens \/ \E flag \in BOOLEAN : Launch(flag))
<1>1. ASSUME th'[u] = th[u] PROVE Goal
  BY <1>1 DEF Unmoved
<1>2. ASSUME th' = th PROVE Goal
  BY <1>1, <1>2
<1>l. ASSUME NEW flag \in BOOLEAN, Launch(flag) PROVE Goal
  <2>1. CASE u = Boot
    BY <1>l, <2>1
  <2>2. CASE u # Boot
    BY <1>l, <2>2, <1>1, LaunchEffect
  <2> QED BY <2>1, <2>2
<1>3. ASSUME NEW t \in Threads, Act(t) PROVE Goal
  <2>1. CASE t = u
    BY <1>3, <2>1
  <2>2. CASE t # u
    BY <1>3, <2>2, <1>1, OthersKept
  <2> QED BY <2>1, <2>2
<1>4. ASSUME NEW p \in Procs, ProcessStep(p) PROVE Goal
  BY <1>4, <1>2 DEF ProcessStep, Listens, Reap, SendDone
<1>5. ASSUME NEW t \in Callers, NEW op \in Ops, Begin(t, op) PROVE Goal
  <2>1. CASE t # u
    <3>1. th'[u] = th[u]
      BY <1>5, <2>1 DEF Begin, TypeOK
    <3> QED BY <3>1, <1>1
  <2> QED BY <1>5, <2>1
<1>6. ASSUME NEW t \in Callers, ClientGone(t) PROVE Goal
  <2>1. CASE t # u
    <3>1. th'[u] = th[u]
      BY <1>6, <2>1 DEF ClientGone, TypeOK
    <3> QED BY <3>1, <1>1
  <2>2. CASE t = u
    <3>1. th[u] \in Calls
      BY DEF TypeOK
    <3>2. th'[u] = [th[u] EXCEPT !.gone = TRUE]
      BY <1>6, <2>2 DEF ClientGone, TypeOK
    <3> QED BY <3>1, <3>2 DEF Calls, Unmoved
  <2> QED BY <2>1, <2>2
<1>7. ASSUME NEW p \in Procs, Exits(p) \/ Crashes(p) PROVE Goal
  BY <1>7, <1>2 DEF Exits, Crashes
<1>8. CASE ManagerExits \/ ManagerFails \/ ManagerQuits
  BY <1>8 DEF ManagerExits, ManagerFails, ManagerQuits
<1>9. CASE AutoStart
  <2>1. CASE u # Boot
    <3>1. Boot \in Threads /\ Goto(Boot, "listen")
      BY <1>9 DEF AutoStart, Threads
    <3>2. th'[u] = th[u]
      BY <2>1, <3>1, GotoEffect
    <3> QED BY <3>2, <1>1
  <2> QED BY <1>9, <2>1
<1>10. CASE ManagerListens
  <2>1. CASE u # Boot
    <3>1. th'[u] = th[u]
      BY <1>10, <2>1 DEF ManagerListens, TypeOK
    <3> QED BY <3>1, <1>1
  <2> QED BY <1>10, <2>1
<1>11. CASE OperatorLaunches
  BY <1>11, <1>l DEF OperatorLaunches
<1>12. CASE Finalizer \/ FinKilled
  <2>1. CASE FinReady
    BY <2>1, <1>2 DEF FinReady
  <2>2. CASE FinLaunch \/ FinRelaunch
    <3>1. fin.start \in BOOLEAN
      BY DEF TypeOK, Finalizers
    <3> QED BY <2>2, <3>1, <1>l, <1>2 DEF FinLaunch, FinRelaunch
  <2>3. CASE FinDown \/ FinBackup \/ FinInstall \/ FinRollback \/ FinRestore \/ FinCleanup \/ FinKilled
    BY <2>3, <1>2 DEF FinDown, FinBackup, FinInstall, FinRollback, FinRestore, FinCleanup, FinKilled
  <2> QED BY <1>12, <2>1, <2>2, <2>3 DEF Finalizer
<1> QED BY <1>3, <1>4, <1>5, <1>6, <1>7, <1>8, <1>9, <1>10, <1>11, <1>12 DEF Next, System, Environment, Act

\* Only Start ends the last step of a Restart.
LEMMA OnlyStartEnds ==
    ASSUME SupervisedInv, Next, NEW c \in Callers, th[c].pc = "start", th'[c].res = "ok"
    PROVE  StartStep(c)
<1>1. TypeOK /\ CallsInv /\ c \in Threads /\ c # Boot /\ th[c].res = "none"
  BY CallersAssumption DEF SupervisedInv, Threads, CallsInv
<1>2. ~Unmoved(c) /\ ~(\E op \in Ops : Begin(c, op))
  BY <1>1 DEF Unmoved, Begin
<1>3. ~ManagerEnds
  BY <1>1, EndsKeeps, IdleFields
<1>4. Act(c)
  BY <1>1, <1>2, <1>3, CallStep
<1>5. ~Stop(c) /\ ~StopDeadline(c) /\ ~StopDone(c) /\ ~StopReturns(c) /\ ~StopStale(c) /\ ~StartDeployed(c)
      /\ ~Ready(c) /\ ~Build(c) /\ ~Promote(c) /\ ~Install(c) /\ ~Unlink(c)
  BY DEF Stop, StopDeadline, StopDone, StopReturns, StopStale, StartDeployed, Ready, Build, Promote, Install, InstallFailed, Unlink
<1>6. ~DeployStep(c)
  BY DEF DeployStep, Deploy, Unzip, Mirror, Mirrored, BuildManager, Recover, Built, LaunchFinalizer
<1> QED BY <1>4, <1>5, <1>6 DEF Act, SupervisorStep

\* Start finds another process than the one that was stopped, or starts one.
LEMMA StartReplaces ==
    ASSUME SupervisedInv, NEW c \in Callers, StartStep(c), th'[c].res = "ok"
    PROVE  cmd' \notin {0, th[c].tgt}
<1>1. TypeOK /\ CallsInv /\ c \in Threads /\ th[c].tgt \in 0 .. MaxProcs /\ 0 \notin Procs
  BY DEF SupervisedInv, TypeOK, Calls, Threads, Procs
<1>2. PICK ok \in BOOLEAN : Start(ok) /\ Return(c, IF ok THEN "ok" ELSE "failed")
  BY DEF StartStep
<1>3. ok = TRUE
  BY <1>1, <1>2, ReturnEffect
<1>4. th[c].tgt # 0 => th[c].tgt \in Procs /\ reap[th[c].tgt] = "taken" /\ procs[th[c].tgt].st # "unborn"
  BY <1>1 DEF SupervisedInv, StopInv, StopAt, StartStep, Procs
<1>5. CASE cmd # 0 /\ cmd' = cmd
  BY <1>4, <1>5 DEF SupervisedInv, ChildInv
<1>6. CASE Spawn
  BY <1>1, <1>4, <1>6, SpawnEffect
<1> QED BY <1>2, <1>3, <1>5, <1>6 DEF Start

\* However Start, Stop and Restart, deployments and builds interleave with the
\* end of the proxy, a manager that runs supervises every live process it has
\* started, and a Restart that succeeds has replaced the process it stopped.
THEOREM UpgradeStaysSupervised == Spec => StaysSupervised
<1> DEFINE A == \A t \in Callers :
                    th[t].op \in {"restart", "config"} /\ th[t].pc = "start" /\ th'[t].res = "ok"
                      => cmd' \notin {0, th[t].tgt}
<1>1. SupervisedInv => OneChild
  BY DEF SupervisedInv, ChildInv
<1>2. SupervisedInv /\ [Next]_vars => [A]_vars
  BY OnlyStartEnds, StartReplaces
<1>3. RestartReplaces <=> [][A]_vars
  BY DEF RestartReplaces
<1> QED BY <1>1, <1>2, <1>3, SupervisedAlways, PTL DEF Spec, StaysSupervised

-----------------------------------------------------------------------------
(* Scenes with one builder at a time: who asks for what.                    *)

\* What a step leaves of the requests and quits to come
SpendsNone ==
    /\ budget'.ops = budget.ops /\ budget'.quits = budget.quits
    /\ budget'.torn = budget.torn \/ FailsTwice

LEMMA ActSpendsNone ==
    ASSUME TypeOK, NEW t \in Threads, Act(t)
    PROVE  SpendsNone
<1>b. budget \in Budgets
  BY DEF TypeOK
<1>f. Fails \/ FailsTwice \/ Works => SpendsNone
  BY <1>b DEF Fails, FailsTwice, Works, SpendsNone, Budgets
<1>s. ASSUME NEW ok \in BOOLEAN, Start(ok) PROVE SpendsNone
  BY <1>b, <1>f, <1>s DEF Start, SpendsNone, Budgets, Works
<1>1. CASE SupervisorStep(t)
  <2>1. CASE Stop(t) \/ StopDeadline(t) \/ StopDone(t) \/ StopReturns(t) \/ StopStale(t)
    BY <2>1 DEF Stop, StopDeadline, StopDone, StopReturns, StopStale, SpendsNone
  <2>2. CASE StartStep(t) \/ StartDeployed(t)
    BY <2>2, <1>s DEF StartStep, StartDeployed
  <2>3. CASE Ready(t) \/ Build(t) \/ Promote(t) \/ Install(t) \/ Unlink(t)
    BY <2>3, <1>f DEF Ready, Build, Promote, Install, InstallFailed, Unlink
  <2> QED BY <1>1, <2>1, <2>2, <2>3 DEF SupervisorStep
<1>2. CASE DeployStep(t)
  <2>1. CASE Deploy(t) \/ Mirror(t) \/ Built(t)
    BY <2>1 DEF Deploy, Mirror, Built, SpendsNone
  <2>2. CASE Unzip(t) \/ Mirrored(t) \/ BuildManager(t) \/ LaunchFinalizer(t)
    BY <2>2, <1>f DEF Unzip, Mirrored, BuildManager, LaunchFinalizer
  <2>3. CASE Recover(t)
    BY <2>3, <1>s DEF Recover, SpendsNone
  <2> QED BY <1>2, <2>1, <2>2, <2>3 DEF DeployStep
<1> QED BY <1>1, <1>2 DEF Act

LEMMA StepSpends ==
    ASSUME TypeOK, Next
    PROVE  \/ SpendsNone
           \/ \E t \in Callers : \E op \in Ops : Begin(t, op)
           \/ ManagerQuits
<1>b. budget \in Budgets
  BY DEF TypeOK
<1>f. Fails \/ FailsTwice \/ Works => SpendsNone
  BY <1>b DEF Fails, FailsTwice, Works, SpendsNone, Budgets
<1>k. ASSUME budget' = budget PROVE SpendsNone
  BY <1>k DEF SpendsNone
<1>1. ASSUME NEW t \in Threads, Act(t) PROVE SpendsNone
  BY <1>1, ActSpendsNone
<1>2. ASSUME NEW p \in Procs, ProcessStep(p) PROVE SpendsNone
  BY <1>2, <1>k DEF ProcessStep, Listens, Reap, SendDone
<1>3. ASSUME NEW t \in Callers, ClientGone(t) PROVE SpendsNone
  BY <1>3, <1>b DEF ClientGone, SpendsNone, Budgets
<1>4. ASSUME NEW p \in Procs, Exits(p) \/ Crashes(p) PROVE SpendsNone
  BY <1>4, <1>b DEF Exits, Crashes, SpendsNone, Budgets
<1>5. CASE ManagerExits \/ ManagerFails \/ ManagerListens
  BY <1>5, <1>k DEF ManagerExits, ManagerFails, ManagerListens
<1>6. CASE AutoStart
  BY <1>6, <1>b DEF AutoStart, Start, Works, SpendsNone, Budgets
<1>7. CASE OperatorLaunches
  BY <1>7, <1>b DEF OperatorLaunches, SpendsNone, Budgets
<1>8. CASE Finalizer \/ FinKilled
  <2>1. CASE FinKilled
    BY <2>1, <1>b DEF FinKilled, SpendsNone, Budgets
  <2>2. CASE FinInstall
    BY <2>2, <1>f DEF FinInstall
  <2>3. CASE FinDown \/ FinBackup \/ FinLaunch \/ FinReady \/ FinRollback \/ FinRestore \/ FinRelaunch \/ FinCleanup
    BY <2>3, <1>f, <1>k DEF FinDown, FinBackup, FinLaunch, FinReady, FinRollback, FinRestore, FinRelaunch, FinCleanup
  <2> QED BY <1>8, <2>1, <2>2, <2>3 DEF Finalizer
<1> QED BY <1>1, <1>2, <1>3, <1>4, <1>5, <1>6, <1>7, <1>8 DEF Next, System, Environment, Act

\* What a step of a call does to the lock of the deployments.
CallGoesOn(t) == lock' = lock /\ th'[t].op = th[t].op
CallReturns(t) == \E res \in {"ok", "failed", "cancelled"} : Return(t, res)

LEMMA ActLock ==
    ASSUME TypeOK, NEW t \in Threads, Act(t)
    PROVE  \/ CallGoesOn(t) /\ th[t].pc # "lock"
           \/ CallReturns(t)
           \/ Deploy(t) /\ th'[t].op = th[t].op /\ th'[t].pc = "unzip"
           \/ BuildsManager /\ lock' = Nobody /\ th'[t].op = th[t].op /\ th'[t].pc = "launch"
<1> DEFINE K == CallGoesOn(t)
           R == CallReturns(t)
<1>g. ASSUME NEW pc, Goto(t, pc), lock' = lock PROVE K
  BY <1>g, GotoEffect DEF CallGoesOn
<1>r. ASSUME NEW res \in {"ok", "failed", "cancelled"}, Return(t, res) PROVE R
  BY <1>r DEF CallReturns
<1>c. th[t] \in Calls
  BY DEF TypeOK
<1>d. ASSUME NEW res \in {"ok", "failed"}, Deployed(t, res) PROVE K \/ R
  <2>1. CASE th' = [th EXCEPT ![t].pc = "auto", ![t].res = res] /\ lock' = lock
    <3>1. th'[t] = [th[t] EXCEPT !.pc = "auto", !.res = res]
      BY <2>1 DEF TypeOK
    <3>2. th'[t].op = th[t].op
      BY <1>c, <3>1 DEF Calls
    <3> QED BY <2>1, <3>2 DEF CallGoesOn
  <2> QED BY <1>d, <2>1, <1>r DEF Deployed
<1>b. ASSUME BuildFailed(t) PROVE K \/ R
  BY <1>b, <1>r, <1>g DEF BuildFailed
<1>1. CASE SupervisorStep(t)
  <2>p. th[t].pc # "lock"
    BY <1>1 DEF SupervisorStep, Stop, StopDeadline, StopDone, StopReturns, StartStep, StopStale,
                StartDeployed, Ready, Build, Promote, Install, InstallFailed, Unlink
  <2>1. CASE Stop(t)
    <3>1. CASE th' = [th EXCEPT ![t].pc = "wait", ![t].tgt = cmd]
      <4> DEFINE r == [th[t] EXCEPT !.pc = "wait", !.tgt = cmd]
      <4>1. th' = [th EXCEPT ![t] = r]
        BY <3>1 DEF TypeOK
      <4>2. r.op = th[t].op
        BY <1>c DEF Calls
      <4> HIDE DEF r
      <4>3. lock' = lock
        BY <2>1 DEF Stop
      <4> QED BY <2>p, <4>1, <4>2, <4>3 DEF CallGoesOn, TypeOK
    <3> QED BY <2>1, <3>1, <1>g DEF Stop
  <2>2. CASE StopDeadline(t) \/ StopDone(t) \/ StopReturns(t) \/ StartStep(t)
    BY <2>2, <1>g, <1>r DEF StopDeadline, StopDone, StopReturns, StartStep
  <2>3. CASE StopStale(t) \/ StartDeployed(t) \/ Ready(t)
    BY <2>3, <1>g, <1>d DEF StopStale, StartDeployed, Ready
  <2>4. CASE Build(t)
    <3>1. CASE th' = [th EXCEPT ![t].pc = "promote", ![t].art = disk.src] /\ lock' = lock
      <4> DEFINE r == [th[t] EXCEPT !.pc = "promote", !.art = disk.src]
      <4>1. th' = [th EXCEPT ![t] = r]
        BY <3>1 DEF TypeOK
      <4>2. r.op = th[t].op
        BY <1>c DEF Calls
      <4> HIDE DEF r
      <4> QED BY <2>p, <3>1, <4>1, <4>2 DEF CallGoesOn, TypeOK
    <3> QED BY <2>4, <3>1, <1>b DEF Build
  <2>5. CASE Promote(t)
    <3>1. CASE th' = [th EXCEPT ![t].pc = "install", ![t].bak = disk.proxy # "none"] /\ lock' = lock
      <4> DEFINE r == [th[t] EXCEPT !.pc = "install", !.bak = disk.proxy # "none"]
      <4>1. th' = [th EXCEPT ![t] = r]
        BY <3>1 DEF TypeOK
      <4>2. r.op = th[t].op
        BY <1>c DEF Calls
      <4> HIDE DEF r
      <4> QED BY <2>p, <3>1, <4>1, <4>2 DEF CallGoesOn, TypeOK
    <3> QED BY <2>5, <3>1, <1>b DEF Promote
  <2>6. CASE Install(t) \/ Unlink(t)
    BY <2>6, <1>g, <1>r DEF Install, InstallFailed, Unlink
  <2> QED BY <1>1, <2>p, <2>1, <2>2, <2>3, <2>4, <2>5, <2>6 DEF SupervisorStep
<1>2. CASE DeployStep(t)
  <2>p. Deploy(t) \/ th[t].pc # "lock"
    BY <1>2 DEF DeployStep, Unzip, Mirror, Mirrored, BuildManager, Recover, Built, LaunchFinalizer
  <2>1. CASE Deploy(t)
    BY <2>1, GotoEffect DEF Deploy
  <2>2. CASE Unzip(t)
    <3>p. th[t].pc # "lock"
      BY <2>2 DEF Unzip
    <3>1. CASE th' = [th EXCEPT ![t].was = cmd # 0, ![t].pc = IF cmd # 0 THEN "stop" ELSE "mirror"] /\ lock' = lock
      <4> DEFINE r == [th[t] EXCEPT !.was = cmd # 0, !.pc = IF cmd # 0 THEN "stop" ELSE "mirror"]
      <4>1. th' = [th EXCEPT ![t] = r]
        BY <3>1 DEF TypeOK
      <4>2. r.op = th[t].op
        BY <1>c DEF Calls
      <4> HIDE DEF r
      <4> QED BY <3>p, <3>1, <4>1, <4>2 DEF CallGoesOn, TypeOK
    <3> QED BY <2>2, <3>p, <3>1, <1>r DEF Unzip
  <2>3. CASE Mirror(t) \/ Mirrored(t) \/ BuildManager(t) \/ Recover(t) \/ LaunchFinalizer(t)
    BY <2>3, <1>g, <1>r DEF Mirror, Mirrored, BuildManager, Recover, LaunchFinalizer
  <2>4. CASE Built(t)
    <3>1. CASE BuildsManager
      BY <2>4, <3>1, GotoEffect DEF Built
    <3>2. CASE ~BuildsManager
      BY <2>4, <3>2, <1>g, <1>r DEF Built
    <3> QED BY <3>1, <3>2
  <2> QED BY <1>2, <2>p, <2>1, <2>2, <2>3, <2>4 DEF DeployStep
<1> QED BY <1>1, <1>2 DEF Act

\* Nobody but a deployment of the manager builds or launches one.
LEMMA ActUpgrades ==
    ASSUME TypeOK, NEW t \in Threads, Act(t), th'[t].pc \in {"manager", "launch"}
    PROVE  BuildsManager
<1> DEFINE No == th'[t].pc \notin {"manager", "launch"}
<1>g. ASSUME NEW pc, Goto(t, pc), pc \notin {"manager", "launch"} PROVE No
  BY <1>g, GotoEffect
<1>r. ASSUME NEW res, Return(t, res) PROVE No
  BY <1>r, ReturnEffect
<1>c. th[t] \in Calls
  BY DEF TypeOK
<1>d. ASSUME NEW res, Deployed(t, res) PROVE No
  <2>1. CASE th' = [th EXCEPT ![t].pc = "auto", ![t].res = res]
    <3>1. th'[t] = [th[t] EXCEPT !.pc = "auto", !.res = res]
      BY <2>1 DEF TypeOK
    <3> QED BY <1>c, <3>1 DEF Calls
  <2> QED BY <1>d, <2>1, <1>r DEF Deployed
<1>b. ASSUME BuildFailed(t) PROVE No
  BY <1>b, <1>r, <1>g DEF BuildFailed
<1>1. CASE SupervisorStep(t)
  <2>1. CASE Stop(t)
    <3>1. CASE th' = [th EXCEPT ![t].pc = "wait", ![t].tgt = cmd]
      <4>1. th'[t] = [th[t] EXCEPT !.pc = "wait", !.tgt = cmd]
        BY <3>1 DEF TypeOK
      <4> QED BY <1>c, <4>1 DEF Calls
    <3> QED BY <2>1, <3>1, <1>g DEF Stop, AfterStop
  <2>2. CASE StopDeadline(t) \/ StopDone(t) \/ StopReturns(t) \/ StartStep(t)
    BY <2>2, <1>g, <1>r DEF StopDeadline, StopDone, StopReturns, StartStep, AfterStop
  <2>3. CASE StopStale(t) \/ StartDeployed(t) \/ Ready(t)
    BY <2>3, <1>g, <1>d DEF StopStale, StartDeployed, Ready
  <2>4. CASE Build(t)
    <3>1. CASE th' = [th EXCEPT ![t].pc = "promote", ![t].art = disk.src]
      <4>1. th'[t] = [th[t] EXCEPT !.pc = "promote", !.art = disk.src]
        BY <3>1 DEF TypeOK
      <4> QED BY <1>c, <4>1 DEF Calls
    <3> QED BY <2>4, <3>1, <1>b DEF Build
  <2>5. CASE Promote(t)
    <3>1. CASE th' = [th EXCEPT ![t].pc = "install", ![t].bak = disk.proxy # "none"]
      <4>1. th'[t] = [th[t] EXCEPT !.pc = "install", !.bak = disk.proxy # "none"]
        BY <3>1 DEF TypeOK
      <4> QED BY <1>c, <4>1 DEF Calls
    <3> QED BY <2>5, <3>1, <1>b DEF Promote
  <2>6. CASE Install(t) \/ Unlink(t)
    BY <2>6, <1>g, <1>r DEF Install, InstallFailed, Unlink
  <2> QED BY <1>1, <2>1, <2>2, <2>3, <2>4, <2>5, <2>6 DEF SupervisorStep
<1>2. CASE DeployStep(t)
  <2>1. CASE Deploy(t) \/ Mirror(t) \/ BuildManager(t) \/ Recover(t) \/ LaunchFinalizer(t)
    BY <2>1, <1>g, <1>r DEF Deploy, Mirror, BuildManager, Recover, LaunchFinalizer
  <2>2. CASE Unzip(t)
    <3>1. CASE th' = [th EXCEPT ![t].was = cmd # 0, ![t].pc = IF cmd # 0 THEN "stop" ELSE "mirror"]
      <4>1. th'[t] = [th[t] EXCEPT !.was = cmd # 0, !.pc = IF cmd # 0 THEN "stop" ELSE "mirror"]
        BY <3>1 DEF TypeOK
      <4> QED BY <1>c, <4>1 DEF Calls
    <3> QED BY <2>2, <3>1, <1>r DEF Unzip
  <2>3. CASE Mirrored(t) \/ Built(t)
    BY <2>3, <1>g, <1>r DEF Mirrored, Built
  <2> QED BY <1>2, <2>1, <2>2, <2>3 DEF DeployStep
<1> QED BY <1>1, <1>2 DEF Act

\* A finalizer is launched by the last step of a call.
LEMMA FinStarts ==
    ASSUME TypeOK, CallsInv, Next, fin.pc = "none", fin'.pc # "none"
    PROVE  \E c \in Callers : LaunchFinalizer(c) /\ Act(c) /\ CallReturns(c)
<1>1. PICK t \in Threads : Act(t)
  <2>1. fin' # fin
    OBVIOUS
  <2>2. ~Finalizer /\ ~FinKilled
    BY DEF Finalizer, FinDown, FinBackup, FinInstall, FinLaunch, FinReady, FinRollback, FinRestore, FinRelaunch,
           FinCleanup, FinKilled
  <2> QED BY <2>1, <2>2 DEF Next, System, Environment, Act, ProcessStep, Begin, ManagerExits, ManagerFails,
                            ManagerQuits, AutoStart, ManagerListens, OperatorLaunches
<1>2. th[t].pc = "launch"
  BY <1>1, ActEffect
<1>3. LaunchFinalizer(t)
  <2>1. ~SupervisorStep(t)
    BY <1>2 DEF SupervisorStep, Stop, StopDeadline, StopDone, StopReturns, StartStep, StopStale,
                StartDeployed, Ready, Build, Promote, Install, InstallFailed, Unlink
  <2>2. ~Deploy(t) /\ ~Unzip(t) /\ ~Mirror(t) /\ ~Mirrored(t) /\ ~BuildManager(t) /\ ~Recover(t) /\ ~Built(t)
    BY <1>2 DEF Deploy, Unzip, Mirror, Mirrored, BuildManager, Recover, Built
  <2> QED BY <1>1, <2>1, <2>2 DEF Act, DeployStep
<1>4. CallReturns(t)
  BY <1>3 DEF LaunchFinalizer, CallReturns
<1>5. t \in Callers
  <2>1. th[Boot].pc # "launch"
    BY CallersAssumption DEF CallsInv, CallShape, BootPCs, Threads
  <2> QED BY <1>2, <2>1 DEF Threads
<1> QED BY <1>1, <1>3, <1>4, <1>5

\* A client without a call gets one by asking.
LEMMA CallersBegin ==
    ASSUME TypeOK, CallsInv, Next, NEW c \in Callers, th'[c].pc # "idle", th[c].pc = "idle"
    PROVE  \E op \in Ops : Begin(c, op)
<1>1. c \in Threads /\ c # Boot
  BY CallersAssumption DEF Threads
<1>2. ~Unmoved(c) /\ ~Act(c) /\ ~ManagerEnds
  BY <1>1, ActEffect, EndsKeeps, IdleFields DEF Unmoved
<1> QED BY <1>1, <1>2, CallStep

LEMMA LoneStep ==
    ASSUME TypeOK, CallsInv, Next, LoneInv
    PROVE  LoneInv'
<1>t. budget.ops \in Nat /\ \A c \in Callers : c \in Threads
  BY DEF TypeOK, Budgets, Threads
<1>1. ASSUME NEW c \in Callers, NEW op \in Ops, Begin(c, op) PROVE LoneInv'
  <2>1. budget.ops = 1 /\ budget'.ops = 0 /\ fin' = fin
    BY <1>1, <1>t DEF Begin, LoneInv, TypeOK, Budgets
  <2>2. \A d \in Callers : d # c => th'[d] = th[d]
    BY <1>1, <1>t DEF Begin, TypeOK
  <2> QED BY <2>1, <2>2 DEF LoneInv
<1>2. CASE \A c \in Callers : \A op \in Ops : ~Begin(c, op)
  <2>1. \A c \in Callers : th'[c].pc # "idle" => th[c].pc # "idle"
    BY <1>2, CallersBegin
  <2>2. budget'.ops = budget.ops
    <3>1. ManagerQuits => budget'.ops = budget.ops
      BY DEF ManagerQuits, TypeOK, Budgets
    <3> QED BY <1>2, <3>1, StepSpends DEF SpendsNone
  <2>3. fin'.pc # "none" => budget'.ops = 0 /\ \A c \in Callers : th'[c].pc = "idle"
    <3>1. CASE fin.pc # "none"
      BY <2>1, <2>2, <3>1 DEF LoneInv
    <3>2. CASE fin.pc = "none" /\ fin'.pc # "none"
      <4>1. PICK c \in Callers : Act(c) /\ CallReturns(c)
        BY <3>2, FinStarts
      <4>2. th[c].pc # "idle" /\ th'[c].pc = "idle"
        BY <1>t, <4>1, ActEffect, ReturnEffect DEF CallReturns
      <4>3. \A d \in Callers : th[d].pc # "idle" => d = c
        BY <4>2 DEF LoneInv
      <4>4. budget.ops = 0
        BY <1>t, <4>2 DEF LoneInv
      <4> QED BY <2>1, <2>2, <4>2, <4>3, <4>4
    <3> QED BY <3>1, <3>2
  <2> QED BY <2>1, <2>2, <2>3 DEF LoneInv
<1> QED BY <1>1, <1>2

\* While the manager stays, clients make their calls and the proxy lives on.
LEMMA CallersAlone ==
    ASSUME TypeOK, CallsInv, ManagerInv, Next, ProxyOnlyInv
    PROVE  \/ \E c \in Callers : Act(c)
           \/ \E c \in Callers : \E op \in Ops : Begin(c, op)
           \/ /\ UNCHANGED <<lock, disk, mgr, fin>> /\ SpendsNone
              /\ \A c \in Callers : Unmoved(c)
<1>1. mgr.st = "up" /\ ~mgr.exit /\ budget.quits = 0 /\ fin.pc = "none" /\ th[Boot].pc = "idle"
  BY DEF ProxyOnlyInv, ManagerInv
<1>2. ~ManagerExits /\ ~ManagerFails /\ ~ManagerQuits /\ ~OperatorLaunches /\ ~AutoStart /\ ~ManagerListens
  BY <1>1 DEF ManagerExits, ManagerFails, ManagerQuits, OperatorLaunches, AutoStart, ManagerListens
<1>3. ~Finalizer /\ ~FinKilled
  BY <1>1 DEF Finalizer, FinDown, FinBackup, FinInstall, FinLaunch, FinReady, FinRollback, FinRestore, FinRelaunch,
         FinCleanup, FinKilled
<1>4. ASSUME NEW t \in Threads, Act(t) PROVE \E c \in Callers : Act(c)
  <2>1. Boot \in Threads
    BY DEF Threads
  <2>2. t # Boot
    BY <1>1, <1>4, <2>1, ActEffect
  <2> QED BY <1>4, <2>2 DEF Threads
<1>5. ASSUME NEW p \in Procs, ProcessStep(p) \/ ((Exits(p) \/ Crashes(p)) /\ UNCHANGED fin)
      PROVE  UNCHANGED <<lock, disk, mgr, fin>> /\ \A c \in Callers : Unmoved(c)
  BY <1>5 DEF ProcessStep, Listens, Reap, SendDone, Exits, Crashes, Unmoved
<1>6. ASSUME NEW t \in Callers, ClientGone(t), UNCHANGED fin
      PROVE  UNCHANGED <<lock, disk, mgr, fin>> /\ \A c \in Callers : Unmoved(c)
  <2>1. UNCHANGED <<lock, disk, mgr, fin>>
    BY <1>6 DEF ClientGone
  <2>2. \A c \in Callers : c \in Threads /\ th[c] \in Calls /\ th'[c] = IF c = t THEN [th[c] EXCEPT !.gone = TRUE] ELSE th[c]
    BY <1>6 DEF ClientGone, TypeOK, Threads
  <2>3. ASSUME NEW c \in Callers PROVE Unmoved(c)
    <3> DEFINE r == IF c = t THEN [th[c] EXCEPT !.gone = TRUE] ELSE th[c]
    <3>1. /\ r.op = th[c].op /\ r.pc = th[c].pc /\ r.tgt = th[c].tgt /\ r.was = th[c].was
          /\ r.bak = th[c].bak /\ r.art = th[c].art /\ r.res = th[c].res
      BY <2>2 DEF Calls
    <3>2. th'[c] = r
      BY <2>2
    <3> HIDE DEF r
    <3> QED BY <3>1, <3>2 DEF Unmoved
  <2> QED BY <2>1, <2>3
<1> QED BY <1>2, <1>3, <1>4, <1>5, <1>6, StepSpends DEF Next, System, Environment, Act

LEMMA ProxyOnlyStep ==
    ASSUME TypeOK, CallsInv, ManagerInv, Next, ProxyOnly, ProxyOnlyInv
    PROVE  ProxyOnlyInv'
<1>t. ~BuildsManager /\ \A c \in Callers : c \in Threads /\ c # Nobody
  BY CallersAssumption DEF ProxyOnly, BuildsManager, Threads, Nobody
<1>k. \A c \in Callers : InBuild(c) => lock = c
  BY DEF ProxyOnlyInv
<1>1. ASSUME NEW c \in Callers, Act(c) PROVE ProxyOnlyInv'
  <2>1. budget'.quits = 0 /\ mgr'.st = "up" /\ fin' = fin /\ mgr' = mgr
    BY <1>1, <1>t, ActEffect, ActSpendsNone DEF ProxyOnlyInv, SpendsNone
  <2>2. \A d \in Callers : d # c => th'[d] = th[d]
    BY <1>1, <1>t, OthersKept
  <2>3. th'[c].pc \notin {"manager", "launch"}
    BY <1>1, <1>t, ActUpgrades
  <2>4. \/ lock' = lock /\ th'[c].op = th[c].op /\ th[c].pc # "lock"
        \/ th'[c].op = "none" /\ lock' = (IF lock = c THEN Nobody ELSE lock)
        \/ lock = Nobody /\ lock' = c /\ th'[c].op = th[c].op
    <3>1. CallReturns(c) => th'[c].op = "none" /\ lock' = (IF lock = c THEN Nobody ELSE lock)
      BY <1>t, ReturnEffect DEF CallReturns
    <3>2. Deploy(c) => lock = Nobody /\ lock' = c
      BY DEF Deploy
    <3> QED BY <1>1, <1>t, <3>1, <3>2, ActLock DEF CallGoesOn
  <2>5. th'[c].op # "build"
    BY <2>4 DEF ProxyOnlyInv
  <2>6. \A d \in Callers : InBuild(d)' => lock' = d
    <3> SUFFICES ASSUME NEW d \in Callers, InBuild(d)' PROVE lock' = d
      OBVIOUS
    <3>1. CASE d = c
      BY <2>4, <3>1, <1>k DEF InBuild
    <3>2. CASE d # c
      <4>1. lock = d
        BY <2>2, <3>2, <1>k DEF InBuild
      <4> QED BY <2>4, <3>2, <4>1, <1>t
    <3> QED BY <3>1, <3>2
  <2> QED BY <2>1, <2>2, <2>3, <2>5, <2>6 DEF ProxyOnlyInv
<1>2. ASSUME NEW c \in Callers, NEW op \in Ops, Begin(c, op) PROVE ProxyOnlyInv'
  <2> DEFINE r == [Idle EXCEPT !.op = op, !.pc = FirstStep(op)]
  <2>1. th'[c] = r /\ \A d \in Callers : d # c => th'[d] = th[d]
    BY <1>2, <1>t DEF Begin, TypeOK
  <2>2. r.op = op /\ r.pc = FirstStep(op)
    BY DEF Idle
  <2>3. op # "build" /\ op \in Requests
    BY <1>2, HereTyped DEF Begin, ProxyOnly
  <2>4. FirstStep(op) \notin {"manager", "launch"} /\ (op = "deploy" => FirstStep(op) = "lock")
    BY <2>3 DEF FirstStep
  <2>5. budget'.quits = budget.quits /\ UNCHANGED <<mgr, fin, lock>>
    BY <1>2 DEF Begin, TypeOK, Budgets
  <2> HIDE DEF r
  <2> QED BY <2>1, <2>2, <2>3, <2>4, <2>5 DEF ProxyOnlyInv, InBuild
<1>3. ASSUME UNCHANGED <<lock, disk, mgr, fin>>, SpendsNone, \A c \in Callers : Unmoved(c) PROVE ProxyOnlyInv'
  BY <1>3 DEF ProxyOnlyInv, InBuild, Unmoved, SpendsNone
<1> QED BY <1>1, <1>2, <1>3, CallersAlone

-----------------------------------------------------------------------------
(* The binary of the proxy.                                                 *)

AtPromotion == {"promote", "install", "unlink"}

\* What a step of a call does to the proxy's binary and to the source tree: it
\* leaves them alone, or it is one of deployment, build and promotion.
ActSteps(t) ==
    \/ /\ th'[t].pc \notin AtPromotion \cup {"lock"} /\ th[t].pc # "install"
       /\ disk'.proxy = disk.proxy /\ disk'.prev = disk.prev /\ (disk.src # "none" => disk'.src # "none")
    \/ /\ th[t].pc = "lock" /\ lock = Nobody /\ th'[t].pc = "unzip"
       /\ disk'.proxy = disk.proxy /\ disk'.src = disk.src
    \/ /\ th[t].pc = "build" /\ th'[t].pc = "promote" /\ th'[t].art = disk.src
       /\ disk'.proxy = disk.proxy /\ disk'.prev = disk.prev /\ disk'.src = disk.src
    \/ /\ th[t].pc = "promote" /\ th'[t].pc = "install" /\ th'[t].art = th[t].art
       /\ th'[t].bak = (disk.proxy # "none") /\ disk'.src = disk.src
       /\ IF disk.proxy = "none" THEN disk'.proxy = "none" /\ disk'.prev = disk.prev
          ELSE disk'.proxy = "none" /\ disk'.prev = disk.proxy
    \/ /\ th[t].pc = "install" /\ th'[t].pc = "unlink"
       /\ disk'.proxy = th[t].art /\ disk'.src = disk.src
    \/ /\ th[t].pc = "install" /\ th'[t].pc \notin AtPromotion \cup {"lock"} /\ disk'.src = disk.src
       /\ \/ th[t].bak /\ disk.prev # "none" /\ disk'.proxy = disk.prev
          \/ /\ disk'.proxy = disk.proxy /\ disk'.prev = disk.prev
             /\ ~th[t].bak \/ disk.prev = "none" \/ FailsTwice
    \/ /\ th[t].pc = "unlink" /\ th'[t].pc \notin AtPromotion \cup {"lock"}
       /\ disk'.proxy = disk.proxy /\ disk'.src = disk.src

LEMMA ActDisk ==
    ASSUME TypeOK, CallsInv, NEW t \in Threads, Act(t)
    PROVE  ActSteps(t)
<1> DEFINE Away == th'[t].pc \notin AtPromotion \cup {"lock"}
           Same == disk'.proxy = disk.proxy /\ disk'.prev = disk.prev /\ (disk.src # "none" => disk'.src # "none")
<1>d0. disk \in Disks /\ th[t] \in Calls
  BY DEF TypeOK
<1>g. ASSUME NEW pc, Goto(t, pc), pc \notin AtPromotion \cup {"lock"} PROVE Away
  BY <1>g, GotoEffect
<1>r. ASSUME NEW res, Return(t, res) PROVE Away
  BY <1>r, ReturnEffect DEF AtPromotion
<1>d. ASSUME NEW res, Deployed(t, res) PROVE Away
  <2>1. CASE th' = [th EXCEPT ![t].pc = "auto", ![t].res = res]
    <3>1. th'[t] = [th[t] EXCEPT !.pc = "auto", !.res = res]
      BY <2>1 DEF TypeOK
    <3> QED BY <1>d0, <3>1 DEF Calls, AtPromotion
  <2> QED BY <1>d, <2>1, <1>r DEF Deployed
<1>s. ASSUME disk' = disk PROVE Same
  BY <1>s
<1>b. ASSUME BuildFailed(t)
      PROVE  Away /\ disk'.proxy = disk.proxy /\ disk'.prev = disk.prev /\ disk'.src = disk.src
  BY <1>b, <1>r, <1>g, <1>d0 DEF BuildFailed, AtPromotion, Disks
<1>w. ASSUME Away, Same, th[t].pc # "install" PROVE ActSteps(t)
  BY <1>w DEF ActSteps
<1>1. CASE Stop(t) \/ StopDeadline(t) \/ StopDone(t) \/ StopReturns(t) \/ StartStep(t)
  <2>1. th[t].pc # "install" /\ disk' = disk
    BY <1>1 DEF Stop, StopDeadline, StopDone, StopReturns, StartStep
  <2>2. CASE th' = [th EXCEPT ![t].pc = "wait", ![t].tgt = cmd]
    <3>1. th'[t] = [th[t] EXCEPT !.pc = "wait", !.tgt = cmd]
      BY <2>2 DEF TypeOK
    <3>2. Away
      BY <1>d0, <3>1 DEF Calls, AtPromotion
    <3> QED BY <3>2, <2>1, <1>w
  <2>3. AfterStop(th[t].op) \notin AtPromotion \cup {"lock"} /\ "kill" \notin AtPromotion \cup {"lock"}
    BY DEF AfterStop, AtPromotion
  <2>4. th' = [th EXCEPT ![t].pc = "wait", ![t].tgt = cmd] \/ Away
    <3> HIDE DEF Away, Same
    <3> QED BY <1>1, <2>3, <1>g, <1>r DEF Stop, StopDeadline, StopDone, StopReturns, StartStep
  <2> QED BY <2>1, <2>2, <2>4, <1>w
<1>2. CASE StopStale(t) \/ StartDeployed(t) \/ Ready(t)
  <2>1. th[t].pc # "install" /\ disk' = disk
    BY <1>2 DEF StopStale, StartDeployed, Ready
  <2>2. "begin" \notin AtPromotion \cup {"lock"} /\ "ready" \notin AtPromotion \cup {"lock"} /\ "ready2" \notin AtPromotion \cup {"lock"}
    BY DEF AtPromotion
  <2>3. Away
    <3> HIDE DEF Away, Same
    <3> QED BY <1>2, <2>2, <1>g, <1>d DEF StopStale, StartDeployed, Ready
  <2> QED BY <2>1, <2>3, <1>w
<1>3. CASE Build(t)
  <2>1. CASE th' = [th EXCEPT ![t].pc = "promote", ![t].art = disk.src] /\ disk' = disk
    <3>1. th'[t] = [th[t] EXCEPT !.pc = "promote", !.art = disk.src]
      BY <2>1 DEF TypeOK
    <3>2. th'[t].pc = "promote" /\ th'[t].art = disk.src
      BY <1>d0, <3>1 DEF Calls
    <3> QED BY <1>3, <2>1, <3>2 DEF Build, ActSteps
  <2>2. CASE BuildFailed(t)
    BY <1>3, <2>2, <1>b, <1>w DEF Build
  <2> QED BY <1>3, <2>1, <2>2 DEF Build
<1>4. CASE Promote(t)
  <2>1. CASE /\ th' = [th EXCEPT ![t].pc = "install", ![t].bak = disk.proxy # "none"]
             /\ disk' = IF disk.proxy = "none" THEN disk ELSE [disk EXCEPT !.proxy = "none", !.prev = disk.proxy]
    <3>1. th'[t] = [th[t] EXCEPT !.pc = "install", !.bak = disk.proxy # "none"]
      BY <2>1 DEF TypeOK
    <3>2. ASSUME NEW b \in BOOLEAN, NEW c \in Calls
          PROVE  LET r == [c EXCEPT !.pc = "install", !.bak = b] IN r.pc = "install" /\ r.bak = b /\ r.art = c.art
      BY DEF Calls
    <3>3. th'[t].pc = "install" /\ th'[t].bak = (disk.proxy # "none") /\ th'[t].art = th[t].art
      BY <1>d0, <3>1, <3>2
    <3>4. disk'.src = disk.src /\ IF disk.proxy = "none" THEN disk'.proxy = "none" /\ disk'.prev = disk.prev
                                  ELSE disk'.proxy = "none" /\ disk'.prev = disk.proxy
      BY <1>d0, <2>1 DEF Disks
    <3> QED BY <1>4, <3>3, <3>4 DEF Promote, ActSteps
  <2>2. CASE BuildFailed(t)
    BY <1>4, <2>2, <1>b, <1>w DEF Promote
  <2> QED BY <1>4, <2>1, <2>2 DEF Promote
<1>5. CASE Install(t)
  <2>1. th[t].pc = "install"
    BY <1>5 DEF Install
  <2>2. CASE disk' = [disk EXCEPT !.proxy = th[t].art] /\ Goto(t, "unlink")
    <3>1. disk'.proxy = th[t].art /\ disk'.src = disk.src
      BY <1>d0, <2>2 DEF Disks
    <3>2. th'[t].pc = "unlink"
      BY <2>2, GotoEffect
    <3> QED BY <2>1, <3>1, <3>2 DEF ActSteps
  <2>3. CASE ~(disk' = [disk EXCEPT !.proxy = th[t].art] /\ Goto(t, "unlink"))
    <3> DEFINE undone == IF th[t].bak /\ disk.prev # "none" THEN [disk EXCEPT !.proxy = disk.prev, !.prev = "none"] ELSE disk
    <3>1. \E left \in {undone, disk} :
             /\ left = undone \/ FailsTwice
             /\ \/ Return(t, "failed") /\ disk' = left
                \/ Goto(t, "recover") /\ disk' = [left EXCEPT !.staged = "none"]
      BY <1>5, <2>3 DEF Install, InstallFailed, Restored
    <3>2. Away
      BY <3>1, <1>r, <1>g DEF AtPromotion
    <3>3. /\ disk'.src = disk.src
          /\ \/ th[t].bak /\ disk.prev # "none" /\ disk'.proxy = disk.prev
             \/ /\ disk'.proxy = disk.proxy /\ disk'.prev = disk.prev
                /\ ~th[t].bak \/ disk.prev = "none" \/ FailsTwice
      BY <3>1, <1>d0 DEF Disks
    <3> QED BY <2>1, <3>2, <3>3 DEF ActSteps
  <2> QED BY <2>2, <2>3
<1>6. CASE Unlink(t)
  <2>1. th[t].pc = "unlink" /\ disk'.proxy = disk.proxy /\ disk'.src = disk.src
    BY <1>6, <1>d0 DEF Unlink, Disks
  <2>2. Away
    BY <1>6, <1>r, <1>g DEF Unlink, AtPromotion
  <2> QED BY <2>1, <2>2 DEF ActSteps
<1>7. CASE Deploy(t)
  BY <1>7, <1>d0, GotoEffect DEF Deploy, Disks, ActSteps
<1>8. CASE Unzip(t)
  <2>1. th[t].pc # "install" /\ disk' = disk
    BY <1>8 DEF Unzip
  <2>2. CASE th' = [th EXCEPT ![t].was = cmd # 0, ![t].pc = IF cmd # 0 THEN "stop" ELSE "mirror"]
    <3>1. th'[t] = [th[t] EXCEPT !.was = cmd # 0, !.pc = IF cmd # 0 THEN "stop" ELSE "mirror"]
      BY <2>2 DEF TypeOK
    <3>2. Away
      BY <1>d0, <3>1 DEF Calls, AtPromotion
    <3> QED BY <3>2, <2>1, <1>w
  <2>3. CASE Return(t, "failed")
    BY <2>3, <1>r, <2>1, <1>w
  <2> QED BY <1>8, <2>2, <2>3 DEF Unzip
<1>9. CASE Mirror(t) \/ Mirrored(t) \/ BuildManager(t)
  <2>1. th[t].pc # "install" /\ Same
    BY <1>9, <1>d0 DEF Mirror, Mirrored, BuildManager, Disks
  <2>2. Away
    BY <1>9, <1>g DEF Mirror, Mirrored, BuildManager, AtPromotion
  <2> QED BY <2>1, <2>2, <1>w
<1>10. CASE Recover(t) \/ Built(t) \/ LaunchFinalizer(t)
  <2>1. th[t].pc # "install" /\ Same
    BY <1>10, <1>d0 DEF Recover, Built, LaunchFinalizer, Disks
  <2>2. Away
    BY <1>10, <1>g, <1>r DEF Recover, Built, LaunchFinalizer, AtPromotion
  <2> QED BY <2>1, <2>2, <1>w
<1> QED BY <1>1, <1>2, <1>3, <1>4, <1>5, <1>6, <1>7, <1>8, <1>9, <1>10 DEF Act, SupervisorStep, DeployStep

LEMMA OneBuilder ==
    ASSUME CallsInv, OneBuilds, OrderlyInv, NEW c \in Callers, NEW d \in Callers, InBuild(c), InBuild(d)
    PROVE  c = d
<1>1. th[c].pc # "idle" /\ th[d].pc # "idle"
  BY DEF CallsInv, CallShape, InBuild, StopPCs, BuildPCs, DeployPCs, Threads
<1> QED BY <1>1 DEF OneBuilds, OrderlyInv, LoneInv, ProxyOnlyInv

\* What every other step leaves alone
LEMMA OtherDisk ==
    ASSUME TypeOK, Next, \A t \in Threads : ~Act(t)
    PROVE  disk'.proxy = disk.proxy /\ disk'.prev = disk.prev /\ disk'.src = disk.src
<1>d. disk \in Disks
  BY DEF TypeOK
<1>1. disk' = disk \/ ManagerListens \/ Finalizer
  BY DEF Next, System, Environment, Act, ProcessStep, Listens, Reap, SendDone, Begin, ClientGone, Exits, Crashes,
         ManagerExits, ManagerFails, AutoStart, ManagerQuits, OperatorLaunches, FinKilled
<1>2. CASE ManagerListens
  BY <1>2, <1>d DEF ManagerListens, Disks
<1>3. CASE Finalizer
  <2>1. CASE FinDown \/ FinLaunch \/ FinReady \/ FinRelaunch
    BY <2>1 DEF FinDown, FinLaunch, FinReady, FinRelaunch
  <2>2. CASE FinBackup \/ FinInstall \/ FinRollback \/ FinRestore \/ FinCleanup
    BY <2>2, <1>d DEF FinBackup, FinInstall, FinRollback, FinRestore, FinCleanup, Disks
  <2> QED BY <1>3, <2>1, <2>2 DEF Finalizer
<1> QED BY <1>1, <1>2, <1>3

\* A call that asks does not start in the middle of a build.
LEMMA BeginsFar ==
    ASSUME TypeOK, NEW c \in Callers, NEW op \in Ops, Begin(c, op)
    PROVE  th[c].pc = "idle" /\ th'[c].pc \notin AtPromotion /\ budget.ops > 0
<1> DEFINE r == [Idle EXCEPT !.op = op, !.pc = FirstStep(op)]
<1>1. c \in Threads /\ th'[c] = r
  BY DEF Begin, TypeOK, Threads
<1>2. r.pc = FirstStep(op)
  BY DEF Idle
<1>3. FirstStep(op) \notin AtPromotion
  BY DEF FirstStep, AtPromotion
<1> HIDE DEF r
<1> QED BY <1>1, <1>2, <1>3 DEF Begin

\* A rename that failed twice is not forgotten.
LEMMA TornStays ==
    ASSUME TypeOK, TornInv, scene' = scene, budget'.torn = budget.torn \/ FailsTwice
    PROVE  TornInv' /\ (Steady' => Steady) /\ (FailsTwice => ~Steady')
<1>1. budget.torn \in Nat /\ Here.budget.torn \in Nat /\ Here' = Here
  BY HereTyped DEF TypeOK, Budgets, Here
<1>2. FailsTwice => budget'.torn = budget.torn - 1
  BY DEF FailsTwice, TypeOK, Budgets
<1> QED BY <1>1, <1>2 DEF TornInv, Torn, Steady, ProxyOnly

LEMMA ProxyKeptByCall ==
    ASSUME TypeOK, CallsInv, Orderly, OrderlyInv, TornInv, BuildInv, ProxyInv, scene' = scene,
           NEW t \in Threads, Act(t)
    PROVE  BuildInv' /\ ProxyInv'
<1>s. (Lone' <=> Lone) /\ (Steady' => Steady) /\ (FailsTwice => ~Steady') /\ OneBuilds
  BY TornStays, ActSpendsNone DEF SpendsNone, Lone, Here, Orderly, OneBuilds, Steady
<1>o. \A u \in Threads : u # t => th'[u] = th[u]
  BY OthersKept
<1>b. budget'.ops = budget.ops
  BY ActSpendsNone DEF SpendsNone
<1>c. \A c \in Callers : c \in Threads
  BY DEF Threads
<1>a. ActSteps(t)
  BY ActDisk
<1>p. \A c \in Callers : th[c].pc \in AtPromotion \cup {"build"} => InBuild(c)
  BY DEF CallsInv, CallShape, InBuild, AtPromotion, StopPCs, BuildPCs, DeployPCs, BootPCs, Threads
<1>1. CASE t = Boot
  <2>1. th[t].pc \notin AtPromotion \cup {"build", "lock"}
    BY <1>1, CallersAssumption DEF CallsInv, CallShape, AtPromotion, BootPCs
  <2>2. disk'.proxy = disk.proxy /\ disk'.prev = disk.prev /\ (disk.src # "none" => disk'.src # "none")
    BY <1>a, <2>1 DEF ActSteps, AtPromotion
  <2>3. \A c \in Callers : th'[c] = th[c]
    BY <1>1, <1>o, <1>c, CallersAssumption
  <2> QED BY <2>2, <2>3, <1>s, <1>b DEF BuildInv, ProxyInv
<1>2. CASE t # Boot
  <2>0. t \in Callers /\ th[t].pc # "idle"
    BY <1>2, ActEffect DEF Threads
  <2>l. Lone => budget.ops = 0 /\ \A c \in Callers : c # t => th[c].pc = "idle" /\ th'[c].pc = "idle"
    <3>1. budget.ops \in Nat
      BY DEF TypeOK, Budgets
    <3> QED BY <2>0, <3>1, <1>o, <1>c DEF OrderlyInv, LoneInv
  <2>k. \A c \in Callers : c # t => th'[c] = th[c]
    BY <1>o, <1>c
  <2>u. th[t].pc \in AtPromotion \cup {"build"} => \A c \in Callers : c # t => th[c].pc \notin AtPromotion
    BY <2>0, <1>p, <1>s, OneBuilder
  <2>q. lock = Nobody /\ ProxyOnly => \A c \in Callers : th[c].pc # "install"
    <3>1. \A c \in Callers : c # Nobody
      BY CallersAssumption DEF Nobody
    <3> QED BY <3>1, <1>p DEF OrderlyInv, ProxyOnlyInv, AtPromotion
  <2> USE DEF AtPromotion
  <2>1. CASE /\ th'[t].pc \notin AtPromotion \cup {"lock"} /\ th[t].pc # "install"
             /\ disk'.proxy = disk.proxy /\ disk'.prev = disk.prev /\ (disk.src # "none" => disk'.src # "none")
    <3>1. BuildInv'
      BY <2>1, <2>k, <1>s DEF BuildInv
    <3>2. ProxyInv'
      BY <2>0, <2>1, <2>k, <2>l, <1>s, <1>b DEF ProxyInv
    <3> QED BY <3>1, <3>2
  <2>2. CASE /\ th[t].pc = "lock" /\ lock = Nobody /\ th'[t].pc = "unzip"
             /\ disk'.proxy = disk.proxy /\ disk'.src = disk.src
    <3>1. disk.proxy # "none"
      BY <2>0, <2>2, <2>q DEF ProxyInv, Orderly, Steady
    <3> QED BY <2>2, <3>1, <2>k, <1>s DEF BuildInv, ProxyInv
  <2>3. CASE /\ th[t].pc = "build" /\ th'[t].pc = "promote" /\ th'[t].art = disk.src
             /\ disk'.proxy = disk.proxy /\ disk'.prev = disk.prev /\ disk'.src = disk.src
    BY <2>0, <2>3, <2>k, <1>s, <1>b DEF BuildInv, ProxyInv
  <2>4. CASE /\ th[t].pc = "promote" /\ th'[t].pc = "install" /\ th'[t].art = th[t].art
             /\ th'[t].bak = (disk.proxy # "none") /\ disk'.src = disk.src
             /\ IF disk.proxy = "none" THEN disk'.proxy = "none" /\ disk'.prev = disk.prev
                ELSE disk'.proxy = "none" /\ disk'.prev = disk.proxy
    <3>1. Steady => disk.proxy # "none"
      BY <2>0, <2>4, <2>u DEF ProxyInv
    <3>2. BuildInv'
      <4> SUFFICES ASSUME NEW c \in Callers
                   PROVE  /\ th'[c].pc \in {"promote", "install"} => th'[c].art # "none"
                          /\ th'[c].pc # "unlink"
                          /\ th'[c].pc = "install" /\ Steady => th'[c].bak
        BY <1>s DEF BuildInv
      <4>1. CASE c = t
        BY <2>0, <2>4, <3>1, <4>1 DEF BuildInv
      <4>2. CASE c # t
        BY <2>4, <2>k, <2>u, <4>2
      <4> QED BY <4>1, <4>2
    <3>3. ProxyInv'
      <4>1. disk'.prev # "none"
        BY <2>4 DEF ProxyInv
      <4> QED BY <2>0, <2>4, <2>l, <4>1, <1>s, <1>b DEF ProxyInv
    <3> QED BY <3>2, <3>3
  <2>5. CASE /\ th[t].pc = "install" /\ th'[t].pc = "unlink"
             /\ disk'.proxy = th[t].art /\ disk'.src = disk.src
    <3>1. disk'.proxy # "none"
      BY <2>0, <2>5 DEF BuildInv
    <3> QED BY <2>5, <3>1, <2>k, <2>u, <1>s DEF BuildInv, ProxyInv
  <2>6. CASE /\ th[t].pc = "install" /\ th'[t].pc \notin AtPromotion \cup {"lock"} /\ disk'.src = disk.src
             /\ \/ th[t].bak /\ disk.prev # "none" /\ disk'.proxy = disk.prev
                \/ /\ disk'.proxy = disk.proxy /\ disk'.prev = disk.prev
                   /\ ~th[t].bak \/ disk.prev = "none" \/ FailsTwice
    <3>1. BuildInv'
      BY <2>6, <2>k, <2>u, <1>s DEF BuildInv
    <3>2. disk'.proxy = "none" => /\ disk.proxy = "none" /\ disk.prev # "none" /\ disk'.prev = disk.prev
                                  /\ ~th[t].bak \/ FailsTwice
      <4>1. disk'.proxy = "none" => /\ disk.proxy = "none" /\ disk'.prev = disk.prev
                                    /\ ~th[t].bak \/ disk.prev = "none" \/ FailsTwice
        BY <2>6
      <4> QED BY <4>1 DEF ProxyInv
    <3>3. disk'.proxy = "none" => ~Steady'
      BY <2>0, <2>6, <3>2, <1>s DEF BuildInv
    <3>4. disk'.proxy = "none" /\ Lone => budget'.ops = 0 /\ \A c \in Callers : th'[c].pc # "lock"
      BY <2>6, <2>l, <1>b
    <3> QED BY <2>6, <3>1, <3>2, <3>3, <3>4, <1>s DEF ProxyInv
  <2>7. CASE /\ th[t].pc = "unlink" /\ th'[t].pc \notin AtPromotion \cup {"lock"}
             /\ disk'.proxy = disk.proxy /\ disk'.src = disk.src
    <3>1. disk.proxy # "none"
      BY <2>0, <2>7 DEF BuildInv
    <3> QED BY <2>7, <3>1, <2>k, <2>u, <1>s DEF BuildInv, ProxyInv
  <2> QED BY <1>a, <2>1, <2>2, <2>3, <2>4, <2>5, <2>6, <2>7 DEF ActSteps
<1> QED BY <1>1, <1>2

LEMMA ProxyKeptByOthers ==
    ASSUME TypeOK, CallsInv, Orderly, OrderlyInv, OrderlyInv', BuildInv, ProxyInv, scene' = scene,
           Steady' => Steady, Next, \A t \in Threads : ~Act(t)
    PROVE  BuildInv' /\ ProxyInv'
<1>s. (Lone' <=> Lone) /\ (ProxyOnly' <=> ProxyOnly) /\ (Steady => ProxyOnly)
  BY DEF Lone, ProxyOnly, Steady, Here
<1>d. disk'.proxy = disk.proxy /\ disk'.prev = disk.prev /\ disk'.src = disk.src
  BY OtherDisk
<1>1. CASE ManagerEnds
  <2>1. \A c \in Callers : th'[c].pc = "idle"
    BY <1>1, EndsKeeps, IdleFields DEF Threads
  <2>2. ~ProxyOnly
    <3>1. mgr'.st = "down"
      BY <1>1 DEF ManagerEnds, TypeOK, Managers
    <3> QED BY <3>1, <1>s DEF OrderlyInv, ProxyOnlyInv
  <2>3. disk.proxy = "none" /\ Lone => budget'.ops = 0
    <3>1. disk.proxy = "none" /\ Lone => budget.ops = 0
      BY DEF ProxyInv
    <3>2. \A c \in Callers : \A op \in Ops : ~Begin(c, op) \/ budget.ops > 0
      BY DEF Begin
    <3>3. ManagerQuits => budget'.ops = budget.ops
      BY DEF ManagerQuits, TypeOK, Budgets
    <3> QED BY <3>1, <3>2, <3>3, StepSpends DEF SpendsNone
  <2> QED BY <2>1, <2>2, <2>3, <1>s, <1>d DEF BuildInv, ProxyInv
<1>2. CASE ~ManagerEnds
  <2>c. ASSUME NEW c \in Callers
        PROVE  Unmoved(c) \/ (th[c].pc = "idle" /\ th'[c].pc \notin AtPromotion /\ budget.ops > 0)
    BY <1>2, CallStep, BeginsFar, CallersAssumption DEF Threads
  <2>1. BuildInv'
    BY <2>c, <1>s, <1>d DEF BuildInv, Unmoved, AtPromotion
  <2>2. ProxyInv'
    <3>1. CASE disk.proxy = "none"
      <4>1. Steady => \E c \in Callers : th'[c].pc = "install"
        <5> SUFFICES ASSUME Steady PROVE \E c \in Callers : th'[c].pc = "install"
          OBVIOUS
        <5>1. PICK c \in Callers : th[c].pc = "install"
          BY <3>1 DEF ProxyInv
        <5>2. th'[c].pc = "install"
          BY <2>c, <5>1 DEF Unmoved
        <5> QED BY <5>2
      <4>2. Lone => budget'.ops = 0 /\ \A c \in Callers : th'[c].pc # "lock"
        <5> SUFFICES ASSUME Lone PROVE budget'.ops = 0 /\ \A c \in Callers : th'[c].pc # "lock"
          OBVIOUS
        <5>1. budget.ops = 0 /\ \A c \in Callers : th[c].pc # "lock"
          BY <3>1 DEF ProxyInv
        <5>2. ManagerQuits => budget'.ops = budget.ops
          BY DEF ManagerQuits, TypeOK, Budgets
        <5>3. budget'.ops = 0
          BY <5>1, <5>2, StepSpends, BeginsFar DEF SpendsNone
        <5> QED BY <5>1, <5>3, <2>c DEF Unmoved
      <4> QED BY <3>1, <4>1, <4>2, <1>s, <1>d DEF ProxyInv
    <3>2. CASE disk.proxy # "none"
      BY <3>2, <1>d DEF ProxyInv
    <3> QED BY <3>1, <3>2
  <2> QED BY <2>1, <2>2
<1> QED BY <1>1, <1>2

-----------------------------------------------------------------------------
(* The binary of the manager.                                               *)

\* What a step of a call does to the manager's binaries and to the finalizer
LEMMA ActManagerDisk ==
    ASSUME TypeOK, CallsInv, NEW t \in Threads, Act(t)
    PROVE  /\ disk'.manager = disk.manager
           /\ disk'.mprev = disk.mprev \/ th[t].pc = "lock"
           /\ fin' = fin \/ (fin'.pc = "down" /\ th[t].pc = "launch")
<1>d. disk \in Disks
  BY DEF TypeOK
<1>1. fin' = fin \/ (fin'.pc = "down" /\ th[t].pc = "launch")
  BY ActEffect
<1>b. ASSUME BuildFailed(t) PROVE disk'.manager = disk.manager /\ disk'.mprev = disk.mprev
  BY <1>b, <1>d DEF BuildFailed, Disks
<1>2. CASE SupervisorStep(t)
  <2>1. CASE Stop(t) \/ StopDeadline(t) \/ StopDone(t) \/ StopReturns(t) \/ StartStep(t)
             \/ StopStale(t) \/ StartDeployed(t) \/ Ready(t)
    BY <1>1, <2>1 DEF Stop, StopDeadline, StopDone, StopReturns, StartStep, StopStale, StartDeployed, Ready
  <2>2. CASE Build(t) \/ Promote(t)
    BY <1>1, <2>2, <1>b, <1>d DEF Build, Promote, Disks
  <2>3. CASE Install(t)
    <3> DEFINE undone == IF th[t].bak /\ disk.prev # "none" THEN [disk EXCEPT !.proxy = disk.prev, !.prev = "none"] ELSE disk
    <3>1. disk' \in {[disk EXCEPT !.proxy = th[t].art], undone, [undone EXCEPT !.staged = "none"],
                     disk, [disk EXCEPT !.staged = "none"]}
      BY <2>3 DEF Install, InstallFailed, Restored
    <3>2. disk'.manager = disk.manager /\ disk'.mprev = disk.mprev
      BY <3>1, <1>d DEF Disks
    <3> QED BY <1>1, <3>2
  <2>4. CASE Unlink(t)
    BY <1>1, <2>4, <1>d DEF Unlink, Disks
  <2> QED BY <1>2, <2>1, <2>2, <2>3, <2>4 DEF SupervisorStep
<1>3. CASE DeployStep(t)
  <2>1. CASE Deploy(t)
    BY <1>1, <2>1, <1>d DEF Deploy, Disks
  <2>2. CASE Unzip(t) \/ Mirror(t) \/ Mirrored(t) \/ BuildManager(t)
    BY <1>1, <2>2, <1>d DEF Unzip, Mirror, Mirrored, BuildManager, Disks
  <2>3. CASE Recover(t) \/ Built(t) \/ LaunchFinalizer(t)
    BY <1>1, <2>3, <1>d DEF Recover, Built, LaunchFinalizer, Disks
  <2> QED BY <1>3, <2>1, <2>2, <2>3 DEF DeployStep
<1> QED BY <1>2, <1>3 DEF Act

LEMMA FinStep ==
    ASSUME TypeOK, CallsInv, ManagerInv, OneBuilds, OrderlyInv, FinInv, Next
    PROVE  FinInv'
<1>d. disk \in Disks /\ fin \in Finalizers
  BY DEF TypeOK
<1>k. ASSUME disk'.manager = disk.manager, disk'.mprev = disk.mprev, fin' = fin PROVE FinInv'
  BY <1>k DEF FinInv
<1>f. ASSUME NEW pc, Fin(pc) PROVE fin'.pc = pc
  BY <1>f, <1>d DEF Fin, Finalizers
<1>1. ASSUME NEW t \in Threads, Act(t) PROVE FinInv'
  <2>1. /\ disk'.manager = disk.manager /\ (disk'.mprev = disk.mprev \/ th[t].pc = "lock")
        /\ fin' = fin \/ (fin'.pc = "down" /\ th[t].pc = "launch")
    BY <1>1, ActManagerDisk
  <2>2. th[t].pc \in {"lock", "launch"} => fin.pc = "none"
    <3>1. th[t].pc \in {"lock", "launch"} => t \in Callers
      BY CallersAssumption DEF CallsInv, CallShape, BootPCs, Threads
    <3> QED BY <3>1 DEF OneBuilds, OrderlyInv, LoneInv, ProxyOnlyInv
  <2> QED BY <2>1, <2>2, <1>k DEF FinInv
<1>2. CASE ManagerListens
  BY <1>2, <1>k, <1>d DEF ManagerListens, Disks
<1>3. CASE FinDown
  BY <1>3, <1>f DEF FinDown, FinInv
<1>4. CASE FinBackup
  <2>1. disk.manager \in Versions /\ fin.pc = "backup"
    BY <1>4, <1>d DEF FinBackup, Disks
  <2>2. ASSUME fin' = [fin EXCEPT !.pc = "install", !.bak = disk.manager # "none"],
               disk' = IF disk.manager = "none" THEN disk ELSE [disk EXCEPT !.manager = "none", !.mprev = disk.manager]
        PROVE  FinInv'
    <3>1. fin'.pc = "install"
      <4>1. ASSUME NEW b \in BOOLEAN PROVE [fin EXCEPT !.pc = "install", !.bak = b].pc = "install"
        BY <1>d DEF Finalizers
      <4> QED BY <2>2, <4>1
    <3>2. disk'.manager = "none" /\ disk'.mprev = "old"
      BY <1>d, <2>1, <2>2 DEF FinInv, Disks
    <3> QED BY <3>1, <3>2 DEF FinInv
  <2>3. ASSUME RetryOrGiveUp \/ Fin("relaunch"), disk' = disk PROVE FinInv'
    BY <2>1, <2>3, <1>f DEF RetryOrGiveUp, FinInv
  <2> QED BY <1>4, <2>2, <2>3 DEF FinBackup
<1>5. CASE FinInstall
  <2>1. disk.manager = "none" /\ disk.mprev = "old"
    BY <1>5 DEF FinInstall, FinInv
  <2>2. CASE disk' = [disk EXCEPT !.manager = "new"] /\ Fin("launch")
    <3>1. fin'.pc = "launch" /\ disk'.manager = "new" /\ disk'.mprev = "old"
      BY <2>1, <2>2, <1>f, <1>d DEF Disks
    <3> QED BY <3>1 DEF FinInv
  <2>3. CASE RetryOrGiveUp /\ disk' \in {disk, [disk EXCEPT !.manager = disk.mprev, !.mprev = "none"]}
    <3>1. fin'.pc \in {"backup", "relaunch"}
      BY <2>3, <1>f DEF RetryOrGiveUp
    <3>2. disk'.manager = "old" \/ (disk'.manager = "none" /\ disk'.mprev = "old")
      BY <2>1, <2>3, <1>d DEF Disks
    <3> QED BY <3>1, <3>2 DEF FinInv
  <2> QED BY <1>5, <2>2, <2>3 DEF FinInstall
<1>6. CASE FinLaunch
  BY <1>6, <1>f DEF FinLaunch, FinInv
<1>7. CASE FinReady
  BY <1>7, <1>f DEF FinReady, FinInv
<1>8. CASE FinRollback
  <2>1. disk.manager = "new" /\ disk.mprev = "old"
    BY <1>8 DEF FinRollback, FinInv
  <2>2. CASE disk' = [disk EXCEPT !.manager = "none"] /\ Fin("restore")
    <3>1. fin'.pc = "restore" /\ disk'.manager = "none" /\ disk'.mprev = "old"
      BY <2>1, <2>2, <1>f, <1>d DEF Disks
    <3> QED BY <3>1 DEF FinInv
  <2>3. CASE disk' = disk /\ Fin("relaunch")
    BY <2>1, <2>3, <1>f DEF FinInv
  <2> QED BY <1>8, <2>2, <2>3 DEF FinRollback
<1>9. CASE FinRestore
  <2>1. disk.mprev = "old" /\ fin'.pc = "relaunch"
    BY <1>9, <1>f DEF FinRestore, FinInv
  <2>2. disk'.manager = "old" \/ disk'.mprev = "old"
    BY <1>9, <2>1, <1>d DEF FinRestore, Disks
  <2> QED BY <2>1, <2>2 DEF FinInv
<1>10. CASE FinRelaunch
  <2>1. fin'.pc = "end" /\ disk' = disk /\ (disk.manager = "old" \/ disk.mprev = "old")
    BY <1>10, <1>f DEF FinRelaunch, FinInv
  <2> QED BY <2>1 DEF FinInv
<1>11. CASE FinCleanup
  <2>1. fin'.pc = "end" /\ disk.manager = "new"
    BY <1>11, <1>f DEF FinCleanup, FinInv
  <2>2. disk'.manager = "new"
    BY <1>11, <2>1, <1>d DEF FinCleanup, Disks
  <2> QED BY <2>1, <2>2 DEF FinInv
<1>12. CASE FinKilled
  <2>1. fin'.pc = "end" /\ disk' = disk
    BY <1>12, <1>f DEF FinKilled
  <2>2. disk.manager # "none" \/ disk.mprev # "none"
    BY <1>12, <1>d DEF FinKilled, FinInv, Finalizers
  <2> QED BY <2>1, <2>2 DEF FinInv
<1>13. ASSUME disk' = disk, fin' = fin PROVE FinInv'
  BY <1>13, <1>k
<1> QED BY <1>1, <1>2, <1>3, <1>4, <1>5, <1>6, <1>7, <1>8, <1>9, <1>10, <1>11, <1>12, <1>13
      DEF Next, System, Environment, Act, Finalizer, ProcessStep, Listens, Reap, SendDone, Begin, ClientGone,
          Exits, Crashes, ManagerExits, ManagerFails, AutoStart, ManagerQuits, OperatorLaunches

-----------------------------------------------------------------------------
\* The invariants of a scene with one builder at a time.
UpgradeInv == SupervisedInv /\ OrderlyInv /\ TornInv /\ (Orderly => KeptInv)

LEMMA UpgradeInit == Init => UpgradeInv
<1> SUFFICES ASSUME Init PROVE UpgradeInv
  OBVIOUS
<1>1. \A c \in Callers : th[c].op = "none" /\ th[c].pc = "idle"
  BY IdleFields DEF Init, Threads
<1>2. budget = Here.budget /\ fin.pc = "none" /\ mgr.st = "up" /\ mgr.exit = FALSE
  BY DEF Init, NoFinalizer
<1>3. OrderlyInv
  BY <1>1, <1>2 DEF OrderlyInv, Lone, ProxyOnly, LoneInv, ProxyOnlyInv, InBuild
<1>4. KeptInv
  BY <1>1, <1>2 DEF Init, KeptInv, BuildInv, ProxyInv, FinInv
<1>5. TornInv
  BY <1>2, SupervisedInit, HereTyped DEF TornInv, SupervisedInv, Budgets
<1> QED BY <1>3, <1>4, <1>5, SupervisedInit DEF UpgradeInv

LEMMA UpgradeStep == UpgradeInv /\ [Next]_vars => UpgradeInv'
<1> SUFFICES ASSUME UpgradeInv, [Next]_vars PROVE UpgradeInv'
  OBVIOUS
<1>1. SupervisedInv' /\ TypeOK /\ CallsInv /\ ManagerInv /\ OrderlyInv /\ TornInv
  BY SupervisedStep DEF UpgradeInv, SupervisedInv
<1>2. CASE UNCHANGED vars
  <2>1. OrderlyInv' /\ TornInv' /\ (Orderly => KeptInv)'
    BY <1>2 DEF UpgradeInv, OrderlyInv, TornInv, Torn, Steady, Orderly, Lone, ProxyOnly, Here, LoneInv, ProxyOnlyInv, InBuild,
                KeptInv, BuildInv, ProxyInv, FinInv, BuildsManager, vars
  <2> QED BY <1>1, <2>1 DEF UpgradeInv
<1>3. CASE Next
  <2>s. scene' = scene /\ (Lone' <=> Lone) /\ (ProxyOnly' <=> ProxyOnly)
    BY <1>3 DEF Next, Lone, ProxyOnly, Here
  <2>t. TornInv' /\ (Steady' => Steady)
    <3>1. budget'.torn = budget.torn \/ FailsTwice
      BY <1>1, <1>3, StepSpends DEF SpendsNone, Begin, ManagerQuits, TypeOK, Budgets
    <3> QED BY <1>1, <2>s, <3>1, TornStays
  <2>1. OrderlyInv'
    BY <1>1, <1>3, <2>s, LoneStep, ProxyOnlyStep DEF OrderlyInv
  <2>2. Orderly' => KeptInv'
    <3> SUFFICES ASSUME Orderly PROVE KeptInv'
      BY <2>s, <2>t DEF Orderly
    <3>1. BuildInv /\ ProxyInv /\ FinInv
      BY DEF UpgradeInv, KeptInv
    <3>2. BuildInv' /\ ProxyInv'
      <4>1. CASE \E t \in Threads : Act(t)
        BY <1>1, <2>s, <3>1, <4>1, ProxyKeptByCall
      <4>2. CASE \A t \in Threads : ~Act(t)
        BY <1>1, <1>3, <2>1, <2>s, <2>t, <3>1, <4>2, ProxyKeptByOthers
      <4> QED BY <4>1, <4>2
    <3>3. FinInv'
      BY <1>1, <1>3, <3>1, FinStep DEF Orderly, OneBuilds, Steady
    <3> QED BY <3>2, <3>3 DEF KeptInv
  <2> QED BY <1>1, <2>t, <2>1, <2>2 DEF UpgradeInv
<1> QED BY <1>2, <1>3

LEMMA UpgradeAlways == Spec => []UpgradeInv
BY UpgradeInit, UpgradeStep, PTL DEF Spec

LEMMA KeptIsBinaryKept ==
    ASSUME TypeOK, KeptInv
    PROVE  BinaryKept
<1>1. disk.manager = "none" => disk.mprev # "none"
  BY DEF TypeOK, Finalizers, KeptInv, FinInv
<1>2. fin.pc \notin {"none", "cleanup", "end"} => "old" \in {disk.manager, disk.mprev}
  BY DEF TypeOK, Finalizers, KeptInv, FinInv
<1>3. disk.proxy = "none" => disk.prev # "none"
  BY DEF KeptInv, ProxyInv
<1> QED BY <1>1, <1>2, <1>3 DEF BinaryKept

\* Where one request is made, or clients only deploy and control the proxy of a
\* manager that stays and the rename that brings its binary back does not fail,
\* a binary of the proxy and one of the manager are always left, whichever other
\* rename, build or launch fails, and whenever the manager or the finalizer is
\* killed (promoteStagedBinary, installManagerBinaryOnce, rollbackManagerUpgrade).
THEOREM UpgradeKeepsBinaries == Spec => [](Orderly => BinaryKept)
<1>1. UpgradeInv => (Orderly => BinaryKept)
  BY KeptIsBinaryKept DEF UpgradeInv, SupervisedInv
<1> QED BY <1>1, UpgradeAlways, PTL

-----------------------------------------------------------------------------
(* The port.                                                                *)

PortKept ==
    \/ UNCHANGED <<procs, port>>
    \/ \E dead : Ends(dead)
    \/ \E q \in Procs : Signal(q)
    \/ Spawn /\ port' = port

LEMMA StartPort ==
    ASSUME NEW ok \in BOOLEAN, Start(ok), port' = port
    PROVE  PortKept
BY DEF Start, PortKept

LEMMA ActPort ==
    ASSUME TypeOK, NEW t \in Threads, Act(t)
    PROVE  PortKept
<1>1. CASE SupervisorStep(t)
  <2>1. CASE Stop(t)
    <3>1. cmd # 0 => cmd \in Procs
      BY DEF TypeOK, Procs
    <3> QED BY <2>1, <3>1 DEF Stop, PortKept
  <2>2. CASE StopDeadline(t) \/ StopStale(t)
    BY <2>2 DEF StopDeadline, StopStale, PortKept
  <2>3. CASE StartStep(t) \/ StartDeployed(t)
    BY <2>3, StartPort DEF StartStep, StartDeployed
  <2>4. CASE StopDone(t) \/ StopReturns(t) \/ Ready(t) \/ Build(t) \/ Promote(t) \/ Install(t) \/ Unlink(t)
    BY <2>4 DEF StopDone, StopReturns, Ready, Build, Promote, Install, InstallFailed, Unlink, PortKept
  <2> QED BY <1>1, <2>1, <2>2, <2>3, <2>4 DEF SupervisorStep
<1>2. CASE DeployStep(t)
  <2>1. CASE Deploy(t) \/ Unzip(t) \/ Mirror(t) \/ Mirrored(t) \/ BuildManager(t) \/ Built(t) \/ LaunchFinalizer(t)
    BY <2>1 DEF Deploy, Unzip, Mirror, Mirrored, BuildManager, Built, LaunchFinalizer, PortKept
  <2>2. CASE Recover(t)
    BY <2>2, StartPort DEF Recover, PortKept
  <2> QED BY <1>2, <2>1, <2>2 DEF DeployStep
<1> QED BY <1>1, <1>2 DEF Act

LEMMA EndsPort ==
    ASSUME TypeOK, PortInv, NEW dead, Ends(dead)
    PROVE  PortInv'
<1>1. \A p \in Procs : procs[p] \in Processes
                       /\ procs'[p] = IF p \in dead /\ Alive(p) THEN [procs[p] EXCEPT !.st = "dead"] ELSE procs[p]
  BY DEF Ends, TypeOK
<1>2. port' = IF port \in dead THEN 0 ELSE port
  BY DEF Ends
<1>3. port # 0 => port \in Procs
  BY DEF TypeOK, Procs
<1>4. \A p \in Procs : procs'[p].st = "up" => p \notin dead /\ procs[p].st = "up"
  BY <1>1 DEF Processes, Alive
<1>5. port' # 0 => port' = port /\ procs'[port] = procs[port]
  BY <1>1, <1>2, <1>3
<1>6. \A p \in Procs : procs'[p].st = "up" => port' = p
  BY <1>2, <1>4 DEF PortInv
<1>7. port' # 0 => procs'[port'].st \in {"up", "term"}
  BY <1>5 DEF PortInv
<1> QED BY <1>6, <1>7 DEF PortInv

LEMMA PortKeeps ==
    ASSUME TypeOK, PortInv, PortKept
    PROVE  PortInv'
<1>0. port # 0 => port \in Procs
  BY DEF TypeOK, Procs
<1>1. CASE UNCHANGED <<procs, port>>
  BY <1>1 DEF PortInv
<1>2. CASE \E q \in Procs : ~Here.windows /\ Signal(q)
  <2>1. PICK q \in Procs : ~Here.windows /\ Signal(q)
    BY <1>2
  <2>2. port' = port /\ \A p \in Procs : procs'[p].st = IF p = q /\ Alive(q) THEN "term" ELSE procs[p].st
    BY <2>1 DEF Signal, TypeOK, Processes
  <2>3. \A p \in Procs : procs'[p].st = "up" => procs[p].st = "up"
    BY <2>2
  <2> QED BY <1>0, <2>2, <2>3 DEF PortInv
<1>3. CASE Spawn /\ port' = port
  <2>1. PICK q \in Procs : procs[q].st = "unborn"
                           /\ procs' = [procs EXCEPT ![q] = [st |-> "starting", bin |-> disk.proxy, own |-> mgr.inc]]
    BY <1>3, SpawnEffect
  <2>2. \A p \in Procs : procs'[p].st = IF p = q THEN "starting" ELSE procs[p].st
    BY <2>1 DEF TypeOK
  <2> QED BY <1>0, <1>3, <2>1, <2>2 DEF PortInv
<1>4. (\E q \in Procs : Here.windows /\ Signal(q)) => \E dead : Ends(dead)
  BY DEF Signal
<1> QED BY <1>1, <1>2, <1>3, <1>4, EndsPort DEF PortKept

LEMMA PortStep == TypeOK /\ PortInv /\ [Next]_vars => PortInv'
<1> SUFFICES ASSUME TypeOK, PortInv, [Next]_vars PROVE PortInv'
  OBVIOUS
<1>k. ASSUME UNCHANGED <<procs, port>> PROVE PortInv'
  BY <1>k, PortKeeps DEF PortKept
<1>1. CASE UNCHANGED vars
  BY <1>1, <1>k DEF vars
<1>2. CASE Next
  <2>1. ASSUME NEW t \in Threads, Act(t) PROVE PortInv'
    BY <2>1, ActPort, PortKeeps
  <2>2. ASSUME NEW p \in Procs, Listens(p) PROVE PortInv'
    <3>1. CASE port = 0
      <4>1. \A q \in Procs : procs'[q].st = (IF q = p THEN "up" ELSE procs[q].st)
        BY <2>2, <3>1 DEF Listens, TypeOK, Processes
      <4>2. \A q \in Procs : procs[q].st # "up"
        BY <3>1 DEF PortInv, Procs
      <4>3. port' = p
        BY <2>2, <3>1 DEF Listens
      <4> QED BY <4>1, <4>2, <4>3 DEF PortInv
    <3>2. CASE port # 0
      BY <2>2, <3>2, EndsPort DEF Listens
    <3> QED BY <3>1, <3>2
  <2>3. ASSUME NEW p \in Procs, Exits(p) \/ Crashes(p) PROVE PortInv'
    BY <2>3, EndsPort DEF Exits, Crashes
  <2>4. CASE AutoStart
    BY <2>4, StartPort, PortKeeps DEF AutoStart, PortKept
  <2>5. CASE UNCHANGED <<procs, port>>
    BY <2>5, <1>k
  <2>6. CASE Finalizer \/ FinKilled
    BY <2>6, <1>k DEF Finalizer, FinDown, FinBackup, FinInstall, FinLaunch, FinReady, FinRollback, FinRestore, FinRelaunch,
                      FinCleanup, FinKilled
  <2> QED BY <1>2, <2>1, <2>2, <2>3, <2>4, <2>5, <2>6 DEF Next, System, Environment, Act, ProcessStep, Reap, SendDone, Begin,
          ClientGone, ManagerExits, ManagerFails, ManagerQuits, ManagerListens, OperatorLaunches
<1> QED BY <1>1, <1>2

-----------------------------------------------------------------------------
(* Deployments that nobody disturbs.                                        *)

\* The deployment, or the manager that starts, that the proxy belongs to.
Holder(t) == InBuild(t) \/ th[t].op = "boot"
SpawnPCs == {"start", "begin", "recover", "launch", "auto"}

LEMMA HolderBusy ==
    ASSUME CallsInv, NEW t \in Threads, Holder(t)
    PROVE  th[t].pc # "idle"
BY DEF CallsInv, CallShape, Holder, InBuild, StopPCs, BuildPCs, DeployPCs, BootPCs

\* The manager boots, or clients are at work.
LEMMA BootAlone ==
    ASSUME TypeOK, CallsInv, ManagerInv, NEW t \in Threads, NEW u \in Threads,
           th[t].pc # "idle", th[u].pc # "idle", t = Boot
    PROVE  t = u
BY DEF TypeOK, Managers, ManagerInv, Threads

LEMMA LoneSole ==
    ASSUME TypeOK, CallsInv, ManagerInv, Lone, OrderlyInv, NEW t \in Threads, NEW u \in Threads,
           th[t].pc # "idle", th[u].pc # "idle"
    PROVE  t = u
<1>1. CASE t = Boot \/ u = Boot
  BY <1>1, BootAlone
<1>2. CASE t # Boot /\ u # Boot
  BY <1>2 DEF Threads, OrderlyInv, LoneInv
<1> QED BY <1>1, <1>2

\* Nobody but its holder starts or replaces the proxy.
LEMMA SoleHolder ==
    ASSUME TypeOK, CallsInv, ManagerInv, DeploysAlone, OrderlyInv, SceneInv, NEW t \in Threads, NEW u \in Threads,
           Holder(u), th[t].pc \in SpawnPCs \cup AtPromotion
    PROVE  t = u
<1>0. th[t].pc # "idle" /\ th[u].pc # "idle"
  BY HolderBusy DEF SpawnPCs, AtPromotion
<1>1. CASE t = Boot \/ u = Boot
  BY <1>0, <1>1, BootAlone
<1>2. CASE t # Boot /\ u # Boot
  <2>0. t \in Callers /\ u \in Callers
    BY <1>2 DEF Threads
  <2>1. CASE Lone
    BY <1>0, <2>1, LoneSole
  <2>2. CASE DeployScene
    <3>1. th[t].op \in {"stop", "deploy"} /\ InBuild(u)
      BY <1>0, <1>2, <2>0, <2>2 DEF SceneInv, CallsInv, CallShape, Holder, Threads
    <3>2. InBuild(t)
      BY <3>1 DEF CallsInv, CallShape, InBuild, StopPCs, BuildPCs, DeployPCs, SpawnPCs, AtPromotion
    <3> QED BY <2>0, <2>2, <3>1, <3>2, OneBuilder DEF DeployScene, OneBuilds
  <2> QED BY <2>1, <2>2 DEF DeploysAlone
<1> QED BY <1>1, <1>2

\* Who starts a process, and who tells one to end.
LEMMA SpawnBy ==
    ASSUME Next, cmd = 0, cmd' # 0
    PROVE  \E t \in Threads : th[t].pc \in SpawnPCs /\ (Act(t) \/ (t = Boot /\ AutoStart))
<1>1. ASSUME NEW t \in Threads, Act(t) PROVE th[t].pc \in SpawnPCs
  <2>1. ~Stop(t) /\ ~StopDeadline(t) /\ ~StopDone(t) /\ ~StopReturns(t) /\ ~StopStale(t) /\ ~Ready(t)
        /\ ~Build(t) /\ ~Promote(t) /\ ~Install(t) /\ ~Unlink(t)
    BY DEF Stop, StopDeadline, StopDone, StopReturns, StopStale, Ready, Build, Promote, Install, InstallFailed, Unlink
  <2>2. ~Deploy(t) /\ ~Unzip(t) /\ ~Mirror(t) /\ ~Mirrored(t) /\ ~BuildManager(t) /\ ~Built(t)
    BY DEF Deploy, Unzip, Mirror, Mirrored, BuildManager, Built
  <2> QED BY <1>1, <2>1, <2>2 DEF Act, SupervisorStep, DeployStep, StartStep, StartDeployed, Recover, LaunchFinalizer, SpawnPCs
<1>2. CASE AutoStart
  BY <1>2 DEF AutoStart, SpawnPCs, Threads
<1>3. \A p \in Procs : ~ProcessStep(p) /\ ~Exits(p) /\ ~Crashes(p)
  BY DEF ProcessStep, Listens, Reap, SendDone, Exits, Crashes
<1>4. \A t \in Callers : ~ClientGone(t) /\ \A op \in Ops : ~Begin(t, op)
  BY DEF ClientGone, Begin
<1>5. ~ManagerEnds
  BY DEF ManagerEnds
<1>6. ~ManagerExits /\ ~ManagerFails /\ ~ManagerQuits /\ ~ManagerListens /\ ~OperatorLaunches /\ ~FinKilled
  BY <1>5 DEF ManagerExits, ManagerFails, ManagerQuits, ManagerListens, OperatorLaunches, FinKilled
<1>7. ~Finalizer
  BY <1>5 DEF Finalizer, FinDown, FinBackup, FinInstall, FinLaunch, FinReady, FinRollback, FinRestore, FinRelaunch, FinCleanup
<1> QED BY <1>1, <1>2, <1>3, <1>4, <1>6, <1>7 DEF Next, System, Environment, Act

LEMMA EndsNoTerm ==
    ASSUME TypeOK, NEW dead, Ends(dead), NEW p \in Procs, procs'[p].st = "term"
    PROVE  procs[p].st = "term"
<1>1. procs[p] \in Processes
  BY DEF TypeOK
<1>2. procs'[p] = IF p \in dead /\ Alive(p) THEN [procs[p] EXCEPT !.st = "dead"] ELSE procs[p]
  BY DEF Ends
<1> QED BY <1>1, <1>2 DEF Processes

LEMMA TermBy ==
    ASSUME TypeOK, Next, NEW p \in Procs, procs'[p].st = "term", procs[p].st # "term"
    PROVE  \E t \in Threads : Act(t) /\ th[t].pc = "stop"
<1>s. ~Spawn
  <2> SUFFICES ASSUME Spawn PROVE FALSE
    OBVIOUS
  <2>1. PICK q \in Procs : procs' = [procs EXCEPT ![q] = [st |-> "starting", bin |-> disk.proxy, own |-> mgr.inc]]
    BY SpawnEffect
  <2>2. procs'[p] = IF p = q THEN [st |-> "starting", bin |-> disk.proxy, own |-> mgr.inc] ELSE procs[p]
    BY <2>1 DEF TypeOK
  <2> QED BY <2>2
<1>e. \A dead : ~Ends(dead)
  BY EndsNoTerm
<1>k. procs' # procs
  OBVIOUS
<1>1. ASSUME NEW t \in Threads, Act(t) PROVE th[t].pc = "stop"
  <2>1. CASE SupervisorStep(t)
    <3>1. ~StopDeadline(t) /\ ~StopStale(t)
      BY <1>e, <1>k DEF StopDeadline, StopStale
    <3>2. ~StopDone(t) /\ ~StopReturns(t) /\ ~Ready(t) /\ ~Build(t) /\ ~Promote(t) /\ ~Install(t) /\ ~Unlink(t)
      BY <1>k DEF StopDone, StopReturns, Ready, Build, Promote, Install, InstallFailed, Unlink
    <3>3. ~StartStep(t) /\ ~StartDeployed(t)
      BY <1>k, <1>s DEF StartStep, StartDeployed, Start
    <3> QED BY <2>1, <3>1, <3>2, <3>3 DEF SupervisorStep, Stop
  <2>2. ~DeployStep(t)
    BY <1>k, <1>s DEF DeployStep, Deploy, Unzip, Mirror, Mirrored, BuildManager, Recover, Built, LaunchFinalizer, Start
  <2> QED BY <1>1, <2>1, <2>2 DEF Act
<1>2. \A q \in Procs : ~ProcessStep(q) /\ ~Exits(q) /\ ~Crashes(q)
  <2>1. ASSUME NEW q \in Procs, Listens(q), port = 0 PROVE FALSE
    <3>1. procs'[p].st = (IF p = q THEN "up" ELSE procs[p].st)
      BY <2>1 DEF Listens, TypeOK, Processes
    <3> QED BY <3>1
  <2> QED BY <1>e, <1>k, <2>1 DEF ProcessStep, Listens, Reap, SendDone, Exits, Crashes
<1>3. \A t \in Callers : ~ClientGone(t) /\ \A op \in Ops : ~Begin(t, op)
  BY <1>k DEF ClientGone, Begin
<1>4. ~ManagerExits /\ ~ManagerFails /\ ~ManagerQuits /\ ~ManagerListens /\ ~OperatorLaunches /\ ~FinKilled /\ ~AutoStart
  BY <1>k, <1>s DEF ManagerExits, ManagerFails, ManagerQuits, ManagerListens, OperatorLaunches, FinKilled, AutoStart, Start
<1>5. ~Finalizer
  BY <1>k DEF Finalizer, FinDown, FinBackup, FinInstall, FinLaunch, FinReady, FinRollback, FinRestore, FinRelaunch, FinCleanup
<1> QED BY <1>1, <1>2, <1>3, <1>4, <1>5 DEF Next, System, Environment, Act

LEMMA SceneStep ==
    ASSUME TypeOK, CallsInv, ManagerInv, ChildStep, OrderlyInv, SceneInv, Next
    PROVE  SceneInv'
<1> SUFFICES ASSUME DeployScene, DeployScene'
             PROVE  /\ mgr'.inc = 1
                    /\ \A p \in Procs : procs'[p].st # "unborn" => procs'[p].own = 1
                    /\ \A c \in Callers : th'[c].op \in {"none", "stop", "deploy"}
  BY DEF SceneInv, DeployScene, ProxyOnly, Here, Next
<1>1. ProxyOnlyInv /\ mgr.inc = 1 /\ \A c \in Callers : th[c].op \in {"none", "stop", "deploy"}
  BY DEF OrderlyInv, SceneInv, DeployScene
<1>2. mgr'.inc = 1 /\ mgr'.st = mgr.st
  <2>1. \A c \in Callers : Act(c) => mgr'.inc = mgr.inc /\ mgr'.st = mgr.st
    BY ActEffect DEF Threads
  <2>2. (\E c \in Callers : \E op \in Ops : Begin(c, op)) => mgr' = mgr
    BY DEF Begin
  <2>3. (\E c \in Callers : Act(c)) \/ mgr' = mgr
    BY <1>1, <2>2, CallersAlone
  <2> QED BY <1>1, <2>1, <2>3
<1>3. ASSUME NEW p \in Procs, procs'[p].st # "unborn" PROVE procs'[p].own = 1
  <2>1. procs[p].st # "unborn" => procs[p].own = 1
    BY DEF SceneInv
  <2>2. CASE Quiet
    BY <1>3, <2>1, <2>2 DEF Quiet, ProcKept
  <2>3. CASE Spawned
    <3>1. PICK q \in Procs : procs' = [procs EXCEPT ![q] = [st |-> "starting", bin |-> disk.proxy, own |-> mgr.inc]]
      BY <2>3 DEF Spawned
    <3>2. procs'[p] = IF p = q THEN [st |-> "starting", bin |-> disk.proxy, own |-> mgr.inc] ELSE procs[p]
      BY <3>1 DEF TypeOK
    <3> QED BY <1>1, <1>3, <2>1, <3>2
  <2>4. CASE procs' = procs
    BY <1>3, <2>1, <2>4
  <2> QED BY <2>2, <2>3, <2>4 DEF ChildStep, Reaped, Reap, Ended, Launched
<1>4. ASSUME NEW c \in Callers PROVE th'[c].op \in {"none", "stop", "deploy"}
  <2>0. c \in Threads /\ c # Boot
    BY CallersAssumption DEF Threads
  <2>1. CASE Act(c)
    <3>1. CallReturns(c) => th'[c].op = "none"
      BY <2>0, ReturnEffect DEF CallReturns
    <3> QED BY <1>1, <2>0, <2>1, <3>1, ActLock DEF CallGoesOn
  <2>2. ASSUME NEW op \in Ops, Begin(c, op) PROVE th'[c].op \in {"none", "stop", "deploy"}
    <3>1. th'[c] = [Idle EXCEPT !.op = op, !.pc = FirstStep(op)]
      BY <2>0, <2>2 DEF Begin, TypeOK
    <3>2. [Idle EXCEPT !.op = op, !.pc = FirstStep(op)].op = op
      BY DEF Idle
    <3>3. op \in {"stop", "deploy"}
      BY <2>2 DEF Begin, DeployScene
    <3> QED BY <3>1, <3>2, <3>3
  <2>3. CASE ManagerEnds
    BY <2>0, <2>3, EndsKeeps, IdleFields
  <2>4. CASE Unmoved(c)
    BY <1>1, <2>4 DEF Unmoved
  <2> QED BY <2>0, <2>1, <2>2, <2>3, <2>4, CallStep
<1> QED BY <1>2, <1>3, <1>4

\* A call that is no deployment, or that finds no process, has nothing to keep.
LEMMA ServesFree ==
    ASSUME CallsInv', NEW t \in Threads,
           \/ th'[t].op \notin {"deploy", "boot"} \/ cmd' = 0
           \/ th'[t].op = "deploy" /\ th'[t].pc \in {"lock", "unzip", "stop"}
           \/ th'[t].op = "boot" /\ th'[t].pc \in {"auto", "listen"}
    PROVE  ServesAt(th[t].op, th[t].pc, th[t].tgt)'
<1>1. CallShape(th'[t].op, th'[t].pc)
  BY DEF CallsInv, CallShape
<1>2. CASE th'[t].op \notin {"deploy", "boot"}
  <2>1. th'[t].pc \notin {"ready", "ready2"}
    BY <1>1, <1>2 DEF CallShape, StopPCs, BuildPCs
  <2> QED BY <1>2, <2>1 DEF ServesAt, Cleared
<1>3. CASE cmd' = 0
  BY <1>3 DEF ServesAt
<1>4. CASE th'[t].op = "deploy" /\ th'[t].pc \in {"lock", "unzip", "stop"}
  BY <1>4 DEF ServesAt, Cleared
<1>5. CASE th'[t].op = "boot" /\ th'[t].pc \in {"auto", "listen"}
  BY <1>5 DEF ServesAt, Cleared
<1> QED BY <1>2, <1>3, <1>4, <1>5

\* What others do leaves a deployment the process it has started, or none.
LEMMA ServesUnmoved ==
    ASSUME TypeOK, CallsInv, ManagerInv, CallsInv', ChildStep, DeploysAlone, OrderlyInv, SceneInv, Next, scene' = scene,
           NEW u \in Threads, Unmoved(u), ~Act(u), ~(u = Boot /\ AutoStart),
           ServesAt(th[u].op, th[u].pc, th[u].tgt)
    PROVE  ServesAt(th[u].op, th[u].pc, th[u].tgt)'
<1>u. th'[u].op = th[u].op /\ th'[u].pc = th[u].pc /\ th'[u].tgt = th[u].tgt
  BY DEF Unmoved
<1>1. CASE th[u].op \notin {"deploy", "boot"} \/ cmd' = 0 \/ (th[u].op = "deploy" /\ th[u].pc = "lock")
  BY <1>1, <1>u, ServesFree
<1>2. CASE cmd' # 0 /\ (th[u].op = "boot" \/ (th[u].op = "deploy" /\ th[u].pc # "lock"))
  <2>1. Holder(u)
    BY <1>2 DEF Holder, InBuild
  <2>2. cmd # 0
    BY <1>2, <2>1, SpawnBy, SoleHolder
  <2>3. ~Spawned /\ ~Ended
    BY <1>2, <2>2 DEF Spawned, Ended, ManagerEnds
  <2>4. cmd' = cmd /\ cmd \in Procs
    BY <1>2, <2>2, <2>3 DEF ChildStep, Quiet, Reaped, Reap, Launched, TypeOK, Procs
  <2>5. procs'[cmd].bin = procs[cmd].bin
    BY <2>3, <2>4 DEF ChildStep, Quiet, ProcKept, Reaped, Reap, Launched
  <2>6. disk'.proxy = disk.proxy
    <3>1. ASSUME NEW t \in Threads, Act(t) PROVE disk'.proxy = disk.proxy
      <4>1. t # u
        BY <3>1
      <4>2. th[t].pc \notin AtPromotion
        BY <2>1, <4>1, SoleHolder
      <4> QED BY <3>1, <4>2, ActDisk DEF ActSteps, AtPromotion
    <3> QED BY <3>1, OtherDisk
  <2>7. Lone /\ procs'[cmd].st = "term" => procs[cmd].st = "term"
    <3> SUFFICES ASSUME Lone, procs'[cmd].st = "term", procs[cmd].st # "term" PROVE FALSE
      OBVIOUS
    <3>1. PICK t \in Threads : Act(t) /\ th[t].pc = "stop"
      BY <2>4, TermBy
    <3>2. th[u].pc # "idle"
      BY <2>1, HolderBusy
    <3> QED BY <3>1, <3>2, LoneSole
  <2>8. Lone' <=> Lone
    BY DEF Lone, Here
  <2>9. procs'[cmd'].bin = procs[cmd].bin /\ procs'[cmd'].st = procs'[cmd].st
    BY <2>4, <2>5
  <2> QED BY <1>u, <2>2, <2>4, <2>6, <2>7, <2>8, <2>9 DEF ServesAt, Cleared
<1> QED BY <1>1, <1>2

\* A deployment finds no process between its stop and its start, and its own after it.
LEMMA ServesOwn ==
    ASSUME TypeOK, CallsInv, CallsInv', ChildInv, StopInv, scene' = scene, NEW u \in Threads, Act(u),
           ServesAt(th[u].op, th[u].pc, th[u].tgt)
    PROVE  ServesAt(th[u].op, th[u].pc, th[u].tgt)'
<1>t. cmd \in 0 .. MaxProcs /\ th[u] \in Calls
  BY DEF TypeOK
<1>f. ASSUME cmd' = 0 PROVE ServesAt(th[u].op, th[u].pc, th[u].tgt)'
  BY <1>f, ServesFree
<1>r. ASSUME NEW res, Return(u, res) PROVE ServesAt(th[u].op, th[u].pc, th[u].tgt)'
  BY <1>r, ReturnEffect, ServesFree
<1>d. ASSUME NEW res, Deployed(u, res) PROVE ServesAt(th[u].op, th[u].pc, th[u].tgt)'
  <2>1. CASE th' = [th EXCEPT ![u].pc = "auto", ![u].res = res] /\ th[u].op = "boot"
    <3> DEFINE r == [th[u] EXCEPT !.pc = "auto", !.res = res]
    <3>1. th'[u] = r
      BY <2>1 DEF TypeOK
    <3>2. r.op = th[u].op /\ r.pc = "auto"
      BY <1>t DEF Calls
    <3> HIDE DEF r
    <3>3. th'[u].op = "boot" /\ th'[u].pc = "auto"
      BY <2>1, <3>1, <3>2
    <3> QED BY <3>3, ServesFree
  <2> QED BY <1>d, <2>1, <1>r DEF Deployed
<1>k. CallShape(th[u].op, th[u].pc)
  BY DEF CallsInv
<1>c. Cleared(th[u].op, th[u].pc) => cmd = 0
  BY DEF ServesAt
<1>o. th'[u].op \in {th[u].op, "none"}
  BY ActLock, ReturnEffect DEF CallGoesOn, CallReturns
<1>1. CASE Stop(u)
  <2>1. CASE cmd = 0
    BY <1>1, <2>1, <1>f DEF Stop
  <2>2. CASE cmd # 0
    <3> DEFINE r == [th[u] EXCEPT !.pc = "wait", !.tgt = cmd]
    <3>1. th'[u] = r /\ cmd' = cmd
      BY <1>1, <2>2 DEF Stop, TypeOK
    <3>2. r.pc = "wait" /\ r.tgt = cmd
      BY <1>t DEF Calls
    <3>3. ~Cleared(th'[u].op, "wait")
      BY DEF Cleared
    <3> HIDE DEF r
    <3> QED BY <3>1, <3>2, <3>3 DEF ServesAt
  <2> QED BY <2>1, <2>2
<1>2. CASE StopDeadline(u)
  <2>1. th[u].pc = "wait" /\ th'[u].pc = "kill" /\ th'[u].op = th[u].op /\ th'[u].tgt = th[u].tgt /\ cmd' = cmd
    BY <1>2, GotoEffect DEF StopDeadline
  <2> QED BY <2>1 DEF ServesAt, Cleared
<1>3. CASE StopDone(u)
  <2>1. th[u].pc \in {"wait", "kill"} /\ reap[th[u].tgt] = "sent" /\ cmd' = cmd
    BY <1>3 DEF StopDone
  <2>2. CASE Return(u, "cancelled")
    BY <2>2, <1>r
  <2>3. CASE th[u].op = "deploy"
    <3>1. cmd \in {0, th[u].tgt}
      BY <2>1, <2>3 DEF ServesAt
    <3>2. cmd = 0
      BY <2>1, <3>1 DEF ChildInv
    <3> QED BY <2>1, <3>2, <1>f
  <2>4. CASE th[u].op # "deploy"
    <3>1. th[u].op # "boot"
      BY <2>1, <1>k DEF CallShape, BootPCs
    <3> QED BY <2>4, <3>1, <1>o, ServesFree
  <2> QED BY <2>2, <2>3, <2>4
<1>4. CASE StopReturns(u) \/ StartStep(u) \/ Recover(u) \/ LaunchFinalizer(u)
  BY <1>4, <1>r DEF StopReturns, StartStep, Recover, LaunchFinalizer
<1>5. CASE StopStale(u)
  <2>1. Cleared(th[u].op, th[u].pc)
    BY <1>5, <1>k DEF StopStale, CallShape, Cleared, StopPCs, BuildPCs
  <2> QED BY <1>5, <2>1, <1>c, <1>f DEF StopStale
<1>6. CASE StartDeployed(u)
  <2>1. cmd = 0
    BY <1>6, <1>c, <1>k DEF StartDeployed, CallShape, Cleared, StopPCs, BuildPCs
  <2>2. CASE Spawn /\ Goto(u, "ready") /\ disk' = disk
    <3>1. PICK p \in Procs : cmd' = p
                             /\ procs' = [procs EXCEPT ![p] = [st |-> "starting", bin |-> disk.proxy, own |-> mgr.inc]]
      BY <2>2, SpawnEffect
    <3>2. procs'[cmd'].bin = disk'.proxy /\ procs'[cmd'].st = "starting"
      BY <2>2, <3>1 DEF TypeOK
    <3>3. th'[u].pc = "ready"
      BY <2>2, GotoEffect
    <3>4. ~Cleared(th'[u].op, "ready")
      BY DEF Cleared
    <3> QED BY <3>2, <3>3, <3>4 DEF ServesAt
  <2>3. CASE \E res \in {"failed"} : Deployed(u, res)
    BY <2>3, <1>d
  <2> QED BY <1>6, <2>1, <2>2, <2>3, <1>f DEF StartDeployed, Start
<1>7. CASE Ready(u)
  <2>1. CASE \E res \in {"failed", "ok"} : Deployed(u, res)
    BY <2>1, <1>d
  <2>2. CASE \E pc \in {"ready", "ready2"} : Goto(u, pc)
    <3>1. th'[u].pc \in {"ready", "ready2"} /\ th[u].pc \in {"ready", "ready2"}
      BY <1>7, <2>2, GotoEffect DEF Ready
    <3>2. UNCHANGED <<procs, cmd, disk>> /\ (Lone' <=> Lone)
      BY <1>7 DEF Ready, Lone, Here
    <3>3. ~Cleared(th'[u].op, "ready") /\ ~Cleared(th'[u].op, "ready2")
      BY DEF Cleared
    <3>4. cmd # 0 => procs[cmd].bin = disk.proxy /\ (Lone => procs[cmd].st # "term")
      BY <3>1 DEF ServesAt
    <3>5. cmd' # 0 => procs'[cmd'].bin = disk'.proxy /\ (Lone' => procs'[cmd'].st # "term")
      BY <3>2, <3>4
    <3> QED BY <3>1, <3>3, <3>5 DEF ServesAt
  <2> QED BY <1>7, <2>1, <2>2 DEF Ready
<1>8. CASE Build(u) \/ Promote(u) \/ Install(u) \/ Unlink(u) \/ Mirror(u) \/ Mirrored(u) \/ BuildManager(u) \/ Built(u)
  <2>1. cmd' = cmd
    BY <1>8 DEF Build, Promote, Install, InstallFailed, Unlink, Mirror, Mirrored, BuildManager, Built
  <2>2. th[u].pc \in BuildPCs \cup {"mirror", "mirrored", "manager", "built"}
    BY <1>8 DEF Build, Promote, Install, InstallFailed, Unlink, Mirror, Mirrored, BuildManager, Built, BuildPCs
  <2>3. th[u].op = "build" \/ Cleared(th[u].op, th[u].pc)
    BY <2>2, <1>k DEF CallShape, StopPCs, BuildPCs, BootPCs, Cleared
  <2> QED BY <2>1, <2>3, <1>c, <1>f, <1>o, ServesFree
<1>9. CASE Deploy(u)
  <2>1. th'[u].pc = "unzip" /\ th'[u].op = th[u].op /\ th[u].pc = "lock"
    BY <1>9, GotoEffect DEF Deploy
  <2>2. th[u].op = "deploy"
    BY <2>1, <1>k DEF CallShape, StopPCs, BuildPCs, BootPCs
  <2> QED BY <2>1, <2>2, ServesFree
<1>10. CASE Unzip(u)
  <2>1. CASE Return(u, "failed")
    BY <2>1, <1>r
  <2>2. CASE cmd = 0
    BY <1>10, <2>2, <1>f DEF Unzip
  <2>3. CASE cmd # 0 /\ th' = [th EXCEPT ![u].was = cmd # 0, ![u].pc = IF cmd # 0 THEN "stop" ELSE "mirror"]
    <3> DEFINE r == [th[u] EXCEPT !.was = cmd # 0, !.pc = IF cmd # 0 THEN "stop" ELSE "mirror"]
    <3>1. th'[u] = r
      BY <2>3 DEF TypeOK
    <3>2. r.pc = "stop" /\ r.op = th[u].op
      BY <1>t, <2>3 DEF Calls
    <3>3. th[u].op = "deploy"
      BY <1>10, <1>k DEF Unzip, CallShape, StopPCs, BuildPCs, BootPCs
    <3> HIDE DEF r
    <3> QED BY <3>1, <3>2, <3>3, ServesFree
  <2> QED BY <1>10, <2>1, <2>2, <2>3 DEF Unzip
<1> QED BY <1>1, <1>2, <1>3, <1>4, <1>5, <1>6, <1>7, <1>8, <1>9, <1>10 DEF Act, SupervisorStep, DeployStep

LEMMA ServesStep ==
    ASSUME TypeOK, CallsInv, CallsInv', ManagerInv, ChildInv, StopInv, ChildStep, DeploysAlone, OrderlyInv, ServesInv, Next
    PROVE  ServesInv'
<1>0. SceneInv' /\ SceneInv
  BY SceneStep DEF ServesInv
<1> SUFFICES ASSUME NEW u \in Threads PROVE ServesAt(th[u].op, th[u].pc, th[u].tgt)'
  BY <1>0 DEF ServesInv
<1>1. ServesAt(th[u].op, th[u].pc, th[u].tgt) /\ scene' = scene
  BY DEF ServesInv, Next
<1>2. CASE Act(u)
  BY <1>1, <1>2, ServesOwn
<1>3. CASE ManagerEnds
  BY <1>3, EndsKeeps, IdleFields, ServesFree
<1>4. ASSUME NEW op \in Ops, Begin(u, op) PROVE ServesAt(th[u].op, th[u].pc, th[u].tgt)'
  <2> DEFINE r == [Idle EXCEPT !.op = op, !.pc = FirstStep(op)]
  <2>1. th'[u] = r
    BY <1>4 DEF Begin, TypeOK
  <2>2. r.op = op /\ r.pc = FirstStep(op)
    BY DEF Idle
  <2>3. op # "boot"
    <3>1. u \in Callers
      BY <1>4 DEF Begin, Threads
    <3>2. op \in Requests
      BY <1>4, <3>1, HereTyped DEF Begin
    <3> QED BY <3>2 DEF Requests
  <2>4. op = "deploy" => FirstStep(op) = "lock"
    BY DEF FirstStep
  <2> HIDE DEF r
  <2> QED BY <2>1, <2>2, <2>3, <2>4, ServesFree
<1>5. CASE u = Boot /\ (AutoStart \/ ManagerListens)
  <2>1. CASE AutoStart
    <3>1. th'[u].pc = "listen" /\ th'[u].op = th[u].op
      BY <1>5, <2>1, GotoEffect DEF AutoStart
    <3>2. th[u].op = "boot"
      BY <1>5, <2>1 DEF AutoStart, CallsInv, CallShape, StopPCs, BuildPCs, DeployPCs
    <3> QED BY <3>1, <3>2, ServesFree
  <2>2. CASE ManagerListens
    <3>1. th'[u] = Idle
      BY <1>5, <2>2 DEF ManagerListens, TypeOK
    <3> QED BY <3>1, IdleFields, ServesFree
  <2> QED BY <1>5, <2>1, <2>2
<1>6. ASSUME NEW flag \in BOOLEAN, Launch(flag), ~ManagerEnds PROVE ServesAt(th[u].op, th[u].pc, th[u].tgt)'
  <2>1. mgr'.inc = mgr.inc + 1 /\ mgr.inc \in Nat
    BY <1>6, LaunchEffect DEF TypeOK, Managers
  <2>2. cmd' = 0
    BY <1>6, <2>1 DEF ChildStep, Quiet, Spawned, Reaped, Reap, Ended, Launched
  <2> QED BY <2>2, ServesFree
<1>7. CASE Unmoved(u) /\ ~Act(u) /\ ~(u = Boot /\ AutoStart)
  BY <1>0, <1>1, <1>7, ServesUnmoved
<1> QED BY <1>2, <1>3, <1>4, <1>5, <1>6, <1>7, CallStep

LEMMA DeployInit ==
    ASSUME Init
    PROVE  PortInv /\ ServesInv
<1>1. \A t \in Threads : th[t].op = "none" /\ th[t].pc = "idle"
  BY IdleFields DEF Init
<1>2. \A t \in Threads : ServesAt(th[t].op, th[t].pc, th[t].tgt)
  BY <1>1 DEF ServesAt, Cleared
<1>3. \A p \in Procs : procs[p].st = (IF p = 1 THEN "up" ELSE "unborn") /\ (p = 1 => procs[p].own = 1)
  BY DEF Init
<1>4. port = 1 /\ 1 \in Procs /\ mgr.inc = 1
  BY ProcsAssumption DEF Init, Procs
<1>5. \A p \in Procs : procs[p].st = "up" => p = 1
  BY <1>3
<1>6. PortInv
  BY <1>3, <1>4, <1>5 DEF PortInv
<1>7. SceneInv
  BY <1>1, <1>3, <1>4 DEF SceneInv, Threads
<1> QED BY <1>2, <1>6, <1>7 DEF ServesInv

DeployInv == UpgradeInv /\ PortInv /\ (DeploysAlone => ServesInv)

LEMMA DeployAlways == Spec => []DeployInv
<1>1. Init => DeployInv
  BY UpgradeInit, DeployInit DEF DeployInv
<1>2. DeployInv /\ [Next]_vars => DeployInv'
  <2> SUFFICES ASSUME DeployInv, [Next]_vars PROVE DeployInv'
    OBVIOUS
  <2>1. UpgradeInv /\ UpgradeInv' /\ PortInv /\ PortInv' /\ TypeOK
    BY UpgradeStep, PortStep DEF DeployInv, UpgradeInv, SupervisedInv
  <2>2. ASSUME DeploysAlone, ServesInv PROVE ServesInv'
    <3>1. CASE UNCHANGED vars
      BY <2>2, <3>1 DEF ServesInv, SceneInv, ServesAt, DeployScene, ProxyOnly, Lone, Here, vars
    <3>2. CASE Next
      <4>1. TypeOK /\ CallsInv /\ CallsInv' /\ ManagerInv /\ ChildInv /\ StopInv /\ OrderlyInv
        BY <2>1 DEF UpgradeInv, SupervisedInv
      <4>2. ChildStep
        BY <4>1, NextKinds
      <4> QED BY <2>2, <3>2, <4>1, <4>2, ServesStep
    <3> QED BY <3>1, <3>2
  <2>3. DeploysAlone' <=> DeploysAlone
    BY DEF Next, vars, DeploysAlone, DeployScene, ProxyOnly, Lone, Here
  <2> QED BY <2>1, <2>2, <2>3 DEF DeployInv
<1> QED BY <1>1, <1>2, PTL DEF Spec

\* Only Ready tells that the proxy serves, after its second healthy answer.
LEMMA OnlyReadyTells ==
    ASSUME TypeOK, CallsInv, Next, NEW t \in Threads, th[t].pc \in {"ready", "ready2"},
           th'[t].pc \in {"idle", "auto"}, th'[t].res = "ok"
    PROVE  /\ cmd # 0 /\ port # 0 /\ Settled /\ th[t].pc = "ready2"
           /\ UNCHANGED <<procs, port, cmd, disk>>
<1>1. ~Unmoved(t) /\ \A op \in Ops : ~Begin(t, op)
  BY DEF Unmoved, Begin
<1>2. ~ManagerEnds
  BY EndsKeeps, IdleFields
<1>3. ~(t = Boot /\ (AutoStart \/ ManagerListens \/ \E flag \in BOOLEAN : Launch(flag)))
  <2>1. ~(t = Boot /\ (AutoStart \/ ManagerListens))
    BY DEF AutoStart, ManagerListens
  <2>2. ASSUME t = Boot, NEW flag \in BOOLEAN, Launch(flag) PROVE FALSE
    <3>1. th'[t] = [Idle EXCEPT !.op = "boot", !.pc = IF flag THEN "stale" ELSE "auto"]
      BY <2>2 DEF Launch, TypeOK
    <3>2. th'[t].res = "none"
      BY <3>1 DEF Idle
    <3> QED BY <3>2
  <2> QED BY <2>1, <2>2
<1>4. Act(t)
  BY <1>1, <1>2, <1>3, CallStep
<1>5. Ready(t)
  <2>1. ~Stop(t) /\ ~StopDeadline(t) /\ ~StopDone(t) /\ ~StopReturns(t) /\ ~StartStep(t) /\ ~StopStale(t) /\ ~StartDeployed(t)
        /\ ~Build(t) /\ ~Promote(t) /\ ~Install(t) /\ ~Unlink(t)
    BY DEF Stop, StopDeadline, StopDone, StopReturns, StartStep, StopStale, StartDeployed, Build, Promote, Install, InstallFailed, Unlink
  <2>2. ~DeployStep(t)
    BY DEF DeployStep, Deploy, Unzip, Mirror, Mirrored, BuildManager, Recover, Built, LaunchFinalizer
  <2> QED BY <1>4, <2>1, <2>2 DEF Act, SupervisorStep
<1>6. ~Goto(t, "ready") /\ ~Goto(t, "ready2")
  <2>1. \A pc : Goto(t, pc) => th'[t].pc = pc
    BY GotoEffect
  <2> QED BY <2>1
<1>7. ~Deployed(t, "failed")
  <2> SUFFICES ASSUME Deployed(t, "failed") PROVE FALSE
    OBVIOUS
  <2>1. CASE th' = [th EXCEPT ![t].pc = "auto", ![t].res = "failed"]
    <3>1. th'[t] = [th[t] EXCEPT !.pc = "auto", !.res = "failed"] /\ th[t] \in Calls
      BY <2>1 DEF TypeOK
    <3>2. th'[t].res = "failed"
      BY <3>1 DEF Calls
    <3> QED BY <3>2
  <2> QED BY <2>1, ReturnEffect DEF Deployed
<1> QED BY <1>5, <1>6, <1>7 DEF Ready

\* In a scene in which nobody else starts or builds the proxy, a deployment that
\* reports that the proxy is ready, and an upgraded manager that goes on, have
\* the process they supervise on the API port, and it runs the installed binary
\* (waitUntilProxyReady, StartAfterDeployment).
THEOREM UpgradeServes == Spec => (DeploysAlone => DeployedServes)
<1> DEFINE A == \A t \in Threads :
                    th[t].pc \in {"ready", "ready2"} /\ th'[t].pc \in {"idle", "auto"} /\ th'[t].res = "ok"
                      => port = cmd /\ procs[port].bin = disk.proxy
<1>1. DeployInv /\ DeploysAlone /\ [Next]_vars => [A]_vars
  <2> SUFFICES ASSUME DeployInv, DeploysAlone, Next, NEW t \in Threads, th[t].pc \in {"ready", "ready2"},
                      th'[t].pc \in {"idle", "auto"}, th'[t].res = "ok"
               PROVE  port = cmd /\ procs[port].bin = disk.proxy
    OBVIOUS
  <2>1. TypeOK /\ CallsInv /\ ChildInv /\ ManagerInv /\ OrderlyInv /\ PortInv /\ ServesInv
    BY DEF DeployInv, UpgradeInv, SupervisedInv
  <2>2. cmd # 0 /\ port # 0 /\ Settled
    BY <2>1, OnlyReadyTells
  <2>3. cmd \in Procs /\ port \in Procs
    BY <2>1, <2>2 DEF TypeOK, Procs
  <2>4. procs[cmd].bin = disk.proxy /\ (Lone => procs[cmd].st # "term")
    BY <2>1, <2>2 DEF ServesInv, ServesAt
  <2>5. CASE Lone /\ Here.prompt
    <3>1. procs[cmd].st = "up"
      BY <2>2, <2>4, <2>5 DEF Settled
    <3> QED BY <2>1, <2>3, <2>4, <3>1 DEF PortInv
  <2>6. CASE DeployScene
    <3>1. procs[port].st \in {"up", "term"} /\ mgr.st = "up" /\ mgr.inc = 1
      BY <2>1, <2>2, <2>6 DEF PortInv, OrderlyInv, ProxyOnlyInv, DeployScene, ServesInv, SceneInv
    <3>2. procs[port].own = mgr.inc /\ Alive(port)
      BY <2>1, <2>3, <2>6, <3>1 DEF ServesInv, SceneInv, Alive
    <3>3. cmd = port
      BY <2>1, <2>3, <3>1, <3>2 DEF ChildInv, OneChild
    <3> QED BY <2>4, <3>3
  <2> QED BY <2>5, <2>6 DEF DeploysAlone
<1>2. DeploysAlone /\ [Next]_vars => DeploysAlone'
  BY DEF Next, vars, DeploysAlone, DeployScene, ProxyOnly, Lone, Here
<1>3. DeployedServes <=> [][A]_vars
  BY DEF DeployedServes
<1> QED BY <1>1, <1>2, <1>3, DeployAlways, PTL DEF Spec
=============================================================================
