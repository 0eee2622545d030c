---------------------------- MODULE ActiveGcode -----------------------------
(***************************************************************************)
(* The selected program (internal/service/active_gcode.go): the path kept   *)
(* in the store, the parsed preview kept in memory, the requests that read  *)
(* and change them, and the probe that asks the machine which file it is    *)
(* playing.                                                                 *)
(*                                                                          *)
(* Store and preview have a lock each and no request holds both, except for *)
(* the moment a parse is published, so a request is cut at every access to  *)
(* one of them.  Three requests of different kinds may overlap: a           *)
(* selection, a read (the snapshot, or a window of segments or source       *)
(* lines) and a run.  A preview is the version of the file it was parsed    *)
(* from.                                                                    *)
(***************************************************************************)
EXTENDS Naturals, Sequences, FiniteSets

CONSTANTS
    Files,         \* the remote paths
    Program,       \* what the lines of each file say: m 0, 3, 4 or 5; s Silent or a speed
    Silent,        \* no S word
    None,
    MaxVersion,    \* bound: contents a file goes through
    Scenes         \* bounds.  A scene says which requests and faults happen and how many,
                   \* how many jobs of which files, what is cached and selected at the start, whether the
                   \* machine can be asked for its file, and whether the execution context
                   \* (and with it the lines of the programs) takes part.

VARIABLES
    scene,         \* the bounds that are left
    fw,            \* the machine: state, the file it plays, the line, the spindle
    onMachine,     \* the version of each file on the machine, 0 for none
    entries,       \* the catalog
    stored,        \* the store's ActiveGcodePath
    active,        \* activeGcode: path and preview
    select,        \* a SelectActiveGcode in progress
    get,           \* an ActiveGcode or a window request in progress
    answer,        \* what the last read answered
    launch,        \* a RunActiveGcode in progress
    probe,         \* the activeProbe flags
    task,          \* loadActiveGcodeFromMachine, in a goroutine of its own
    status,        \* a status report on its way to the observers
    own            \* auxiliary: the file of the last selection, while nothing else touched it

selectVars == <<active, select, get, answer, launch, own>>
probeVars == <<probe, task>>
activeVars == <<scene, fw, onMachine, entries, stored, active, select, get, answer, launch,
                probe, task, status, own>>

Paths == Files \cup {None}
Versions == 0 .. MaxVersion
NoActive == [path |-> None, ver |-> 0]
Actives == [path : Paths, ver : Versions]

Playing == {"Run", "Pause"}
States == {"Idle"} \cup Playing
Directions == {0, 3, 4}
Lines(f) == Len(Program[f])
Words == [m : {0, 3, 4, 5}, s : Nat]

ASSUME ActiveAssumption ==
    /\ MaxVersion \in Nat \ {0}
    /\ None \notin Files
    /\ Silent \in Nat
    /\ \A f \in Files : Program[f] \in Seq(Words)

Requests == {"select", "get", "window", "run", "upload", "delete", "fail", "crash",
             "api", "controller", "pause"}
CacheStates == {"none", "validating", "ready"}
Bounds == [requests : SUBSET Requests, ops : Nat, jobs : Nat, playStatus : BOOLEAN,
           words : SUBSET Words, cache : [Files -> CacheStates], stored : Paths,
           probe : BOOLEAN, context : BOOLEAN, files : SUBSET Files, ticks : BOOLEAN]

\* The lines of a program do not change in a scene in which they matter.
ASSUME ScenesAssumption ==
    /\ Scenes \subseteq Bounds
    /\ \A sc \in Scenes : sc.context => "upload" \notin sc.requests

Speeds == (UNION {{Program[f][n].s : n \in 1 .. Lines(f)} : f \in Files}) \ {Silent}

NoEntry == [known |-> FALSE, sync |-> "remote_only", cache |-> "none", ver |-> 0]
Entries == [known : BOOLEAN, sync : {"remote_only", "synced", "pending_upload"},
            cache : CacheStates, ver : Versions]

NoSelect == [pc |-> "idle", path |-> None, ver |-> 0]
NoGet == [pc |-> "idle", window |-> FALSE, mem |-> NoActive, path |-> None, ver |-> 0]
GetPCs == {"idle", "ensure", "active", "stored", "entry", "parse", "publish", "clear",
           "clearCheck", "clearStore", "reread"}
Answers == [kind : {"none", "snapshot", "window"}, path : Paths, ver : Versions,
            preview : Versions]
NoTask == [pc |-> "idle", path |-> None, md5 |-> 0, loaded |-> FALSE, verified |-> FALSE]

Stopped == [state |-> "Idle", file |-> None, line |-> 0, dir |-> 0, rpm |-> 0, s |-> 0, job |-> 0]

Machines == [state : States, file : Paths, line : Nat, dir : Directions,
             rpm : {0} \cup Speeds, s : {0} \cup Speeds, job : {0, 1}]
Probes == [inFlight : BOOLEAN, loaded : BOOLEAN, recent : BOOLEAN, unsupported : BOOLEAN]
Tasks == [pc : {"idle", "query", "report", "record", "cache", "done"}, path : Paths,
          md5 : Versions, loaded : BOOLEAN, verified : BOOLEAN]

\* A request that is past its first look at the selection has a file in hand.
ActiveTypeOK ==
    /\ scene \in Bounds
    /\ fw \in Machines
    /\ fw.state \in Playing <=> fw.file # None
    /\ onMachine \in [Files -> Versions]
    /\ entries \in [Files -> Entries]
    /\ stored \in Paths
    /\ active \in Actives
    /\ select \in [pc : {"idle", "store", "publish"}, path : Paths, ver : Versions]
    /\ get \in [pc : GetPCs, window : BOOLEAN, mem : Actives, path : Paths, ver : Versions]
    /\ answer \in Answers
    /\ launch \in [pc : {"idle", "send"}, path : Paths]
    /\ select.pc # "idle" => select.path # None
    /\ get.pc \notin {"idle", "ensure", "active", "stored", "reread"} => get.path # None
    /\ launch.pc # "idle" => launch.path # None
    /\ task.pc \in {"report", "record", "cache"} => task.path # None
    /\ probe \in Probes /\ task \in Tasks
    /\ probe.inFlight <=> task.pc # "idle"
    /\ own \in Paths

ActiveInit ==
    /\ scene \in Scenes
    /\ fw = Stopped
    /\ onMachine = [f \in Files |-> 1]
    /\ entries \in [Files -> {NoEntry,
                       [known |-> TRUE, sync |-> "remote_only", cache |-> "none", ver |-> 1],
                       [known |-> TRUE, sync |-> "synced", cache |-> "validating", ver |-> 1],
                       [known |-> TRUE, sync |-> "synced", cache |-> "ready", ver |-> 1]}]
    /\ [f \in Files |-> entries[f].cache] = scene.cache
    /\ \A f \in Files : scene.cache[f] = "none" => entries[f].known
    /\ stored = scene.stored /\ active = NoActive
    /\ select = NoSelect /\ get = NoGet /\ launch = [pc |-> "idle", path |-> None]
    /\ answer = [kind |-> "none", path |-> None, ver |-> 0, preview |-> 0]
    /\ probe = [inFlight |-> FALSE, loaded |-> FALSE, recent |-> FALSE,
                unsupported |-> ~scene.probe]
    /\ task = NoTask
    /\ status = None
    /\ own = None

Spend(what) ==
    /\ what \in scene.requests /\ scene.ops > 0
    /\ scene' = [scene EXCEPT !.ops = @ - 1]

-----------------------------------------------------------------------------
(* The machine (external).  Its player runs the file line by line and keeps *)
(* the modal spindle words.                                                 *)

\* The effect of a line's words on a spindle state with fields dir, rpm, s.
Spoken(sp, w) ==
    LET s == IF w.s = Silent THEN sp.s ELSE w.s
        dir == IF w.m \in {3, 4} THEN w.m ELSE sp.dir
        on == IF w.m \in {3, 4} THEN TRUE ELSE w.m # 5 /\ sp.rpm > 0
    IN  [sp EXCEPT !.s = s, !.dir = dir, !.rpm = IF on THEN s ELSE 0]

\* The machine takes a play command for a file it has, while it is idle.
CanBegin(f) == fw.state = "Idle" /\ onMachine[f] > 0 /\ f \in scene.files /\ scene.jobs > 0

Begin(f) ==
    /\ CanBegin(f)
    /\ fw' = [fw EXCEPT !.state = "Run", !.file = f, !.line = 0, !.job = 1 - @]
    /\ scene' = [scene EXCEPT !.jobs = @ - 1]

\* A job started at the controller.
Play(f) ==
    /\ Begin(f)
    /\ UNCHANGED <<onMachine, entries, stored, selectVars, probeVars, status>>

PlayLine ==
    /\ fw.state = "Run"
    /\ \/ /\ fw.line < Lines(fw.file) /\ scene.context
          /\ fw' = Spoken([fw EXCEPT !.line = @ + 1], Program[fw.file][fw.line + 1])
       \/ /\ fw.line = Lines(fw.file) \/ ~scene.context
          /\ fw' = [fw EXCEPT !.state = "Idle", !.file = None, !.line = 0, !.rpm = 0]
    /\ UNCHANGED <<scene, onMachine, entries, stored, selectVars, probeVars, status>>

PauseResume ==
    /\ fw.state \in Playing /\ "pause" \in scene.requests
    /\ fw' = [fw EXCEPT !.state = IF @ = "Run" THEN "Pause" ELSE "Run"]
    /\ UNCHANGED <<scene, onMachine, entries, stored, selectVars, probeVars, status>>

-----------------------------------------------------------------------------
(* The catalog (modelled in full by FileSync).                              *)

Upload(f) ==
    /\ Spend("upload")
    /\ entries[f].ver < MaxVersion
    /\ entries' = [entries EXCEPT ![f] = [known |-> TRUE, sync |-> "pending_upload",
                                          cache |-> "ready", ver |-> @.ver + 1]]
    /\ UNCHANGED <<fw, onMachine, stored, selectVars, probeVars, status>>

Uploaded(f) ==
    /\ entries[f].sync = "pending_upload" /\ fw.state = "Idle"
    /\ entries' = [entries EXCEPT ![f].sync = "synced"]
    /\ onMachine' = [onMachine EXCEPT ![f] = entries[f].ver]
    /\ UNCHANGED <<scene, fw, stored, selectVars, probeVars, status>>

Deleted(f) ==
    /\ Spend("delete")
    /\ entries[f].known /\ fw.state = "Idle"
    /\ entries' = [entries EXCEPT ![f] = NoEntry]
    /\ onMachine' = [onMachine EXCEPT ![f] = 0]
    /\ own' = IF own = f THEN None ELSE own
    /\ UNCHANGED <<fw, stored, active, select, get, answer, launch, probeVars, status>>

\* What ReadCache gives: a version, or 0 when there is nothing ready.
ReadCache(f) == IF entries[f].known /\ entries[f].cache = "ready" THEN entries[f].ver ELSE 0

\* FetchToCache commits only over an entry that is still remote_only.
Fetched(f) ==
    IF entries[f].known /\ entries[f].sync = "remote_only"
    THEN [entries EXCEPT ![f] = [@ EXCEPT !.sync = "synced", !.cache = "ready",
                                          !.ver = onMachine[f]]]
    ELSE entries

-----------------------------------------------------------------------------
(* SelectActiveGcode.                                                       *)

\* Open serves the cache or, when the machine is idle, downloads.
SelectOpen(f) ==
    /\ select.pc = "idle" /\ Spend("select")
    /\ entries[f].known
    /\ \/ ReadCache(f) > 0 /\ entries' = entries
       \/ /\ entries[f].cache = "none" /\ entries[f].sync = "remote_only"
          /\ fw.state = "Idle" /\ onMachine[f] > 0
          /\ entries' = Fetched(f)
    /\ select' = [pc |-> "store", path |-> f, ver |-> entries'[f].ver]
    /\ UNCHANGED <<fw, onMachine, stored, active, get, answer, launch, own, probeVars, status>>

SelectStore ==
    /\ select.pc = "store"
    /\ stored' = select.path
    /\ own' = None
    /\ select' = [select EXCEPT !.pc = "publish"]
    /\ UNCHANGED <<scene, fw, onMachine, entries, active, get, answer, launch, probeVars, status>>

SelectPublish ==
    /\ select.pc = "publish"
    /\ active' = [path |-> select.path, ver |-> select.ver]
    /\ own' = IF /\ stored = select.path /\ entries[select.path].known
                 /\ ~(get.pc = "clear" /\ get.path = select.path)
              THEN select.path ELSE None
    /\ select' = NoSelect
    /\ UNCHANGED <<scene, fw, onMachine, entries, stored, get, answer, launch, probeVars, status>>

-----------------------------------------------------------------------------
(* ActiveGcode, activeGcodeFromStoredPath, clearActiveGcode, and the window *)
(* requests, which make sure that the preview is loaded first.              *)

Start(window) ==
    /\ get.pc = "idle"
    /\ Spend(IF window THEN "window" ELSE "get")
    /\ get' = [NoGet EXCEPT !.pc = IF window THEN "ensure" ELSE "active", !.window = window]
    /\ UNCHANGED <<fw, onMachine, entries, stored, active, select, answer, launch, own,
                   probeVars, status>>

\* The snapshot is answered; a window request goes on to read the preview again.
Answer(path, ver, preview) ==
    IF get.window
    THEN get' = [get EXCEPT !.pc = "reread"] /\ answer' = answer
    ELSE get' = NoGet /\ answer' = [kind |-> "snapshot", path |-> path, ver |-> ver,
                                    preview |-> preview]

Window(a) ==
    /\ get' = NoGet
    /\ answer' = [kind |-> "window", path |-> a.path, ver |-> 0, preview |-> a.ver]

Unselected == Answer(None, 0, 0)

\* ensureActiveGcodeLoaded reads the path, then the preview.
EnsureStored ==
    /\ get.pc = "ensure" /\ get.path = None /\ get.ver = 0
    /\ get' = [get EXCEPT !.path = stored, !.ver = 1]
    /\ UNCHANGED <<scene, fw, onMachine, entries, stored, active, select, answer, launch, own,
                   probeVars, status>>

EnsureActive ==
    /\ get.pc = "ensure" /\ get.ver = 1
    /\ IF active.path # None /\ active.path = get.path
       THEN Window(active)
       ELSE get' = [NoGet EXCEPT !.pc = "active", !.window = TRUE] /\ answer' = answer
    /\ UNCHANGED <<scene, fw, onMachine, entries, stored, active, select, launch, own,
                   probeVars, status>>

GetActive ==
    /\ get.pc = "active"
    /\ get' = [get EXCEPT !.pc = "stored", !.mem = active]
    /\ UNCHANGED <<scene, fw, onMachine, entries, stored, active, select, answer, launch, own,
                   probeVars, status>>

GetStored ==
    /\ get.pc = "stored"
    /\ \/ /\ stored = None /\ get.mem.path = None
          /\ Unselected
       \/ /\ stored = None /\ get.mem.path # None
          /\ get' = [get EXCEPT !.pc = "clear", !.path = get.mem.path]
          /\ answer' = answer
       \/ /\ stored # None
          /\ get' = [get EXCEPT !.pc = IF get.mem.path = stored THEN "entry" ELSE "parse",
                                !.path = stored]
          /\ answer' = answer
    /\ UNCHANGED <<scene, fw, onMachine, entries, stored, active, select, launch, own,
                   probeVars, status>>

GetEntry ==
    /\ get.pc = "entry"
    /\ IF entries[get.path].known
       THEN Answer(get.path, entries[get.path].ver, get.mem.ver)
       ELSE get' = [get EXCEPT !.pc = "clear"] /\ answer' = answer
    /\ UNCHANGED <<scene, fw, onMachine, entries, stored, active, select, launch, own,
                   probeVars, status>>

GetParse ==
    /\ get.pc = "parse"
    /\ \/ /\ ~entries[get.path].known
          /\ get' = [get EXCEPT !.pc = "clear"] /\ answer' = answer
       \/ /\ ReadCache(get.path) > 0
          /\ get' = [get EXCEPT !.pc = "publish", !.ver = ReadCache(get.path)]
          /\ answer' = answer
       \/ /\ entries[get.path].known /\ ReadCache(get.path) = 0
          /\ Answer(get.path, entries[get.path].ver, 0)
    /\ UNCHANGED <<scene, fw, onMachine, entries, stored, active, select, launch, own,
                   probeVars, status>>

\* Under activeMu, with the store read again.
Published == IF stored = get.path THEN [path |-> get.path, ver |-> get.ver] ELSE active

GetPublish ==
    /\ get.pc = "publish"
    /\ active' = Published
    /\ Answer(get.path, get.ver, get.ver)
    /\ UNCHANGED <<scene, fw, onMachine, entries, stored, select, launch, own, probeVars, status>>

ClearActive ==
    /\ get.pc = "clear"
    /\ active' = IF active.path = get.path THEN NoActive ELSE active
    /\ get' = [get EXCEPT !.pc = "clearCheck"]
    /\ UNCHANGED <<scene, fw, onMachine, entries, stored, select, answer, launch, own,
                   probeVars, status>>

ClearCheck ==
    /\ get.pc = "clearCheck"
    /\ IF stored = get.path
       THEN get' = [get EXCEPT !.pc = "clearStore"] /\ answer' = answer
       ELSE Unselected
    /\ UNCHANGED <<scene, fw, onMachine, entries, stored, active, select, launch, own,
                   probeVars, status>>

ClearStore ==
    /\ get.pc = "clearStore"
    /\ stored' = None
    /\ own' = None
    /\ Unselected
    /\ UNCHANGED <<scene, fw, onMachine, entries, active, select, launch, probeVars, status>>

\* A window is cut from whatever preview is resident by now.
Reread ==
    /\ get.pc = "reread"
    /\ Window(active)
    /\ UNCHANGED <<scene, fw, onMachine, entries, stored, active, select, launch, own,
                   probeVars, status>>

-----------------------------------------------------------------------------
(* RunActiveGcode: the entry is checked, then play is sent to an idle       *)
(* machine.                                                                 *)

runnableGcode(e) == e.known /\ e.sync \in {"synced", "remote_only"}

RunCheck ==
    LET path == IF stored # None THEN stored ELSE active.path
    IN  /\ launch.pc = "idle" /\ Spend("run")
        /\ path # None /\ runnableGcode(entries[path])
        /\ launch' = [pc |-> "send", path |-> path]
        /\ UNCHANGED <<fw, onMachine, entries, stored, active, select, get, answer, own,
                       probeVars, status>>

RunSend ==
    /\ launch.pc = "send"
    /\ \/ Begin(launch.path)
       \/ ~CanBegin(launch.path) /\ UNCHANGED <<fw, scene>>
    /\ launch' = [pc |-> "idle", path |-> None]
    /\ UNCHANGED <<onMachine, entries, stored, active, select, get, answer, own, probeVars, status>>

-----------------------------------------------------------------------------
(* The probe.                                                               *)

stateMayReportActiveGcode(st) == st \in Playing

\* maybeLoadActiveGcodeFromMachine, for one status report.  recent says that
\* the probe interval has not passed since the last attempt.
Probed(st) ==
    IF ~stateMayReportActiveGcode(st.state)
    THEN /\ probe' = [probe EXCEPT !.loaded = FALSE, !.recent = FALSE]
         /\ task' = task
    ELSE IF probe.unsupported \/ probe.loaded \/ probe.inFlight \/ probe.recent
    THEN UNCHANGED probeVars
    ELSE /\ probe' = [probe EXCEPT !.inFlight = TRUE, !.recent = TRUE]
         /\ task' = [NoTask EXCEPT !.pc = "query"]

ProbeInterval ==
    /\ probe.recent
    /\ probe' = [probe EXCEPT !.recent = FALSE]
    /\ UNCHANGED <<scene, fw, onMachine, entries, stored, selectVars, task, status>>

\* The machine names the file it plays, and with PLAY_STATUS its MD5.
TaskQuery ==
    /\ task.pc = "query" /\ fw.file # None
    /\ task' = [task EXCEPT !.pc = "report", !.path = fw.file,
                            !.md5 = IF scene.playStatus THEN onMachine[fw.file] ELSE 0]
    /\ UNCHANGED <<scene, fw, onMachine, entries, stored, selectVars, probe, status>>

\* No answer, no file, or a machine that does not know the command.
TaskQueryFails ==
    /\ task.pc = "query"
    /\ fw.file = None \/ "fail" \in scene.requests
    /\ task' = [task EXCEPT !.pc = "done"]
    /\ \/ probe' = probe
       \/ ~scene.playStatus /\ probe' = [probe EXCEPT !.unsupported = TRUE]
    /\ UNCHANGED <<scene, fw, onMachine, entries, stored, selectVars, status>>

\* setMachineReportedActiveGcode looks at the cache file before its batch.
TaskVerify ==
    /\ task.pc = "report"
    /\ task' = [task EXCEPT !.pc = "record",
                  !.verified = /\ entries[task.path].known
                               /\ task.md5 > 0 /\ entries[task.path].ver = task.md5
                               /\ entries[task.path].cache = "validating"]
    /\ UNCHANGED <<scene, fw, onMachine, entries, stored, selectVars, probe, status>>

Reported(e) ==
    IF ~e.known
    THEN [NoEntry EXCEPT !.known = TRUE, !.ver = task.md5]
    ELSE LET e1 == IF task.md5 > 0 /\ e.sync = "remote_only"
                   THEN [e EXCEPT !.ver = task.md5] ELSE e
         IN  IF task.verified /\ e1.cache = "validating" /\ e1.ver = task.md5
             THEN [e1 EXCEPT !.cache = "ready"] ELSE e1

TaskRecord ==
    /\ task.pc = "record"
    /\ entries' = [entries EXCEPT ![task.path] = Reported(@)]
    /\ stored' = task.path
    /\ own' = None
    /\ task' = [task EXCEPT !.pc = "cache"]
    /\ UNCHANGED <<scene, fw, onMachine, active, select, get, answer, launch, probe, status>>

\* A file that is not cached is downloaded while it plays, if the MD5 agrees.
TaskCache ==
    /\ task.pc = "cache"
    /\ \/ entries' = entries
       \/ /\ ReadCache(task.path) = 0 /\ onMachine[task.path] > 0
          /\ task.md5 \in {0, onMachine[task.path]}
          /\ entries' = Fetched(task.path)
    /\ task' = [task EXCEPT !.pc = "done", !.loaded = TRUE]
    /\ UNCHANGED <<scene, fw, onMachine, stored, selectVars, probe, status>>

\* Mutant: a probe that failed counts as answered.
FinishedLoaded == [probe EXCEPT !.inFlight = FALSE, !.loaded = TRUE]

Finished == [probe EXCEPT !.inFlight = FALSE, !.loaded = @ \/ task.loaded]

TaskDone ==
    /\ task.pc = "done"
    /\ probe' = Finished
    /\ task' = NoTask
    /\ UNCHANGED <<scene, fw, onMachine, entries, stored, selectVars, status>>

-----------------------------------------------------------------------------
Machine == PlayLine \/ PauseResume \/ \E f \in Files : Play(f)

Catalog == \E f \in Files : Upload(f) \/ Uploaded(f) \/ Deleted(f)

Select == SelectStore \/ SelectPublish \/ \E f \in Files : SelectOpen(f)

Get == \/ \E w \in BOOLEAN : Start(w)
       \/ EnsureStored \/ EnsureActive \/ GetActive \/ GetStored \/ GetEntry \/ GetParse
       \/ GetPublish \/ ClearActive \/ ClearCheck \/ ClearStore \/ Reread

RunActive == RunCheck \/ RunSend

Task == TaskQuery \/ TaskQueryFails \/ TaskVerify \/ TaskRecord \/ TaskCache \/ TaskDone

ActiveNext == Machine \/ Catalog \/ Select \/ Get \/ RunActive \/ Task \/ ProbeInterval

-----------------------------------------------------------------------------
(* Properties.                                                              *)

\* What was selected last stays loaded: a read that began before the selection
\* and finishes its parse after it does not put the older program's preview in
\* its place ("Only publish the parse if the selection did not change again
\* while the cache was being read").  A read that has found the file deleted and
\* is about to drop it may still do so.
SelectionStaysLoaded == own # None => active.path = own

\* The probe cannot wedge: a job that is playing while the probe has not yet
\* found its file is identified, whatever queries fail and whatever is
\* uploaded, selected or deleted meanwhile, or it ends.
PlayingFileIsFound ==
    \A f \in Files :
        (fw.file = f /\ ~probe.loaded /\ task.pc = "idle")
            ~> (stored = f \/ fw.file # f \/ probe.unsupported)

\* A window request answers with the program that was selected while it ran.
WindowOfSelection ==
    [][get.pc = "reread" /\ get'.pc = "idle" /\ get.path # None
            => answer'.path \in {None, get.path, stored}]_<<get, answer>>
=============================================================================
