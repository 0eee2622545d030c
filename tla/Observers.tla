----------------------------- MODULE Observers -----------------------------
(***************************************************************************)
(* From a status report to the operator's phone: machine.Tracker fans every *)
(* observed status out to the Service's observer goroutine, which feeds the *)
(* run history and the attention monitor; the monitor publishes changes,    *)
(* and the notification dispatcher sends them.  Logged lines reach the run  *)
(* history on a goroutine of their own.  Each channel is bounded and drops  *)
(* what does not fit.                                                       *)
(***************************************************************************)
EXTENDS RunHistory

CONSTANTS
    LastLine,     \* lines of a program
    StatusCap,    \* capacity of a tracker subscription
    ChangeCap,    \* capacity of a monitor subscription
    DeliveryCap,  \* deliveries retained
    SendResolved, \* -notify-resolved
    InStep,       \* the two observer goroutines keep in step: reports are read
                  \* before the next play, a play line before its run's end is
    Scenes,       \* sets of bounds, one of which a behaviour has: [notify, the
                  \* kinds of requests, how many requests and how many programs,
                  \* the file that was active when the service stopped]
    MaxHolds      \* bound: pauses and alarms that the program does not contain

Requests == {"clear", "export", "import", "select", "test"}
Bounds == [notify : BOOLEAN, requests : SUBSET Requests, ops : Nat, jobs : Nat, path : Paths]

ASSUME ObserversAssumption ==
    /\ {LastLine, StatusCap, ChangeCap, DeliveryCap} \subseteq Nat \ {0}
    /\ MaxHolds \in Nat
    /\ Scenes \subseteq Bounds
    /\ {SendResolved, InStep} \subseteq BOOLEAN

VARIABLES
    scene,        \* the scene of this behaviour; notify: ntfy is configured
    fw,           \* the machine: [state, file, line, job, holds]
    path,         \* store.ActiveGcodePath
    statusQ,      \* the observer's subscription to the tracker
    lineQ,        \* its subscription to the log: the files of play lines
    hist,         \* runhistory.History
    backup,       \* an exported run history
    meta,         \* attentionMeta*
    att,          \* attention.Monitor: [events, next, active, last]
    changeQ,      \* the dispatcher's subscription
    disp,         \* notifications.Dispatcher: [seen, deliveries, next, sending,
                  \* and of main: whether it has subscribed, and is to replay]
    tests,        \* deliveries of SendTest in progress
    gone,         \* events whose opening the full subscription dropped
    ops           \* requests made

vars == <<scene, fw, path, statusQ, lineQ, hist, backup, meta, att, changeQ, disp, tests, gone, ops>>
observed == <<statusQ, lineQ, hist, backup, meta, att, changeQ, disp, tests, gone>>

Kinds == {"tool_change", "rotary_index", "pause", "wait", "hold", "alarm"}
Events == [id : Nat, kind : Kinds, state : States, active : BOOLEAN, prog : Int,
           marker : Nat \cup {None}, job : Nat]
Monitors == [events : Seq(Events), next : Nat, active : Nat, last : States]
Changes == [kind : {"opened", "updated", "resolved"}, event : Events]
Players == [state : States, file : Paths, line : 0 .. LastLine, job : Nat, holds : Nat]
Statuses == [state : States, prog : Int, job : Nat]
Deliveries == [id : Nat, kind : {"opened", "resolved", "test"}, event : Nat,
               state : {"sending", "done"}]
Dispatchers == [seen : SUBSET ({"opened", "resolved"} \X Nat), deliveries : Seq(Deliveries),
                next : Nat, sending : Nat \cup {None}, listens : BOOLEAN, replay : BOOLEAN]

Init ==
    /\ scene \in Scenes
    /\ fw = [state |-> "Idle", file |-> None, line |-> 0, job |-> 0, holds |-> 0]
    /\ path = scene.path
    /\ statusQ = <<>> /\ lineQ = <<>>
    /\ hist = NewHistory /\ backup = <<>>
    /\ meta = NewMeta
    /\ att = [events |-> <<>>, next |-> 1, active |-> 0, last |-> "Unknown"]
    /\ changeQ = <<>>
    /\ disp = [seen |-> {}, deliveries |-> <<>>, next |-> 1, sending |-> None,
               listens |-> FALSE, replay |-> FALSE]
    /\ tests = {} /\ gone = {} /\ ops = 0

-----------------------------------------------------------------------------
(* The machine, as its status shows it: a program goes Tool (a change at its *)
(* start), Run, Wait at the line after a marker, and Idle at its end.        *)

\* A play command: the line is logged, the player starts.
Play(f) ==
    /\ fw.state = "Idle" /\ fw.job < scene.jobs
    /\ InStep => statusQ = <<>>
    /\ \E state \in {"Tool", "Run"} :
         fw' = [fw EXCEPT !.state = state, !.file = f, !.line = 0, !.job = @ + 1]
    /\ lineQ' = Append(lineQ, f)
    /\ UNCHANGED <<path, statusQ, hist, backup, meta, att, changeQ, disp, tests, gone, ops>>

\* The player goes on, by itself from Run and with the operator's help from a pause.
Proceed ==
    /\ fw.file # None
    /\ \/ fw.state # "Run" /\ fw' = [fw EXCEPT !.state = "Run"]
       \/ /\ fw.state = "Run" /\ fw.line = LastLine
          /\ fw' = [fw EXCEPT !.state = "Idle", !.file = None, !.line = 0]
       \/ /\ fw.state = "Run" /\ fw.line < LastLine
          /\ fw' = [fw EXCEPT !.line = @ + 1,
                 !.state = IF \E i \in DOMAIN Markers[fw.file] : Markers[fw.file][i] = fw.line + 1
                           THEN "Wait" ELSE "Run"]
    /\ UNCHANGED <<path, observed, ops>>

\* The operator pauses, the machine halts, or the alarm is cleared.
Interrupt ==
    /\ \/ /\ fw.state = "Run" /\ fw.file # None /\ fw.line > 0 /\ fw.holds < MaxHolds
          /\ \/ \E s \in {"Pause", "Hold"} : fw' = [fw EXCEPT !.state = s, !.holds = @ + 1]
             \/ fw' = [fw EXCEPT !.state = "Alarm", !.file = None, !.line = 0, !.holds = @ + 1]
       \/ fw.state = "Alarm" /\ fw' = [fw EXCEPT !.state = "Idle"]
    /\ UNCHANGED <<path, observed, ops>>

-----------------------------------------------------------------------------
(* Tracker                                                                   *)

\* Tracker.ObserveStatusPayload and publishLocked: a full subscription misses it
Observe ==
    /\ LET st == [state |-> fw.state, job |-> fw.job,
                  prog |-> IF fw.file = None THEN NoProgress ELSE fw.line]
       IN  statusQ' = IF Len(statusQ) < StatusCap THEN Append(statusQ, st) ELSE statusQ
    /\ UNCHANGED <<fw, path, lineQ, hist, backup, meta, att, changeQ, disp, tests, gone, ops>>

(* The attention monitor: an operator of the state gives the next state and  *)
(* the changes published.                                                    *)

\* kindForStatus; "" when the state asks for nobody
KindFor(state, marker) ==
    IF marker # None /\ state \in Paused THEN "rotary_index"
    ELSE CASE state = "Tool" -> "tool_change" [] state = "Pause" -> "pause"
           [] state = "Wait" -> "wait" [] state = "Hold" -> "hold"
           [] state = "Alarm" -> "alarm" [] OTHER -> ""

\* continuesEpisode
Continues(event, state, kind) ==
    /\ "alarm" \notin {event.kind, kind}
    /\ CASE event.kind = "rotary_index" -> state \in Paused
         [] event.kind = "tool_change" -> state \in Paused \cup {"Tool"}
         [] OTHER -> {event.state, state} \subseteq Paused \cup {"Hold"}

\* updateActiveLocked: a marker that arrives later explains the pause
Explained(event, marker) ==
    IF event.marker = None /\ marker # None
    THEN [event EXCEPT !.marker = marker, !.kind = "rotary_index"] ELSE event

\* Monitor.ObserveStatus
MonitorStatus(m, st, marker) ==
    LET kind == KindFor(st.state, marker)
        now == m.events[m.active]
        same == Explained(now, marker)
        next == Explained([now EXCEPT !.state = st.state,
                              !.kind = IF kind = "rotary_index" THEN kind ELSE @], marker)
        over == [now EXCEPT !.active = FALSE]
        resolved == IF m.active = 0 THEN m.events ELSE [m.events EXCEPT ![m.active] = over]
        closing == IF m.active = 0 THEN <<>> ELSE <<[kind |-> "resolved", event |-> over]>>
        opened == [id |-> m.next, kind |-> kind, state |-> st.state, active |-> TRUE,
                   prog |-> st.prog, marker |-> marker, job |-> st.job]
        events == Newest(Append(resolved, opened), EventCap)
    IN  IF st.state = m.last
        THEN IF m.active = 0 \/ same = now THEN [m |-> m, changes |-> <<>>]
             ELSE [m |-> [m EXCEPT !.events[m.active] = same],
                   changes |-> <<[kind |-> "updated", event |-> same]>>]
        ELSE IF m.active # 0 /\ kind # "" /\ Continues(now, st.state, kind)
        THEN [m |-> [m EXCEPT !.events[m.active] = next, !.last = st.state],
              changes |-> <<[kind |-> "updated", event |-> next]>>]
        ELSE IF kind = ""
        THEN [m |-> [m EXCEPT !.events = resolved, !.active = 0, !.last = st.state],
              changes |-> closing]
        ELSE [m |-> [events |-> events, next |-> m.next + 1, active |-> Len(events),
                     last |-> st.state],
              changes |-> Append(closing, [kind |-> "opened", event |-> opened])]

\* Monitor.publishLocked, for each change in turn
Accepted(changes) ==
    SubSeq(changes, 1, LET room == ChangeCap - Len(changeQ)
                       IN  IF Len(changes) < room THEN Len(changes) ELSE room)

Publish(changes) ==
    IF ~disp.listens THEN UNCHANGED <<changeQ, gone>>
    ELSE /\ changeQ' = changeQ \o Accepted(changes)
         /\ gone' = gone \cup {changes[i].event.id : i \in
                {j \in DOMAIN changes : changes[j].kind = "opened" /\ j > Len(Accepted(changes))}}

\* The observer goroutine takes a status (its other two calls are ActiveJob's).
ObserveStatus ==
    /\ statusQ # <<>>
    /\ InStep /\ EndsRun(Head(statusQ).state) => lineQ = <<>>
    /\ statusQ' = Tail(statusQ)
    /\ LET st == Head(statusQ)
           ctx == AttentionContext(meta, path, st)
           seen == MonitorStatus(att, st, ctx.marker)
       IN  /\ hist' = HistoryStatus(hist, st)
           /\ meta' = ctx.meta
           /\ att' = seen.m
           /\ Publish(seen.changes)
    /\ UNCHANGED <<fw, path, lineQ, backup, disp, tests, ops>>

\* The log goroutine takes a line.
ObserveLine ==
    /\ lineQ # <<>>
    /\ lineQ' = Tail(lineQ)
    /\ hist' = HistoryLine(hist, Head(lineQ))
    /\ UNCHANGED <<fw, path, statusQ, backup, meta, att, changeQ, disp, tests, gone, ops>>

\* pendingFileHintMaxAge passes
HintAges ==
    /\ hist.fresh
    /\ hist' = [hist EXCEPT !.fresh = FALSE]
    /\ UNCHANGED <<fw, path, statusQ, lineQ, backup, meta, att, changeQ, disp, tests, gone, ops>>

-----------------------------------------------------------------------------
(* Requests                                                                  *)

ClearRunHistory ==
    /\ hist' = NewHistory
    /\ UNCHANGED <<path, statusQ, lineQ, backup, meta, att, changeQ, disp, tests, gone>>

ExportBackup ==
    /\ backup' = hist.runs
    /\ UNCHANGED <<path, statusQ, lineQ, hist, meta, att, changeQ, disp, tests, gone>>

\* Replace leaves out short motions that no program explains, which the runs
\* without a file may be; the others stay, in their order.
ImportBackup ==
    /\ \E n \in 0 .. Len(backup) : \E at \in [1 .. n -> DOMAIN backup] :
         /\ \A i, j \in 1 .. n : i < j => at[i] < at[j]
         /\ \A k \in DOMAIN backup : backup[k].active \/ backup[k].file # None
                                      => \E i \in 1 .. n : at[i] = k
         /\ hist' = HistoryReplace(hist, [i \in 1 .. n |-> backup[at[i]]])
    /\ UNCHANGED <<path, statusQ, lineQ, backup, meta, att, changeQ, disp, tests, gone>>

\* The active file is selected, or reported by the machine.
SetActivePath(f) ==
    /\ path' = f
    /\ UNCHANGED observed

\* Dispatcher.beginDelivery
Begun(d, kind, event) ==
    [d EXCEPT !.deliveries = Newest(Append(@,
                  [id |-> d.next, kind |-> kind, event |-> event, state |-> "sending"]), DeliveryCap),
              !.next = @ + 1]

\* Dispatcher.finishDelivery, sent or failed; the record may have left the
\* history, and nothing is tried again.
Finished(d, id) ==
    [d EXCEPT !.deliveries = [i \in DOMAIN @ |->
        IF @[i].id = id THEN [@[i] EXCEPT !.state = "done"] ELSE @[i]]]

SendTest ==
    /\ disp' = Begun(disp, "test", 0)
    /\ tests' = tests \cup {disp.next}
    /\ UNCHANGED <<path, statusQ, lineQ, hist, backup, meta, att, changeQ, gone>>

Request ==
    /\ ops < scene.ops
    /\ ops' = ops + 1
    /\ UNCHANGED fw
    /\ \/ "clear" \in scene.requests /\ ClearRunHistory
       \/ "export" \in scene.requests /\ ExportBackup
       \/ "import" \in scene.requests /\ ImportBackup
       \/ "test" \in scene.requests /\ SendTest
       \/ "select" \in scene.requests /\ \E f \in Files : SetActivePath(f)

TestReturns ==
    /\ \E id \in tests :
         /\ disp' = Finished(disp, id)
         /\ tests' = tests \ {id}
    /\ UNCHANGED <<fw, path, statusQ, lineQ, hist, backup, meta, att, changeQ, gone, ops>>

-----------------------------------------------------------------------------
(* The dispatcher                                                            *)

\* suppressInitialToolChange
Suppressed(event) == event.kind = "tool_change" /\ event.prog = 0

\* Mutant: a change that was seen is sent again.
HandleAgain(change) ==
    IF change.kind = "updated" \/ Suppressed(change.event) \/ (change.kind = "resolved" /\ ~SendResolved)
    THEN disp
    ELSE [Begun(disp, change.kind, change.event.id) EXCEPT !.sending = disp.next]

\* Handle, up to the provider call
Handle(change) ==
    LET key == <<change.kind, change.event.id>> IN
    IF \/ change.kind = "updated"
       \/ Suppressed(change.event)
       \/ change.kind = "resolved" /\ ~SendResolved
       \/ key \in disp.seen
    THEN disp
    ELSE [Begun(disp, change.kind, change.event.id) EXCEPT !.sending = disp.next,
                                                           !.seen = @ \cup {key}]

\* main subscribes, and then replays the event that is already active.
Subscribe ==
    /\ scene.notify
    /\ ~disp.listens
    /\ disp' = [disp EXCEPT !.listens = TRUE, !.replay = TRUE]
    /\ gone' = gone \cup {e.id : e \in {att.events[i] : i \in {att.active} \ {0}}}
    /\ UNCHANGED <<fw, path, statusQ, lineQ, hist, backup, meta, att, changeQ, tests, ops>>

Replay ==
    /\ disp.replay
    /\ LET ready == IF att.active = 0 THEN disp
                    ELSE Handle([kind |-> "opened", event |-> att.events[att.active]])
       IN  disp' = [ready EXCEPT !.replay = FALSE]
    /\ UNCHANGED <<fw, path, statusQ, lineQ, hist, backup, meta, att, changeQ, tests, gone, ops>>

\* Dispatcher.Run takes a change
Dispatch ==
    /\ disp.listens /\ ~disp.replay /\ disp.sending = None
    /\ changeQ # <<>>
    /\ disp' = Handle(Head(changeQ))
    /\ changeQ' = Tail(changeQ)
    /\ UNCHANGED <<fw, path, statusQ, lineQ, hist, backup, meta, att, tests, gone, ops>>

\* The provider answers, or times out.
SendReturns ==
    /\ disp.sending # None
    /\ disp' = [Finished(disp, disp.sending) EXCEPT !.sending = None]
    /\ UNCHANGED <<fw, path, statusQ, lineQ, hist, backup, meta, att, changeQ, tests, gone, ops>>

-----------------------------------------------------------------------------
Step ==
    \/ \E f \in Files : Play(f)
    \/ Proceed \/ Interrupt
    \/ Observe \/ ObserveStatus \/ ObserveLine \/ HintAges
    \/ Request \/ TestReturns
    \/ Subscribe \/ Replay \/ Dispatch \/ SendReturns

Next == Step /\ UNCHANGED scene

Spec == Init /\ [][Next]_vars

Fairness ==
    /\ WF_vars(Observe /\ UNCHANGED scene) /\ WF_vars(ObserveStatus /\ UNCHANGED scene) /\ WF_vars(ObserveLine /\ UNCHANGED scene)
    /\ WF_vars(Subscribe /\ UNCHANGED scene) /\ WF_vars(Replay /\ UNCHANGED scene) /\ WF_vars(Dispatch /\ UNCHANGED scene) /\ WF_vars(SendReturns /\ UNCHANGED scene)

LiveSpec == Spec /\ Fairness


-----------------------------------------------------------------------------
(* Properties                                                                *)

\* TypeOK: each component keeps its type.
TypeOK ==
    /\ scene \in Scenes
    /\ fw \in Players
    /\ path \in Paths
    /\ statusQ \in Seq(Statuses) /\ Len(statusQ) <= StatusCap
    /\ lineQ \in Seq(Files)
    /\ hist \in Histories /\ backup \in Seq(Runs) /\ meta \in Metas
    /\ att \in Monitors
    /\ changeQ \in Seq(Changes) /\ Len(changeQ) <= ChangeCap
    /\ disp \in Dispatchers
    /\ tests \subseteq Nat /\ gone \subseteq Nat /\ ops \in Nat

\* runhistory: whatever is observed, cleared, exported and imported, at most
\* one run is active, it is the newest and the one new reports go to, a run
\* has an end state exactly when it is over, and no two have the same ID.
HistoryShape ==
    /\ Len(hist.runs) <= HistoryCap
    /\ \A i \in DOMAIN hist.runs :
         /\ hist.runs[i].active <=> i = hist.active
         /\ hist.runs[i].active => i = Len(hist.runs)
         /\ hist.runs[i].active <=> hist.runs[i].end = None
         /\ hist.runs[i].id < hist.next
         /\ \A j \in 1 .. i - 1 : hist.runs[j].id < hist.runs[i].id

\* startsRunLocked, endsRun: pauses, holds and tool changes do not split one
\* execution of a program into two runs, as long as the observers keep in step.
OneRunPerJob ==
    \A i, j \in DOMAIN hist.runs :
        i # j /\ hist.runs[i].job = hist.runs[j].job => hist.runs[i].job = 0

\* The run history is well formed, the active run last, and as long as the
\* observers keep in step no job has two runs (runhistory.History).
RunsFollowJobs == HistoryShape /\ (InStep => OneRunPerJob)

\* Monitor: an event is active exactly while the last state seen needs a
\* person, it shows that state, and every other event is resolved.
EpisodeTracksState ==
    /\ att.active # 0 <=> KindFor(att.last, None) # ""
    /\ att.active # 0 => att.events[att.active].state = att.last
    /\ \A i \in DOMAIN att.events : att.events[i].active <=> i = att.active

\* selectAttentionMarker: a marker explains one pause of a program, and the
\* markers of later pauses come later in the file.
MarkersGoForward ==
    \A i, j \in DOMAIN att.events :
        /\ i < j /\ att.events[i].job = att.events[j].job
        /\ att.events[i].marker # None /\ att.events[j].marker # None
        => att.events[i].marker < att.events[j].marker

\* ... as long as no other file is selected meanwhile: the markers of a file
\* that is selected anew are read from the start (attentionContext).
MarkerExplainsOnePause == "select" \notin scene.requests => MarkersGoForward

\* markSeen "closes the startup race between subscribing and replaying an
\* active event": nobody is notified twice of the same change.
NotifiedOnce ==
    \A i, j \in DOMAIN disp.deliveries :
        /\ disp.deliveries[i].kind # "test" /\ i # j
        /\ disp.deliveries[i].event = disp.deliveries[j].event
        => disp.deliveries[i].kind # disp.deliveries[j].kind

\* "attention cleared" is sent only for an episode whose opening was announced
\* (or did not fit the subscription).
ResolvedAfterOpened ==
    \A k \in disp.seen :
        k[1] = "resolved" => <<"opened", k[2]>> \in disp.seen \/ k[2] \in gone

\* The delivery history shows an attempt as in progress only while it is.
NoDeliveryStuck ==
    \A i \in DOMAIN disp.deliveries :
        disp.deliveries[i].state = "sending"
            => disp.deliveries[i].id \in tests \cup {disp.sending}

\* A pause that needs a person is one event, explained by a marker of its own,
\* and sent once, whatever statuses and changes are dropped on the way from
\* the tracker through the monitor to the dispatcher.
EpisodesToldOnce ==
    EpisodeTracksState /\ MarkerExplainsOnePause /\ NotifiedOnce /\ NoDeliveryStuck

\* A machine that stays idle is shown as such: no run stays active and no
\* attention stays open, whatever was dropped on the way.
SettlesWhenIdle == <>[](fw.state = "Idle") => <>[](hist.active = 0 /\ att.active = 0)

=============================================================================
