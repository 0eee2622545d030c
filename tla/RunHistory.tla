----------------------------- MODULE RunHistory -----------------------------
(***************************************************************************)
(* Pure parts of the observers: what one status report, or one logged line, *)
(* does to the run history (internal/runhistory) and to the attention       *)
(* monitor (internal/attention), and the choice of the marker that explains *)
(* a pause (internal/service, attentionContext).                            *)
(*                                                                          *)
(* A status is [state, prog, job]: prog is the line the player reports, or  *)
(* NoProgress, and job is a ghost, the number of the execution.             *)
(***************************************************************************)
EXTENDS Integers, Sequences, FiniteSets

CONSTANTS
    Files,        \* paths of G-code files
    None,         \* no path, no marker
    Markers,      \* [Files -> Seq(lines with an attention marker, ascending)]
    HistoryCap,   \* runs retained
    EventCap      \* attention events retained


NoProgress == -1
Paused == {"Pause", "Wait"}
States == {"Unknown", "Idle", "Run", "Hold", "Alarm", "Tool"} \cup Paused
Paths == Files \cup {None}

ASSUME HistoryAssumption ==
    /\ None \notin Files \cup States \cup Nat
    /\ HistoryCap \in Nat \ {0} /\ EventCap \in Nat \ {0}
    /\ \A f \in Files :
         /\ Markers[f] \in Seq(Nat)
         /\ \A i, j \in DOMAIN Markers[f] : i < j => Markers[f][i] < Markers[f][j]

Newest(seq, cap) == IF Len(seq) > cap THEN SubSeq(seq, Len(seq) - cap + 1, Len(seq)) ELSE seq

-----------------------------------------------------------------------------
\* runhistory.History, without the details of a run; active is the index of the active run, or 0
NewHistory == [runs |-> <<>>, next |-> 1, active |-> 0,
               hint |-> None, fresh |-> FALSE]

Runs == [id : Nat, file : Paths, active : BOOLEAN, end : States \cup {None},
         job : Nat]
Histories == [runs : Seq(Runs), next : Nat, active : Nat,
              hint : Paths, fresh : BOOLEAN]

\* Mutant: a pause ends the run.
EndsRunAtPause(state) == state \in {"Idle", "Alarm", "Unknown", "Pause"}

\* Mutant: only an alarm ends a run.
EndsRunAtAlarm(state) == state = "Alarm"

\* endsRun
EndsRun(state) == state \in {"Idle", "Alarm", "Unknown"}

\* startsRunLocked
StartsRun(h, st) ==
    /\ st.state \notin {"Idle", "Unknown"}
    /\ st.prog # NoProgress \/ (h.hint # None /\ h.fresh)

\* startLocked: an old hint is not used
StartRun(h, st) ==
    LET file == IF h.fresh THEN h.hint ELSE None
        run == [id |-> h.next, file |-> file, active |-> TRUE, end |-> None,
                job |-> st.job]
        runs == Newest(Append(h.runs, run), HistoryCap)
    IN  [h EXCEPT !.runs = runs, !.next = @ + 1, !.active = Len(runs), !.hint = file]

\* endLocked
EndRun(h, st) ==
    [h EXCEPT !.runs[h.active].active = FALSE, !.runs[h.active].end = st.state,
              !.active = 0, !.hint = None, !.fresh = FALSE]

\* History.ObserveStatus
HistoryStatus(h, st) ==
    LET started == IF h.active = 0 /\ StartsRun(h, st) THEN StartRun(h, st) ELSE h
    IN  IF started.active # 0 /\ EndsRun(st.state) THEN EndRun(started, st) ELSE started

\* History.ObserveLine, for a play line
HistoryLine(h, file) ==
    LET hinted == [h EXCEPT !.hint = file, !.fresh = TRUE] IN
    IF h.active = 0 \/ h.runs[h.active].file # None THEN hinted
    ELSE [hinted EXCEPT !.runs[h.active].file = file]

\* History.Replace: the run that was active is active again.
HistoryReplace(h, runs) ==
    LET active == {i \in DOMAIN runs : runs[i].active}
        Last(set) == CHOOSE i \in set : \A j \in set : j <= i
    IN  [h EXCEPT !.runs = runs,
                  !.next = IF runs = <<>> THEN 1 ELSE Last({runs[i].id : i \in DOMAIN runs}) + 1,
                  !.active = IF active = {} THEN 0 ELSE Last(active)]

-----------------------------------------------------------------------------
\* Service.attentionMeta*: what is known of the markers of the active file
Metas == [path : Paths, next : Nat, last : States]
NewMeta == [path |-> None, next |-> 1, last |-> "Unknown"]

\* selectAttentionMarker: the last marker the player has passed, from next on;
\* without a line, the next one.  The result is an index, or 0.
SelectMarker(lines, next, prog) ==
    IF next > Len(lines) THEN 0
    ELSE IF prog > 0
         THEN LET passed == {i \in next .. Len(lines) : lines[i] <= prog}
              IN  IF passed = {} THEN 0 ELSE CHOOSE i \in passed : \A j \in passed : j <= i
         ELSE next

\* attentionContext: the markers are read anew for another file and for a run
\* that begins; entering a pause takes one.
AttentionContext(meta, path, st) ==
    LET lines == IF path = None THEN <<>> ELSE Markers[path]
        changed == path # meta.path
        begins == st.state = "Run" /\ EndsRun(meta.last)
        next == IF changed \/ begins THEN 1 ELSE meta.next
        asks == st.state \in Paused /\ (meta.last \notin Paused \/ changed)
        at == IF asks THEN SelectMarker(lines, next, st.prog) ELSE 0
    IN  [meta |-> [path |-> path, next |-> IF at = 0 THEN next ELSE at + 1, last |-> st.state],
         marker |-> IF at = 0 THEN None ELSE lines[at]]

=============================================================================
