------------------------- MODULE MCExecutionContext --------------------------
(* Two programs: "f" turns the spindle one way, changes its speed and stops *)
(* it; "g" turns it the other way.                                          *)
EXTENDS ExecutionContext
MCFiles == {"f", "g"}
MCProgram ==
    [x \in MCFiles |->
        IF x = "f" THEN <<[m |-> 3, s |-> 1], [m |-> 5, s |-> 2]>>
        ELSE <<[m |-> 4, s |-> 9], [m |-> 0, s |-> 1]>>]
Selection(requests, ops, jobs, play, cf, cg) ==
    [requests |-> requests, ops |-> ops, jobs |-> jobs, playStatus |-> play, words |-> {},
     cache |-> [x \in MCFiles |-> IF x = "f" THEN cf ELSE cg], stored |-> None,
     probe |-> TRUE, context |-> FALSE, files |-> MCFiles, ticks |-> FALSE]
\* In these the selection is there from the start and the machine is not asked.
Context(requests, ops, jobs, words) ==
    [requests |-> requests, ops |-> ops, jobs |-> jobs, playStatus |-> FALSE, words |-> words,
     cache |-> [x \in MCFiles |-> "ready"], stored |-> "f", probe |-> FALSE, context |-> TRUE,
     files |-> IF words = {} THEN MCFiles ELSE {"f"}, ticks |-> "controller" \notin requests]
Off == [m |-> 5, s |-> 9]
Turn == [m |-> 4, s |-> 2]
MCScenes == {
    Selection({"select", "get"}, 3, 1, TRUE, "ready", "ready"),
    Selection({"select", "get", "delete", "run"}, 3, 1, FALSE, "ready", "none"),
    Selection({"window", "select", "upload"}, 2, 1, TRUE, "validating", "ready"),
    Selection({"fail"}, 0, 2, FALSE, "none", "ready"),
    Context({"api", "controller"}, 2, 1, {Turn}),
    Context({"api", "crash"}, 2, 1, {Off}),
    Context({"fail", "pause"}, 0, 1, {})}

\* The smallest scenes for what the code does not keep.
MCWindowScenes == {Selection({"window", "select"}, 2, 1, TRUE, "ready", "none")}
MCDirectionScenes == {Context({"pause"}, 0, 2, {})}
MCStopScenes == {Context({"api"}, 2, 1, {Off, [m |-> 4, s |-> 2]})}
=============================================================================
