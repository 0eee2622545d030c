---------------------------- MODULE MCObservers ----------------------------
(* Two programs: "f" waits for the operator once, "g" never does.  *)
EXTENDS Observers
MCFiles == {"f", "g"}
MCMarkers == [x \in MCFiles |-> IF x = "f" THEN <<1>> ELSE <<>>]
MCScenes == {
    [notify |-> FALSE, requests |-> {"clear", "export", "import"}, ops |-> 3, jobs |-> 1, path |-> None],
    [notify |-> FALSE, requests |-> {"select"}, ops |-> 2, jobs |-> 1, path |-> None],
    [notify |-> FALSE, requests |-> {}, ops |-> 0, jobs |-> 2, path |-> "f"],
    [notify |-> TRUE, requests |-> {"test"}, ops |-> 1, jobs |-> 1, path |-> None]}
\* Reproductions
MCNotified == {[notify |-> TRUE, requests |-> {"select"}, ops |-> 2, jobs |-> 1, path |-> None]}
MCReselect == {[notify |-> FALSE, requests |-> {"select"}, ops |-> 2, jobs |-> 1, path |-> "f"]}
MCTwoJobs == {[notify |-> FALSE, requests |-> {}, ops |-> 0, jobs |-> 2, path |-> "f"]}
=============================================================================
