--------------------------- MODULE MCManagerUpgrade ---------------------------
(* ManagerUpgrade for TLC: the tray and the HTTP API, and what may happen in each scene. *)
EXTENDS ManagerUpgrade

\* What the tray's menu, or a first client of the HTTP API, and a second client ask for
MCAsk(tray, web) == [t \in {"tray", "web"} |-> IF t = "tray" THEN tray ELSE web]
MCMenuOps == {"start", "stop", "restart"}

MCBudget == [ops |-> 1, faults |-> 0, crashes |-> 0, quits |-> 0, kills |-> 0,
             gone |-> 0, launches |-> 0, refused |-> 0, torn |-> 0]
\* A Unix system with a good manager, and nothing but deployments of the proxy.
MCQuiet == [windows |-> FALSE, prompt |-> TRUE, auto |-> FALSE, bad |-> "no",
            restart |-> TRUE, component |-> "proxy", ops |-> MCAsk({}, {"deploy"}), budget |-> MCBudget]

\* The tray's menu and a browser start, stop, restart and configure.
MCMenu == [MCQuiet EXCEPT !.ops = MCAsk(MCMenuOps, MCMenuOps \cup {"config"}),
               !.budget = [MCBudget EXCEPT !.ops = 3, !.crashes = 1, !.gone = 1, !.refused = 1]]
MCMenuOnWindows == [MCMenu EXCEPT !.windows = TRUE]
\* The proxy is deployed while somebody stops it, and something fails.
MCDeploy == [MCQuiet EXCEPT !.ops = MCAsk({"stop"}, {"deploy"}),
               !.budget = [MCBudget EXCEPT !.ops = 2, !.faults = 2, !.crashes = 1]]
MCDeployNoRestart == [MCDeploy EXCEPT !.restart = FALSE, !.windows = TRUE,
               !.budget = [@ EXCEPT !.crashes = 0, !.gone = 1, !.refused = 1]]
\* One deployment, whose binary cannot be renamed back either
MCTornInstall == [MCQuiet EXCEPT !.budget = [MCBudget EXCEPT !.faults = 2, !.torn = 1, !.gone = 1]]
\* Two deployments, one of which waits for the other
MCTwoDeploys == [MCQuiet EXCEPT !.ops = MCAsk({"deploy"}, {"deploy"}),
               !.budget = [MCBudget EXCEPT !.ops = 2, !.faults = 1]]
MCBuild == [MCQuiet EXCEPT !.ops = MCAsk({"restart"}, {"build"}),
               !.budget = [MCBudget EXCEPT !.ops = 2, !.faults = 1]]
\* The operator quits during a deployment and launches the manager again, whose
\* proxy finds the port taken.
MCQuit == [MCQuiet EXCEPT !.auto = TRUE,
               !.budget = [MCBudget EXCEPT !.quits = 1, !.launches = 1, !.faults = 1]]
MCOrphan == [MCQuiet EXCEPT !.budget = [MCBudget EXCEPT !.quits = 1, !.launches = 1]]
\* The manager is deployed: one failure, a killed finalizer, a binary that
\* exits and one that never answers.
MCUpgrade == [MCQuiet EXCEPT !.component = "manager",
               !.budget = [MCBudget EXCEPT !.faults = 1, !.gone = 1, !.torn = 1]]
MCUpgradeAll == [MCUpgrade EXCEPT !.component = "all", !.windows = TRUE, !.auto = TRUE]
MCKilled == [MCUpgradeAll EXCEPT !.budget = [@ EXCEPT !.kills = 1, !.launches = 1, !.gone = 0]]
MCExits == [MCUpgradeAll EXCEPT !.bad = "exits", !.budget = MCBudget]
MCHangs == [MCUpgradeAll EXCEPT !.bad = "hangs", !.windows = FALSE, !.budget = MCBudget]

MCScenes == <<MCMenu, MCMenuOnWindows, MCDeploy, MCDeployNoRestart, MCTornInstall, MCTwoDeploys, MCBuild,
              MCQuit, MCOrphan, MCUpgrade, MCUpgradeAll, MCKilled, MCExits, MCHangs>>

\* Reproductions.  Two calls stop the same process; a proxy is started while a
\* deployment builds; a build races a deployment; a second deployment follows a
\* manager that was killed between two renames, or the first whose binary could
\* not be renamed back; the client of a deployment leaves; a manager rolled back
\* on Unix; a proxy that is slow to claim its port.
MCTwoStops == <<[MCQuiet EXCEPT !.ops = MCAsk({"stop"}, {"stop"}), !.budget = [MCBudget EXCEPT !.ops = 2]]>>
MCStartMeanwhile == <<[MCQuiet EXCEPT !.ops = MCAsk({"start"}, {"deploy"}), !.budget = [MCBudget EXCEPT !.ops = 2]]>>
MCBuildMeanwhile == <<[MCQuiet EXCEPT !.ops = MCAsk({"build"}, {"deploy"}), !.restart = FALSE,
                                      !.budget = [MCBudget EXCEPT !.ops = 2, !.faults = 1]]>>
MCTornDeploy == <<[MCQuit EXCEPT !.budget = [@ EXCEPT !.ops = 2]]>>
MCTornTwice == <<[MCTwoDeploys EXCEPT !.budget = [@ EXCEPT !.torn = 1]]>>
MCClientLeaves == <<[MCQuiet EXCEPT !.budget = [MCBudget EXCEPT !.gone = 1]]>>
MCRolledBack == <<MCHangs>>
MCSlowPort == <<[MCOrphan EXCEPT !.prompt = FALSE]>>
===============================================================================
