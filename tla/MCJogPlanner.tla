---------------------------- MODULE MCJogPlanner ----------------------------
(* JogPlanner for TLC: a few short axes, and what may happen in each scene. *)
EXTENDS JogPlanner

\* Nothing is enabled in this one, and the machine answers at once.
MCQuiet == [xmax |-> 3, absolute |-> FALSE, inputs |-> {}, captures |-> FALSE,
            steps |-> FALSE, targets |-> FALSE, safe |-> FALSE, origins |-> FALSE,
            lags |-> FALSE, slow |-> FALSE, delay |-> 0, acts |-> 4,
            refuses |-> FALSE, stops |-> FALSE, fails |-> FALSE]

\* A stick is held and released, and positions are captured, while writes are
\* slow, the machine falls behind and its answers are up to half a segment old.
MCStick == [MCQuiet EXCEPT !.inputs = {0, 2, -2}, !.captures = TRUE, !.slow = TRUE,
                           !.lags = TRUE, !.delay = 1, !.xmax = 2]
\* The same with failed queries, a machine that stops by itself and origins set in between.
MCFailingStick == [MCStick EXCEPT !.origins = TRUE, !.fails = TRUE,
                               !.stops = TRUE, !.captures = FALSE]
\* A machine that keeps the pace, moved with G53.
MCPacedStick == [MCQuiet EXCEPT !.inputs = {0, 2, -2}, !.slow = TRUE,
                                !.absolute = TRUE, !.delay = 1, !.origins = TRUE]
\* Steps and segments mixed, on a machine that keeps the pace.
MCSteps == [MCQuiet EXCEPT !.inputs = {0, 1, 2}, !.steps = TRUE, !.origins = TRUE]
\* Tap targets, with a safe Z and without.
MCTargets == [MCQuiet EXCEPT !.targets = TRUE, !.safe = TRUE, !.fails = TRUE,
                             !.refuses = TRUE]
MCDirectTargets == [MCQuiet EXCEPT !.targets = TRUE, !.steps = TRUE, !.inputs = {0, 1, 2}, !.xmax = 2]
\* Tap targets whose lines are written slowly.
MCSlowTargets == [MCTargets EXCEPT !.slow = TRUE, !.refuses = FALSE]

MCScenes == <<MCStick, MCFailingStick, MCPacedStick, MCSteps, MCTargets, MCDirectTargets,
              MCSlowTargets>>

\* Reproductions.  A target is tapped just after a stick was released; a step
\* is captured while it is written, or written slowly; a stick is held on a slow machine.
MCTapAfterStick == <<[MCQuiet EXCEPT !.inputs = {0, 2}, !.targets = TRUE, !.delay = 1]>>
MCCaptureStep == <<[MCQuiet EXCEPT !.steps = TRUE, !.captures = TRUE]>>
MCSlowMachine == <<[MCQuiet EXCEPT !.inputs = {2}, !.lags = TRUE, !.xmax = 20]>>
MCSlowStep == <<[MCQuiet EXCEPT !.steps = TRUE, !.slow = TRUE]>>
MCLateAnswer == <<[MCStick EXCEPT !.delay = 2]>>
=============================================================================
