----------------------------- MODULE MCArbiter ------------------------------
(* Arbiter for TLC: two WithMachine callers (one of them the poller), a     *)
(* jogger, a control, two controller sessions and a few owner sockets.      *)
EXTENDS Arbiter, TLC

CONSTANTS poll, sync, jog, halt, s1, s2

MCCallers == {poll, sync}
MCPollers == {poll}
MCJoggers == {jog}
MCControls == {halt}
MCSessions == {s1, s2}
MCOneSession == {s1}
MCSymmetry == Permutations(MCSessions)
=============================================================================
