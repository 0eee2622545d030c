---------------------------- MODULE MCJogManager ----------------------------
(* JogManager for TLC: a few UI sessions and one WebDAV client.             *)
EXTENDS JogManager, TLC

CONSTANTS u1, u2, u3, dav

MCOneSession == {u1}
MCThreeSessions == {u1, u2, u3}
MCClients == {dav}
MCNoClients == {}
MCSymmetry == Permutations(MCThreeSessions)
=============================================================================
