----------------------------- MODULE MCRelayMux -----------------------------
(* RelayMux for TLC.  The bounds on frames and on the channel are given in  *)
(* the configurations; three controller frames are enough for one held, one *)
(* in a batch and one that might overtake them.                             *)
EXTENDS RelayMux
=============================================================================
