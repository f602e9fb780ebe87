--------------------------- MODULE MCRelaySession ---------------------------
(***************************************************************************)
(* RelaySession with small sets: any client with one utterance and a short *)
(* queue on a fair host, or a client that keeps to the protocol with two   *)
(* utterances and a memory of one.                                         *)
(***************************************************************************)
EXTENDS RelaySession, TLC

CONSTANTS u1, u2, g1, g2

MCSymmetry == Permutations({u1, u2})
=============================================================================
