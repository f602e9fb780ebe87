----------------------------- MODULE MCAudioPath -----------------------------
(***************************************************************************)
(* AudioPath with frames of two samples and grants of three, so that a     *)
(* frame may need two grants.                                              *)
(***************************************************************************)
EXTENDS AudioPath

CONSTANTS u1, u2
=============================================================================
