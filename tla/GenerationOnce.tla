--------------------------- MODULE GenerationOnce ---------------------------
(***************************************************************************)
(* What the security state promises about a generation authorization: the  *)
(* paid provider request for an accepted transcript starts at most once,   *)
(* whoever asks, however often, and whatever expires meanwhile.            *)
(***************************************************************************)
CONSTANT Generations

VARIABLE phase     \* phase[g]: "idle", "running" or "over"

Init == phase = [g \in Generations |-> "idle"]

Start(g) ==
  /\ phase[g] = "idle"
  /\ phase' = [phase EXCEPT ![g] = "running"]

\* any number of running requests may be found lapsed at once
Finish(G) ==
  /\ G # {}
  /\ \A g \in G : phase[g] = "running"
  /\ phase' = [g \in Generations |-> IF g \in G THEN "over" ELSE phase[g]]

Next ==
  \/ \E g \in Generations : Start(g)
  \/ \E G \in SUBSET Generations : Finish(G)

Spec == Init /\ [][Next]_phase
=============================================================================
