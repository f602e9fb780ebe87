-------------------------- MODULE MCSecurityState --------------------------
(***************************************************************************)
(* The three instances of SecurityState: credential rotation over three    *)
(* credentials, sessions over two credentials, two tickets and two         *)
(* sessions, and quotas over three tickets, three sessions and a grant.    *)
(***************************************************************************)
EXTENDS SecurityState, TLC

MCPairIssueQuota == {[period |-> 2, limit |-> 1]}
MCPairAttemptQuota == {[period |-> 2, limit |-> 1]}
MCTicketQuota == {[period |-> 1, limit |-> 1], [period |-> 3, limit |-> 2]}
MCTicketsFree == {[period |-> 1, limit |-> 2], [period |-> 3, limit |-> 3]}
MCReconnectQuota == {[period |-> 2, limit |-> 1]}

MCOnce == {[period |-> MaxTime + 1, limit |-> 1]}

MCSymmetry ==
  Permutations(Credentials) \cup Permutations(Tickets)
    \cup Permutations(Sessions) \cup Permutations(GrantIds)
=============================================================================
