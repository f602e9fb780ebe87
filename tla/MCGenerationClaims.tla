------------------------- MODULE MCGenerationClaims -------------------------
(***************************************************************************)
(* GenerationClaims from the moment an installation has opened and         *)
(* activated a session at time 0: three authorizations of that session,    *)
(* which ends, expires or is revoked under them.                           *)
(***************************************************************************)
EXTENDS GenerationClaims, TLC

CONSTANTS i1, c1, s1, a1, a2, a3

MCGenerationQuota == {[period |-> 1, limit |-> 1]}
MCAttemptQuota == {[period |-> 2, limit |-> 1]}
MCClosed == {[period |-> 1, limit |-> 0]}
MCSessionOf == [g \in {a1, a2, a3} |-> s1]
MCSymmetry == Permutations({a1, a2, a3})

MCInit ==
  /\ latest = 0
  /\ pairing = [p \in Pairings |-> NoPairing]
  /\ installation = [i \in {i1} |->
       [NoInstallation EXCEPT
          !.status = "active", !.absoluteExpiresAt = CredentialAbsoluteTtl,
          !.tombstoneVersion = 1, !.current = c1, !.currentVersion = 1,
          !.sessionEpoch = 1, !.activeSession = s1]]
  /\ credential = [c \in {c1} |->
       [status |-> "current", installation |-> i1, version |-> 1,
        absoluteExpiresAt |-> CredentialAbsoluteTtl,
        idleExpiresAt |-> CredentialIdleTtl]]
  /\ ticket = [t \in Tickets |-> NoTicket]
  /\ session = [s \in {s1} |->
       [status |-> "active", installation |-> i1, epoch |-> 1,
        credentialVersion |-> 1, tombstoneVersion |-> 1,
        leaseExpiresAt |-> ActiveLease, ticket |-> None]]
  /\ grants = {}
  /\ issueTimes = NoEvents /\ attemptTimes = NoEvents
  /\ ticketTimes = [i \in {i1} |-> NoEvents]
  /\ reconnectTimes = [i \in {i1} |-> NoEvents]
  /\ audioLog = [i \in {i1} |-> NoAudio]
  /\ generation = [g \in Generations |-> NoGeneration]
  /\ held = {}
  /\ generatedTimes = [s \in {s1} |-> NoEvents] /\ generatedCount = [s \in {s1} |-> 0]
  /\ startTimes = [s \in {s1} |-> NoEvents] /\ startCount = [s \in {s1} |-> 0]
  /\ starts = [g \in Generations |-> 0]

MCSpec == MCInit /\ [][GenerationNext]_vars
=============================================================================
