-------------------------- MODULE GenerationClaims --------------------------
(***************************************************************************)
(* Generation authorizations of the security-state store                   *)
(* (packages/security-state/src/store.ts): a relay authorizes a generation *)
(* for an accepted final transcript, receives a leased claim, starts the   *)
(* provider with it, keeps it alive, and completes or releases it.         *)
(*                                                                         *)
(* An authorization id hashes the session, the utterance, the revision and *)
(* the transcript, so it belongs to one session (SessionOf) and returns if *)
(* its row was cleaned up.  Callers may present any claim they were ever   *)
(* given (held): retries and slow callers present stale ones.  A claimId   *)
(* is fresh with every claimVersion and is not modelled beside it.         *)
(***************************************************************************)
EXTENDS SecurityState

CONSTANTS
  Generations,       \* authorization ids
  SessionOf,         \* the session each one was derived from
  GenerationQuota,   \* GENERATIONS_PER_MINUTE
  GenerationsPerSession,
  AttemptQuota,      \* ATTEMPTS_PER_MINUTE
  AttemptsPerSession,
  MaxClaimVersion,   \* bound on re-issues of one authorization's claim
  MaxLeaseVersion    \* bound on heartbeats of one claim

ASSUME GenerationAssumption ==
  /\ SessionOf \in [Generations -> Sessions]
  /\ GenerationQuota \subseteq Quota /\ AttemptQuota \subseteq Quota
  /\ {GenerationsPerSession, AttemptsPerSession, MaxClaimVersion,
      MaxLeaseVersion} \subseteq Nat

VARIABLES
  generation,        \* generation[g]: the row of authorization g
  held,              \* claimed and started claims ever returned to a caller
  generatedTimes, generatedCount,   \* generatedWindow, generatedCount
  startTimes, startCount,           \* attemptWindow, attemptCount
  starts             \* history: provider starts permitted for g

generationVars ==
  <<generation, held, generatedTimes, generatedCount, startTimes, startCount,
    starts>>
vars == <<storeVars, generationVars>>

NoGeneration ==
  [status |-> "absent", claimVersion |-> 0, leaseVersion |-> 0,
   leaseExpiresAt |-> 0, startedConsumed |-> FALSE, releasedFrom |-> None]

\* #claim
ClaimOf(g, row) ==
  [generation |-> g, claimVersion |-> row.claimVersion,
   leaseVersion |-> row.leaseVersion, phase |-> row.status,
   leaseExpiresAt |-> row.leaseExpiresAt]

GenerationInit ==
  /\ Init
  /\ generation = [g \in Generations |-> NoGeneration]
  /\ held = {}
  /\ generatedTimes = [s \in Sessions |-> NoEvents]
  /\ generatedCount = [s \in Sessions |-> 0]
  /\ startTimes = [s \in Sessions |-> NoEvents]
  /\ startCount = [s \in Sessions |-> 0]
  /\ starts = [g \in Generations |-> 0]

(***************************************************************************)
(* Matching a presented claim against the row                              *)
(***************************************************************************)
ClaimMatches(claim) ==
  claim = ClaimOf(claim.generation, generation[claim.generation])

\* #claimIdentityMatches: the claimId, hence the claimVersion, is current
IdentityMatches(claim) ==
  claim.claimVersion = generation[claim.generation].claimVersion

FaultyExists(g) == generation[g].status \notin {"absent", "released"}
Exists(g) == generation[g].status # "absent"

GenerationSessionActive(g, now) == SessionActive(SessionOf[g], now)

\* completed and released claims are refused wherever they are presented
Returns(claim) ==
  held' = IF claim.phase \in {"claimed", "started"} THEN held \cup {claim} ELSE held

Put(g, row) ==
  /\ generation' = [generation EXCEPT ![g] = row]
  /\ Returns(ClaimOf(g, row))

(***************************************************************************)
(* authorizeGeneration                                                     *)
(***************************************************************************)
\* a row whose claim lapsed or was released before the provider started
Reclaimable(g, now) ==
  /\ ~generation[g].startedConsumed
  /\ \/ generation[g].status = "claimed" /\ now >= generation[g].leaseExpiresAt
     \/ generation[g].status = "released"

Claimed(g, now, version) ==
  [status |-> "claimed", claimVersion |-> version, leaseVersion |-> 1,
   leaseExpiresAt |-> now + OpeningLease, startedConsumed |-> FALSE,
   releasedFrom |-> None]

AuthorizeGeneration(now, g) ==
  LET s == SessionOf[g] IN
  /\ Context(now)
  /\ GenerationSessionActive(g, now)
  /\ ~Exists(g)
  /\ Admits(generatedTimes[s], now, GenerationQuota)
  /\ generatedCount[s] < GenerationsPerSession
  /\ generatedTimes' = [generatedTimes EXCEPT
       ![s] = AddEvent(@, now, GenerationQuota)]
  /\ generatedCount' = [generatedCount EXCEPT ![s] = @ + 1]
  /\ Put(g, Claimed(g, now, 1))
  /\ UNCHANGED <<rows, rates, startTimes, startCount, starts>>

\* the same accepted final again: the claim is re-issued, not charged twice
ReclaimGeneration(now, g) ==
  /\ Context(now)
  /\ GenerationSessionActive(g, now)
  /\ Exists(g)
  /\ Reclaimable(g, now)
  /\ generation[g].claimVersion < MaxClaimVersion
  /\ Put(g, Claimed(g, now, generation[g].claimVersion + 1))
  /\ UNCHANGED <<rows, rates, generatedTimes, generatedCount, startTimes,
                 startCount, starts>>

\* duplicate-completed, -consumed or -in-flight: the caller learns the claim
AuthorizeDuplicate(now, g) ==
  /\ Context(now)
  /\ GenerationSessionActive(g, now)
  /\ Exists(g)
  /\ ~Reclaimable(g, now)
  /\ Returns(ClaimOf(g, generation[g]))
  /\ UNCHANGED <<rows, rates, generation, generatedTimes, generatedCount,
                 startTimes, startCount, starts>>

(***************************************************************************)
(* providerStart                                                           *)
(***************************************************************************)
ProviderStart(now, claim) ==
  LET g   == claim.generation
      s   == SessionOf[g]
      row == generation[g]
  IN
  /\ Context(now)
  /\ Exists(g)
  /\ IdentityMatches(claim)
  /\ ~row.startedConsumed
  /\ row.status = "claimed"
  /\ ClaimMatches(claim)
  /\ now < row.leaseExpiresAt
  /\ GenerationSessionActive(g, now)
  /\ Admits(startTimes[s], now, AttemptQuota)
  /\ startCount[s] < AttemptsPerSession
  /\ startTimes' = [startTimes EXCEPT ![s] = AddEvent(@, now, AttemptQuota)]
  /\ startCount' = [startCount EXCEPT ![s] = @ + 1]
  /\ starts' = [starts EXCEPT ![g] = @ + 1]
  /\ Put(g, [row EXCEPT !.status = "started", !.startedConsumed = TRUE,
                        !.leaseVersion = @ + 1,
                        !.leaseExpiresAt = now + ActiveLease])
  /\ UNCHANGED <<rows, rates, generatedTimes, generatedCount>>

\* 'already-consumed': the caller only learns the current claim
ProviderStartRefused(now, claim) ==
  LET g == claim.generation IN
  /\ Context(now)
  /\ Exists(g)
  /\ IdentityMatches(claim)
  /\ generation[g].startedConsumed
  /\ Returns(ClaimOf(g, generation[g]))
  /\ UNCHANGED <<rows, rates, generation, generatedTimes, generatedCount,
                 startTimes, startCount, starts>>

(***************************************************************************)
(* heartbeatGeneration, completeGeneration, releaseGeneration              *)
(***************************************************************************)
StartedBy(now, claim) ==
  LET g == claim.generation IN
  /\ generation[g].status = "started"
  /\ ClaimMatches(claim)
  /\ now < generation[g].leaseExpiresAt
  /\ GenerationSessionActive(g, now)

HeartbeatGeneration(now, claim) ==
  LET g == claim.generation IN
  /\ Context(now)
  /\ StartedBy(now, claim)
  /\ generation[g].leaseVersion < MaxLeaseVersion
  /\ Put(g, [generation[g] EXCEPT !.leaseVersion = @ + 1,
                                  !.leaseExpiresAt = now + ActiveLease])
  /\ UNCHANGED <<rows, rates, generatedTimes, generatedCount, startTimes,
                 startCount, starts>>

CompleteGeneration(now, claim) ==
  LET g == claim.generation IN
  /\ Context(now)
  /\ StartedBy(now, claim)
  /\ Put(g, [generation[g] EXCEPT !.status = "completed",
                                  !.leaseVersion = @ + 1,
                                  !.leaseExpiresAt = now])
  /\ UNCHANGED <<rows, rates, generatedTimes, generatedCount, startTimes,
                 startCount, starts>>

\* what a retry of an unstarted claim's release is recognised by
ReleaseSource(row) ==
  [claimVersion |-> row.claimVersion, leaseVersion |-> row.leaseVersion,
   leaseExpiresAt |-> row.leaseExpiresAt]

ReleaseGeneration(now, claim) ==
  LET g   == claim.generation
      row == generation[g]
  IN
  /\ Context(now)
  /\ row.status \in {"claimed", "started"}
  /\ ClaimMatches(claim)
  /\ row.status = "started" => StartedBy(now, claim)
  /\ Put(g, [row EXCEPT
       !.status = "released", !.leaseVersion = @ + 1, !.leaseExpiresAt = now,
       !.releasedFrom = IF row.startedConsumed THEN @ ELSE ReleaseSource(row)])
  /\ UNCHANGED <<rows, rates, generatedTimes, generatedCount, startTimes,
                 startCount, starts>>

\* a retried release finds the row released and returns its claim
RetryRelease(now, claim) ==
  LET g   == claim.generation
      row == generation[g]
  IN
  /\ Context(now)
  /\ row.status = "released"
  /\ ~ClaimMatches(claim)
  /\ ~row.startedConsumed
  /\ claim.phase = "claimed"
  /\ row.releasedFrom = ReleaseSource(claim)
  /\ Returns(ClaimOf(g, row))
  /\ UNCHANGED <<rows, rates, generation, generatedTimes, generatedCount,
                 startTimes, startCount, starts>>

(***************************************************************************)
(* Expiry (#expireGeneration) and cleanup                                  *)
(***************************************************************************)
LeaseLapsed(g, now) ==
  /\ generation[g].status \in {"claimed", "started"}
  /\ now >= generation[g].leaseExpiresAt

\* forgets the start with the lease
FaultyExpired(g, now) ==
  [generation[g] EXCEPT !.status = "released", !.leaseExpiresAt = now,
                        !.startedConsumed = FALSE]

Expired(g, now) ==
  LET row == generation[g] IN
  [row EXCEPT
     !.status = "released", !.leaseExpiresAt = now,
     !.releasedFrom = IF row.status = "claimed" /\ ~row.startedConsumed
                      THEN ReleaseSource(row) ELSE @]

\* an ended session takes its authorizations with it
Removable(g) ==
  session[SessionOf[g]].status \in {"deleted", "expired", "ended", "revoked"}

\* the visit of one row
CleanupGeneration(now, g) ==
  /\ Context(now)
  /\ Exists(g)
  /\ Removable(g) \/ LeaseLapsed(g, now)
  /\ generation' = [generation EXCEPT
       ![g] = IF Removable(g) THEN NoGeneration ELSE Expired(g, now)]
  /\ UNCHANGED <<rows, rates, held, generatedTimes, generatedCount,
                 startTimes, startCount, starts>>

SnapshotGenerations(now) ==
  /\ Snapshot(now)
  /\ generation' = [g \in Generations |->
       IF LeaseLapsed(g, now) THEN Expired(g, now) ELSE generation[g]]
  /\ UNCHANGED <<held, generatedTimes, generatedCount, startTimes,
                 startCount, starts>>

GenerationStep(now) ==
  \/ \E g \in Generations :
       \/ AuthorizeGeneration(now, g)
       \/ ReclaimGeneration(now, g)
       \/ AuthorizeDuplicate(now, g)
       \/ CleanupGeneration(now, g)
  \/ \E claim \in held :
       \/ ProviderStart(now, claim)
       \/ ProviderStartRefused(now, claim)
       \/ HeartbeatGeneration(now, claim)
       \/ CompleteGeneration(now, claim)
       \/ ReleaseGeneration(now, claim)
       \/ RetryRelease(now, claim)

GenerationNext ==
  \E now \in Times :
    \/ StoreStep(now) /\ UNCHANGED generationVars
    \/ SnapshotGenerations(now)
    \/ GenerationStep(now)

GenerationSpec == GenerationInit /\ [][GenerationNext]_vars

(***************************************************************************)
(* Properties                                                              *)
(***************************************************************************)
GenerationRow ==
  [status : {"absent", "claimed", "started", "completed", "released"},
   claimVersion : Nat, leaseVersion : Nat, leaseExpiresAt : Nat,
   startedConsumed : BOOLEAN,
   releasedFrom : [claimVersion : Nat, leaseVersion : Nat,
                   leaseExpiresAt : Nat] \cup {None}]
Claim ==
  [generation : Generations, claimVersion : Nat, leaseVersion : Nat,
   phase : {"claimed", "started"}, leaseExpiresAt : Nat]

\* Generation rows, claims and counters have their declared shape.
GenerationTypeOK ==
  /\ generation \in [Generations -> GenerationRow]
  /\ held \subseteq Claim
  /\ generatedTimes \in [Sessions -> [Times -> Nat]]
  /\ generatedCount \in [Sessions -> Nat]
  /\ startTimes \in [Sessions -> [Times -> Nat]]
  /\ startCount \in [Sessions -> Nat]
  /\ starts \in [Generations -> Nat]

\* The provider is started at most once for an accepted transcript, through
\* reclaimed claims, stale callers, expiry and the removal of the row.
StartOnce == \A g \in Generations : starts[g] <= 1

\* A start is remembered by its row as long as the session could ask again:
\* only the end of the session lets the row go.
StartRemembered ==
  \A g \in Generations :
    starts[g] > 0 /\ ~generation[g].startedConsumed =>
      session[SessionOf[g]].status \in {"expired", "ended", "revoked", "deleted"}

\* A transcript is charged to its session once for the authorization and once
\* for the start, however often its claim lapses, is released or is reissued:
\* the counters that the session limits are held against stay exact for as
\* long as the session can ask, and no window of either quota is exceeded.
ChargedOnce ==
  \A s \in Sessions :
    LET own == {g \in Generations : SessionOf[g] = s} IN
    /\ \A q \in GenerationQuota : Spread(generatedTimes[s], q)
    /\ \A q \in AttemptQuota : Spread(startTimes[s], q)
    /\ startCount[s] = Cardinality({g \in own : starts[g] > 0})
    /\ generatedCount[s] = Cardinality({g \in own : Exists(g)})
         \/ session[s].status \in {"expired", "ended", "revoked", "deleted"}

\* The refinement: GenerationOnce is what a caller can rely on.
Phase ==
  [g \in Generations |->
     IF starts[g] = 0 THEN "idle"
     ELSE IF generation[g].status = "started" THEN "running" ELSE "over"]

Once == INSTANCE GenerationOnce WITH phase <- Phase
ImplementsOnce == Once!Spec
=============================================================================
