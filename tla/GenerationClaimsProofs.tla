----------------------- MODULE GenerationClaimsProofs -----------------------
(***************************************************************************)
(* Generation claims, proved for every number of authorizations, sessions  *)
(* and claims: the composed specification is one of the store, and a       *)
(* provider request is started at most once for an accepted transcript.    *)
(***************************************************************************)
EXTENDS GenerationClaims, SecurityStateProofs

(***************************************************************************)
(* Each generation operation is an observation of the clock to the rest of *)
(* the store, so what is proved of Spec holds of GenerationSpec.           *)
(***************************************************************************)
LEMMA GenerationStepObserves ==
  ASSUME NEW now \in Times, GenerationStep(now)
  PROVE  Observe(now)
<1>1. CASE \E g \in Generations :
             \/ AuthorizeGeneration(now, g) \/ ReclaimGeneration(now, g)
             \/ AuthorizeDuplicate(now, g) \/ CleanupGeneration(now, g)
  BY <1>1 DEF Observe, AuthorizeGeneration, ReclaimGeneration,
              AuthorizeDuplicate, CleanupGeneration
<1>2. CASE \E claim \in held :
             \/ ProviderStart(now, claim) \/ ProviderStartRefused(now, claim)
             \/ HeartbeatGeneration(now, claim) \/ CompleteGeneration(now, claim)
             \/ ReleaseGeneration(now, claim) \/ RetryRelease(now, claim)
  BY <1>2 DEF Observe, ProviderStart, ProviderStartRefused, HeartbeatGeneration,
              CompleteGeneration, ReleaseGeneration, RetryRelease
<1>3. QED
  BY <1>1, <1>2 DEF GenerationStep

LEMMA GenerationNextStores == GenerationNext => StoreNext
BY GenerationStepObserves
   DEF GenerationNext, SnapshotGenerations, StoreNext, StoreStep

\* Authorizing and running generations only uses the store as every other
\* caller does: what holds of the store holds of the two together.
THEOREM GenerationUsesStore == GenerationSpec => Spec
<1>1. GenerationInit => Init
  BY DEF GenerationInit
<1>2. [GenerationNext]_vars => [StoreNext]_storeVars
  BY GenerationNextStores DEF vars
<1>3. QED
  BY <1>1, <1>2, PTL DEF GenerationSpec, Spec

(***************************************************************************)
(* A session that is over stays over.                                      *)
(***************************************************************************)
Over(s) == session[s].status \in {"expired", "ended", "revoked", "deleted"}

LEMMA EndedOver ==
  ASSUME TypeInv, NEW S, NEW now, session' = EndedSessions(S, now),
         NEW s \in Sessions, Over(s)
  PROVE  Over(s)'
BY DEF EndedSessions, Over, TypeInv, TypeOK, SessionRow

LEMMA StoreStepOver ==
  ASSUME TypeInv, NEW now \in Times, StoreStep(now), NEW s \in Sessions, Over(s)
  PROVE  Over(s)'
<1>1. CASE UNCHANGED session
  BY <1>1 DEF Over
<1>2. CASE Observe(now) \/ RefuseRedemption(now) \/ PairingStep(now) \/ AudioStep(now)
  <2>1. CASE Observe(now) \/ RefuseRedemption(now)
    BY <1>1, <2>1 DEF Observe, RefuseRedemption, rows
  <2>2. CASE PairingStep(now)
    BY <1>1, <2>2 DEF PairingStep, IssuePairing, RevokePairing, CleanupPairing,
                      RedeemPairing
  <2>3. CASE AudioStep(now)
    BY <1>1, <2>3 DEF AudioStep, CleanupGrant, RefuseAudio, RollBackAudio, ReserveAudio,
                      StrandAudio, ReservationCommitted
  <2>4. QED
    BY <1>2, <2>1, <2>2, <2>3
<1>3. ASSUME NEW i \in Installations, Revoked(now, i) PROVE Over(s)'
  BY <1>3 DEF Revoked, Over, TypeInv, TypeOK, SessionRow
<1>4. CASE CredentialStep(now)
  <2>1. PICK c \in Credentials :
          \/ AuthenticateCredential(now, c) \/ PromoteCredential(now, c)
          \/ RevokeCurrentInstallation(now, c) \/ CleanupCredential(now, c)
          \/ \E n \in Credentials : BeginCredentialRotation(now, c, n)
          \/ \E t \in Tickets : IssueSessionTicket(now, c, t)
    BY <1>4 DEF CredentialStep
  <2>2. CASE PromoteCredential(now, c)
    <3>1. PICK S : session' = EndedSessions(S, now)
      BY <2>2 DEF PromoteCredential
    <3>2. QED
      BY <3>1, EndedOver
  <2>3. CASE RevokeCurrentInstallation(now, c)
    BY <1>3, <2>3, AuthenticatedRefers DEF RevokeCurrentInstallation
  <2>4. QED
    BY <1>1, <2>1, <2>2, <2>3
       DEF AuthenticateCredential, CleanupCredential, BeginCredentialRotation,
           IssueSessionTicket
<1>5. CASE InstallationStep(now)
  <2>1. ASSUME NEW i \in Installations, CleanupInstallation(now, i)
        PROVE  Over(s)'
    <3>1. UNCHANGED session \/ LapsedInstallation(i)
      BY <2>1 DEF CleanupInstallation
    <3>2. QED
      BY <1>1, <3>1, LapsedTyped DEF Over
  <2>2. QED
    BY <1>3, <1>5, <2>1 DEF InstallationStep, RevokeInstallation
<1>6. CASE SessionStep(now)
  <2>1. ASSUME NEW t \in Tickets, NEW n \in Sessions, ConsumeSessionTicket(now, t, n)
        PROVE  Over(s)'
    BY <2>1 DEF ConsumeSessionTicket, Over, TypeInv, TypeOK, SessionRow
  <2>2. ASSUME NEW r \in Sessions, ActivateSession(now, r) \/ HeartbeatSession(now, r)
        PROVE  Over(s)'
    BY <2>2 DEF ActivateSession, HeartbeatSession, SessionActive, Renew, Over,
                TypeInv, TypeOK
  <2>3. ASSUME NEW r \in Sessions, EndSession(now, r)
        PROVE  Over(s)'
    BY <2>3, EndedOver DEF EndSession
  <2>4. ASSUME NEW r \in Sessions, CleanupSession(now, r)
        PROVE  Over(s)'
    BY <2>4 DEF CleanupSession, NoSession, Over, TypeInv, TypeOK
  <2>5. QED
    BY <1>1, <1>6, <2>1, <2>2, <2>3, <2>4 DEF SessionStep, CleanupTicket
<1>7. QED
  BY <1>2, <1>4, <1>5, <1>6 DEF StoreStep

LEMMA SnapshotOver ==
  ASSUME TypeInv, NEW now \in Times, Snapshot(now), NEW s \in Sessions, Over(s)
  PROVE  Over(s)'
<1>1. session'[s] \in {session[s], [session[s] EXCEPT !.status = "expired"]}
  BY DEF Snapshot
<1>2. QED
  BY <1>1 DEF Over, TypeInv, TypeOK, SessionRow

(***************************************************************************)
(* A provider request starts once.  A claim is re-issued only while its    *)
(* row has not started, so the row must remember a start for as long as    *)
(* the session could ask again; a row that runs is one that started.       *)
(***************************************************************************)
Remembers(g) ==
  /\ starts[g] <= 1
  /\ starts[g] > 0 /\ ~generation[g].startedConsumed => Over(SessionOf[g])
  /\ generation[g].status = "started" => generation[g].startedConsumed
  /\ generation[g].status = "absent" => ~generation[g].startedConsumed

GenerationInv ==
  GenerationTypeOK /\ \A g \in Generations : Remembers(g)

LEMMA ClaimOfTyped ==
  ASSUME NEW g \in Generations, NEW row \in GenerationRow,
         row.status \in {"claimed", "started"}
  PROVE  ClaimOf(g, row) \in Claim
BY DEF ClaimOf, Claim, GenerationRow

LEMMA ReturnsTyped ==
  ASSUME GenerationTypeOK, NEW g \in Generations, NEW row \in GenerationRow,
         Returns(ClaimOf(g, row))
  PROVE  held' \subseteq Claim
<1>1. ClaimOf(g, row).phase = row.status
  BY DEF ClaimOf
<1>2. QED
  BY <1>1, ClaimOfTyped DEF Returns, GenerationTypeOK

LEMMA ReleaseSourceTyped ==
  ASSUME NEW row \in GenerationRow
  PROVE  ReleaseSource(row) \in
           [claimVersion : Nat, leaseVersion : Nat, leaseExpiresAt : Nat]
BY DEF ReleaseSource, GenerationRow

LEMMA ClaimedTyped ==
  ASSUME NEW g, NEW now \in Times, NEW version \in Nat
  PROVE  Claimed(g, now, version) \in GenerationRow
BY TimesNat, ConstantsAssumption DEF Claimed, GenerationRow

LEMMA NoGenerationTyped == NoGeneration \in GenerationRow
BY DEF NoGeneration, GenerationRow

LEMMA ExpiredTyped ==
  ASSUME NEW g \in Generations, NEW now \in Times, generation[g] \in GenerationRow
  PROVE  /\ Expired(g, now) \in GenerationRow
         /\ Expired(g, now).status = "released"
         /\ Expired(g, now).startedConsumed = generation[g].startedConsumed
<1> DEFINE row    == generation[g]
           source == IF row.status = "claimed" /\ ~row.startedConsumed
                     THEN ReleaseSource(row) ELSE row.releasedFrom
<1>1. now \in Nat
  BY TimesNat
<1>2. source \in [claimVersion : Nat, leaseVersion : Nat, leaseExpiresAt : Nat]
                   \cup {None}
  BY ReleaseSourceTyped DEF GenerationRow
<1>3. Expired(g, now) = [row EXCEPT !.status = "released", !.leaseExpiresAt = now,
                                    !.releasedFrom = source]
  BY DEF Expired, GenerationRow
<1> HIDE DEF source
<1>4. QED
  BY <1>1, <1>2, <1>3 DEF GenerationRow

LEMMA PutTyped ==
  ASSUME GenerationTypeOK, NEW g \in Generations, NEW row \in GenerationRow,
         Put(g, row)
  PROVE  /\ generation' \in [Generations -> GenerationRow]
         /\ held' \subseteq Claim
         /\ generation'[g] = row
         /\ \A h \in Generations : h # g => generation'[h] = generation[h]
BY ReturnsTyped DEF Put, GenerationTypeOK

\* A step that leaves the starts alone and neither forgets nor invents one.
LEMMA RemembersKept ==
  ASSUME \A h \in Generations : Remembers(h), UNCHANGED <<session, starts>>,
         NEW g \in Generations,
         \A h \in Generations : h # g => generation'[h] = generation[h],
         generation'[g].startedConsumed = generation[g].startedConsumed,
         generation'[g].status = "started" => generation[g].status = "started",
         generation'[g].status # "absent"
  PROVE  \A h \in Generations : Remembers(h)'
BY DEF Remembers, Over

LEMMA CountersTyped ==
  ASSUME GenerationTypeOK,
         UNCHANGED <<generatedTimes, generatedCount, startTimes, startCount, starts>>,
         generation' \in [Generations -> GenerationRow], held' \subseteq Claim
  PROVE  GenerationTypeOK'
BY DEF GenerationTypeOK

LEMMA AuthorizeGenerationInv ==
  ASSUME GenerationInv, NEW now \in Times, NEW g \in Generations,
         AuthorizeGeneration(now, g)
  PROVE  GenerationInv'
<1>1. SessionOf[g] \in Sessions
  BY GenerationAssumption
<1>2. Claimed(g, now, 1) \in GenerationRow
  BY ClaimedTyped
<1>3. Put(g, Claimed(g, now, 1)) /\ UNCHANGED <<session, starts, startTimes, startCount>>
  BY DEF AuthorizeGeneration, rows
<1>4. GenerationTypeOK'
  <2>1. generatedTimes' \in [Sessions -> [Times -> Nat]]
    BY <1>1, AddEventTyped DEF AuthorizeGeneration, GenerationInv, GenerationTypeOK
  <2>2. generatedCount' \in [Sessions -> Nat]
    BY <1>1 DEF AuthorizeGeneration, GenerationInv, GenerationTypeOK
  <2>3. QED
    BY <1>2, <1>3, <2>1, <2>2, PutTyped DEF GenerationInv, GenerationTypeOK
<1>5. ~generation[g].startedConsumed
  BY DEF AuthorizeGeneration, Exists, GenerationInv, Remembers
<1>6. generation[g].startedConsumed = FALSE
  BY <1>5 DEF GenerationInv, GenerationTypeOK, GenerationRow
<1>7. /\ Claimed(g, now, 1).startedConsumed = FALSE
      /\ Claimed(g, now, 1).status = "claimed"
  BY DEF Claimed
<1>8. QED
  BY <1>2, <1>3, <1>4, <1>6, <1>7, PutTyped, RemembersKept DEF GenerationInv

LEMMA ReclaimGenerationInv ==
  ASSUME GenerationInv, NEW now \in Times, NEW g \in Generations,
         ReclaimGeneration(now, g)
  PROVE  GenerationInv'
<1> DEFINE row == Claimed(g, now, generation[g].claimVersion + 1)
<1>1. row \in GenerationRow
  BY ClaimedTyped DEF GenerationInv, GenerationTypeOK, GenerationRow
<1>2. Put(g, row) /\ UNCHANGED <<session, generatedTimes, generatedCount,
                                 startTimes, startCount, starts>>
  BY DEF ReclaimGeneration, rows
<1>3. generation[g].startedConsumed = FALSE
  BY DEF ReclaimGeneration, Reclaimable, GenerationInv, GenerationTypeOK,
         GenerationRow
<1>4. row.startedConsumed = FALSE /\ row.status = "claimed"
  BY DEF Claimed
<1> HIDE DEF row
<1>5. QED
  BY <1>1, <1>2, <1>3, <1>4, PutTyped, RemembersKept, CountersTyped
     DEF GenerationInv

LEMMA ReturnsInv ==
  ASSUME GenerationInv, NEW g \in Generations, Returns(ClaimOf(g, generation[g])),
         UNCHANGED <<session, generation, generatedTimes, generatedCount,
                     startTimes, startCount, starts>>
  PROVE  GenerationInv'
BY ReturnsTyped DEF GenerationInv, GenerationTypeOK, Remembers, Over

\* An update that moves the lease of a row on, and its status at most.
LEMMA PutInv ==
  ASSUME GenerationInv, NEW g \in Generations, NEW row \in GenerationRow,
         Put(g, row), row.startedConsumed = generation[g].startedConsumed,
         row.status = "started" => generation[g].status = "started",
         row.status # "absent",
         UNCHANGED <<session, generatedTimes, generatedCount, startTimes,
                     startCount, starts>>
  PROVE  GenerationInv'
BY PutTyped, RemembersKept, CountersTyped DEF GenerationInv

LEMMA HeldRefers ==
  ASSUME GenerationInv, NEW claim \in held
  PROVE  claim.generation \in Generations /\ generation[claim.generation] \in GenerationRow
BY DEF GenerationInv, GenerationTypeOK, Claim

\* Updates of a generation row keep its type.
LEMMA RenewedRow ==
  ASSUME NEW row \in GenerationRow, NEW version \in Nat, NEW expires \in Nat
  PROVE  LET moved == [row EXCEPT !.leaseVersion = version, !.leaseExpiresAt = expires] IN
         /\ moved \in GenerationRow
         /\ moved.startedConsumed = row.startedConsumed
         /\ moved.status = row.status
BY DEF GenerationRow

LEMMA CompletedRow ==
  ASSUME NEW row \in GenerationRow, NEW version \in Nat, NEW expires \in Nat
  PROVE  LET moved == [row EXCEPT !.status = "completed", !.leaseVersion = version,
                                  !.leaseExpiresAt = expires] IN
         /\ moved \in GenerationRow
         /\ moved.startedConsumed = row.startedConsumed
         /\ moved.status = "completed"
BY DEF GenerationRow

LEMMA StartedRow ==
  ASSUME NEW row \in GenerationRow, NEW version \in Nat, NEW expires \in Nat
  PROVE  LET moved == [row EXCEPT !.status = "started", !.startedConsumed = TRUE,
                                  !.leaseVersion = version, !.leaseExpiresAt = expires] IN
         /\ moved \in GenerationRow
         /\ moved.startedConsumed = TRUE
         /\ moved.status = "started"
BY DEF GenerationRow

LEMMA HeartbeatGenerationInv ==
  ASSUME GenerationInv, NEW now \in Times, NEW claim \in held,
         HeartbeatGeneration(now, claim)
  PROVE  GenerationInv'
<1> DEFINE g       == claim.generation
           version == generation[g].leaseVersion + 1
           row     == [generation[g] EXCEPT !.leaseVersion = version,
                                            !.leaseExpiresAt = now + ActiveLease]
<1>1. g \in Generations /\ generation[g] \in GenerationRow
  BY HeldRefers
<1>2. now + ActiveLease \in Nat /\ version \in Nat
  BY <1>1, TimesNat, ConstantsAssumption DEF GenerationRow
<1>3. /\ row \in GenerationRow
      /\ row.startedConsumed = generation[g].startedConsumed
      /\ row.status = generation[g].status
  <2> HIDE DEF version
  <2>1. QED
    BY <1>1, <1>2, RenewedRow
<1>4. generation[g].status = "started"
  BY DEF HeartbeatGeneration, StartedBy
<1>5. Put(g, row) /\ UNCHANGED <<session, generatedTimes, generatedCount,
                                 startTimes, startCount, starts>>
  BY DEF HeartbeatGeneration, rows
<1> HIDE DEF row, g
<1>6. QED
  BY <1>1, <1>3, <1>4, <1>5, PutInv

LEMMA CompleteGenerationInv ==
  ASSUME GenerationInv, NEW now \in Times, NEW claim \in held,
         CompleteGeneration(now, claim)
  PROVE  GenerationInv'
<1> DEFINE g       == claim.generation
           version == generation[g].leaseVersion + 1
           row     == [generation[g] EXCEPT !.status = "completed",
                                            !.leaseVersion = version,
                                            !.leaseExpiresAt = now]
<1>1. /\ g \in Generations /\ generation[g] \in GenerationRow
      /\ now \in Nat /\ version \in Nat
  BY HeldRefers, TimesNat DEF GenerationRow
<1>2. /\ row \in GenerationRow
      /\ row.startedConsumed = generation[g].startedConsumed
      /\ row.status = "completed"
  <2> HIDE DEF version
  <2>1. QED
    BY <1>1, CompletedRow
<1>3. Put(g, row) /\ UNCHANGED <<session, generatedTimes, generatedCount,
                                 startTimes, startCount, starts>>
  BY DEF CompleteGeneration, rows
<1> HIDE DEF row, g
<1>4. QED
  BY <1>1, <1>2, <1>3, PutInv

LEMMA ReleaseGenerationInv ==
  ASSUME GenerationInv, NEW now \in Times, NEW claim \in held,
         ReleaseGeneration(now, claim)
  PROVE  GenerationInv'
<1> DEFINE g       == claim.generation
           version == generation[g].leaseVersion + 1
           source  == IF generation[g].startedConsumed
                      THEN generation[g].releasedFrom
                      ELSE ReleaseSource(generation[g])
           row     == [generation[g] EXCEPT
                         !.status = "released", !.leaseVersion = version,
                         !.leaseExpiresAt = now, !.releasedFrom = source]
<1>1. /\ g \in Generations /\ generation[g] \in GenerationRow
      /\ now \in Nat /\ version \in Nat
  BY HeldRefers, TimesNat DEF GenerationRow
<1>2. source \in [claimVersion : Nat, leaseVersion : Nat, leaseExpiresAt : Nat]
                   \cup {None}
  BY <1>1, ReleaseSourceTyped DEF GenerationRow
<1>3. Put(g, row) /\ UNCHANGED <<session, generatedTimes, generatedCount,
                                 startTimes, startCount, starts>>
  <2>1. row = [generation[g] EXCEPT
                 !.status = "released", !.leaseVersion = @ + 1, !.leaseExpiresAt = now,
                 !.releasedFrom = IF generation[g].startedConsumed THEN @
                                  ELSE ReleaseSource(generation[g])]
    BY <1>1 DEF GenerationRow
  <2>2. QED
    BY <2>1 DEF ReleaseGeneration, rows
<1>4. /\ row \in GenerationRow
      /\ row.startedConsumed = generation[g].startedConsumed
      /\ row.status = "released"
  <2> DEFINE old == generation[g]
  <2> HIDE DEF source, version, old
  <2>1. old \in GenerationRow
    BY <1>1 DEF old
  <2>2. row = [old EXCEPT !.status = "released", !.leaseVersion = version,
                          !.leaseExpiresAt = now, !.releasedFrom = source]
    BY DEF old
  <2> HIDE DEF row, g
  <2>3. row \in GenerationRow /\ row.startedConsumed = old.startedConsumed
          /\ row.status = "released"
    BY ONLY <1>1, <1>2, <2>1, <2>2 DEF GenerationRow
  <2>4. QED
    BY <2>3 DEF old
<1> HIDE DEF row, g
<1>5. QED
  BY <1>1, <1>3, <1>4, PutInv

LEMMA ProviderStartInv ==
  ASSUME GenerationInv, NEW now \in Times, NEW claim \in held,
         ProviderStart(now, claim)
  PROVE  GenerationInv' /\ starts[claim.generation] = 0
<1> DEFINE g       == claim.generation
           s       == SessionOf[g]
           version == generation[g].leaseVersion + 1
           row     == [generation[g] EXCEPT
                         !.status = "started", !.startedConsumed = TRUE,
                         !.leaseVersion = version,
                         !.leaseExpiresAt = now + ActiveLease]
<1>1. /\ g \in Generations /\ s \in Sessions /\ generation[g] \in GenerationRow
      /\ now + ActiveLease \in Nat /\ version \in Nat
  BY HeldRefers, GenerationAssumption, TimesNat, ConstantsAssumption DEF GenerationRow
<1>2. starts[g] = 0
  <2>1. ~Over(s)
    BY DEF ProviderStart, GenerationSessionActive, SessionActive, Over
  <2>2. ~generation[g].startedConsumed
    BY DEF ProviderStart
  <2>3. QED
    BY <1>1, <2>1, <2>2 DEF GenerationInv, GenerationTypeOK, Remembers
<1>3. /\ row \in GenerationRow /\ row.startedConsumed = TRUE /\ row.status = "started"
  <2> HIDE DEF version
  <2>1. QED
    BY <1>1, StartedRow
<1>4. /\ Put(g, row) /\ UNCHANGED <<session, generatedTimes, generatedCount>>
      /\ startTimes' = [startTimes EXCEPT ![s] = AddEvent(@, now, AttemptQuota)]
      /\ startCount' = [startCount EXCEPT ![s] = @ + 1]
      /\ starts' = [starts EXCEPT ![g] = @ + 1]
  BY DEF ProviderStart, rows
<1> HIDE DEF row, g, s
<1>5. starts' \in [Generations -> Nat] /\ starts'[g] = 1
        /\ \A h \in Generations : h # g => starts'[h] = starts[h]
  BY <1>1, <1>2, <1>4 DEF GenerationInv, GenerationTypeOK
<1>6. GenerationTypeOK'
  <2>1. startTimes' \in [Sessions -> [Times -> Nat]]
    BY <1>1, <1>4, AddEventTyped DEF GenerationInv, GenerationTypeOK
  <2>2. startCount' \in [Sessions -> Nat]
    BY <1>1, <1>4 DEF GenerationInv, GenerationTypeOK
  <2>3. QED
    BY <1>1, <1>3, <1>4, <1>5, <2>1, <2>2, PutTyped DEF GenerationInv, GenerationTypeOK
<1>7. \A h \in Generations : Remembers(h)'
  <2>1. Remembers(g)'
    BY <1>1, <1>3, <1>4, <1>5, PutTyped DEF GenerationInv, Remembers
  <2>2. ASSUME NEW h \in Generations, h # g PROVE Remembers(h)'
    BY <1>1, <1>3, <1>4, <1>5, <2>2, PutTyped DEF GenerationInv, Remembers, Over
  <2>3. QED
    BY <2>1, <2>2
<1>8. QED
  BY <1>2, <1>6, <1>7 DEF GenerationInv, g

\* Expiry of any number of rows.
LEMMA LapseInv ==
  ASSUME GenerationInv, NEW now \in Times, NEW G \in SUBSET Generations,
         \A g \in G : LeaseLapsed(g, now),
         generation' = [g \in Generations |->
                          IF g \in G THEN Expired(g, now) ELSE generation[g]],
         \A s \in Sessions : Over(s) => Over(s)',
         UNCHANGED <<held, generatedTimes, generatedCount, startTimes,
                     startCount, starts>>
  PROVE  GenerationInv'
<1>1. generation \in [Generations -> GenerationRow]
  BY DEF GenerationInv, GenerationTypeOK
<1>2. generation' \in [Generations -> GenerationRow]
  BY <1>1, ExpiredTyped
<1>3. ASSUME NEW g \in Generations PROVE Remembers(g)'
  <2>1. /\ generation'[g].startedConsumed = generation[g].startedConsumed
        /\ generation'[g].status = generation[g].status \/ generation'[g].status = "released"
    BY <1>1, ExpiredTyped
  <2>2. Remembers(g) /\ SessionOf[g] \in Sessions
    BY GenerationAssumption DEF GenerationInv
  <2>3. QED
    BY <2>1, <2>2 DEF Remembers
<1>4. QED
  BY <1>2, <1>3 DEF GenerationInv, GenerationTypeOK

LEMMA CleanupGenerationInv ==
  ASSUME GenerationInv, NEW now \in Times, NEW g \in Generations,
         CleanupGeneration(now, g)
  PROVE  GenerationInv'
<1>1. UNCHANGED <<session, held, generatedTimes, generatedCount, startTimes,
                  startCount, starts>>
  BY DEF CleanupGeneration, rows
<1>2. generation \in [Generations -> GenerationRow]
  BY DEF GenerationInv, GenerationTypeOK
<1>3. CASE Removable(g)
  <2>1. generation' = [generation EXCEPT ![g] = NoGeneration]
    BY <1>3 DEF CleanupGeneration
  <2>2. generation' \in [Generations -> GenerationRow]
    BY <1>2, <2>1, NoGenerationTyped
  <2>3. ASSUME NEW h \in Generations PROVE Remembers(h)'
    BY <1>1, <1>2, <1>3, <2>1 DEF GenerationInv, Remembers, Removable, Over, NoGeneration
  <2>4. QED
    BY <1>1, <2>2, <2>3 DEF GenerationInv, GenerationTypeOK
<1>4. CASE ~Removable(g)
  <2> DEFINE G == {g}
  <2>1. generation' = [h \in Generations |->
                         IF h \in G THEN Expired(h, now) ELSE generation[h]]
    BY <1>2, <1>4 DEF CleanupGeneration
  <2>2. G \in SUBSET Generations /\ \A h \in G : LeaseLapsed(h, now)
    BY <1>4 DEF CleanupGeneration
  <2>3. \A s \in Sessions : Over(s) => Over(s)'
    BY <1>1 DEF Over
  <2> HIDE DEF G
  <2>4. QED
    BY <1>1, <2>1, <2>2, <2>3, LapseInv
<1>5. QED
  BY <1>3, <1>4

LEMMA SnapshotGenerationsInv ==
  ASSUME TypeInv, GenerationInv, NEW now \in Times, SnapshotGenerations(now)
  PROVE  GenerationInv'
<1> DEFINE G == {g \in Generations : LeaseLapsed(g, now)}
<1>1. generation' = [g \in Generations |->
                       IF g \in G THEN Expired(g, now) ELSE generation[g]]
  BY DEF SnapshotGenerations
<1>2. \A s \in Sessions : Over(s) => Over(s)'
  BY SnapshotOver DEF SnapshotGenerations
<1>3. \A g \in G : LeaseLapsed(g, now)
  OBVIOUS
<1> HIDE DEF G
<1>4. G \in SUBSET Generations
  BY DEF G
<1>5. QED
  BY <1>1, <1>2, <1>3, <1>4, LapseInv DEF SnapshotGenerations

LEMMA GenerationStepInv ==
  ASSUME GenerationInv, NEW now \in Times, GenerationStep(now)
  PROVE  GenerationInv'
<1>1. ASSUME NEW g \in Generations,
             \/ AuthorizeGeneration(now, g) \/ ReclaimGeneration(now, g)
             \/ AuthorizeDuplicate(now, g) \/ CleanupGeneration(now, g)
      PROVE  GenerationInv'
  <2>1. CASE AuthorizeDuplicate(now, g)
    BY <2>1, ReturnsInv DEF AuthorizeDuplicate, rows
  <2>2. QED
    BY <1>1, <2>1, AuthorizeGenerationInv, ReclaimGenerationInv, CleanupGenerationInv
<1>2. ASSUME NEW claim \in held,
             \/ ProviderStart(now, claim) \/ ProviderStartRefused(now, claim)
             \/ HeartbeatGeneration(now, claim) \/ CompleteGeneration(now, claim)
             \/ ReleaseGeneration(now, claim) \/ RetryRelease(now, claim)
      PROVE  GenerationInv'
  <2>1. claim.generation \in Generations
    BY HeldRefers
  <2>2. CASE ProviderStartRefused(now, claim)
    BY <2>1, <2>2, ReturnsInv DEF ProviderStartRefused, rows
  <2>3. CASE RetryRelease(now, claim)
    BY <2>1, <2>3, ReturnsInv DEF RetryRelease, rows
  <2>4. QED
    BY <1>2, <2>2, <2>3, ProviderStartInv, HeartbeatGenerationInv,
       CompleteGenerationInv, ReleaseGenerationInv
<1>3. QED
  BY <1>1, <1>2 DEF GenerationStep

LEMMA GenerationInitInv == GenerationInit => GenerationInv
<1> SUFFICES ASSUME GenerationInit PROVE GenerationInv
  OBVIOUS
<1>1. generation \in [Generations -> GenerationRow]
  BY NoGenerationTyped DEF GenerationInit
<1>2. NoEvents \in [Times -> Nat]
  BY DEF NoEvents
<1>3. \A g \in Generations : Remembers(g)
  BY DEF GenerationInit, Remembers, NoGeneration
<1>4. QED
  BY <1>1, <1>2, <1>3 DEF GenerationInit, GenerationInv, GenerationTypeOK

LEMMA GenerationNextInv ==
  ASSUME TypeInv, GenerationInv, [GenerationNext]_vars
  PROVE  GenerationInv'
<1>1. ASSUME NEW now \in Times, StoreStep(now), UNCHANGED generationVars
      PROVE  GenerationInv'
  <2>1. ASSUME NEW g \in Generations PROVE Remembers(g)'
    BY <1>1, StoreStepOver, GenerationAssumption
       DEF generationVars, GenerationInv, Remembers
  <2>2. QED
    BY <1>1, <2>1 DEF generationVars, GenerationInv, GenerationTypeOK
<1>2. CASE UNCHANGED vars
  BY <1>2 DEF vars, storeVars, rows, generationVars, GenerationInv,
              GenerationTypeOK, Remembers, Over
<1>3. QED
  BY <1>1, <1>2, SnapshotGenerationsInv, GenerationStepInv DEF GenerationNext

\* Authorization rows, claims and counters agree at every step of the store, the
\* inductive invariant from which the four theorems below follow.
THEOREM GenerationInvariant == GenerationSpec => [](TypeInv /\ GenerationInv)
<1>1. TypeInv /\ GenerationInv /\ [GenerationNext]_vars => GenerationInv'
  BY GenerationNextInv
<1>2. GenerationSpec => []TypeInv
  BY GenerationUsesStore, TypeInvariant, PTL
<1>3. QED
  BY <1>1, <1>2, GenerationInitInv, PTL DEF GenerationSpec

\* Rows, claims and counters keep their shape through every step.
THEOREM GenerationTypeCorrect == GenerationSpec => []GenerationTypeOK
BY GenerationInvariant, PTL DEF GenerationInv

\* The paid provider request starts at most once for an accepted transcript,
\* for every number of callers, stale claims, releases, expiries and cleanups.
THEOREM ProviderStartsOnce == GenerationSpec => []StartOnce
<1>1. GenerationInv => StartOnce
  BY DEF GenerationInv, Remembers, StartOnce
<1>2. QED
  BY <1>1, GenerationInvariant, PTL

\* The row that remembers a start outlives every session that could ask again.
THEOREM StartIsRemembered == GenerationSpec => []StartRemembered
<1>1. GenerationInv => StartRemembered
  BY DEF GenerationInv, Remembers, StartRemembered, Over
<1>2. QED
  BY <1>1, GenerationInvariant, PTL

(***************************************************************************)
(* The refinement.  Every step starts one authorization, finishes some     *)
(* that run, or is invisible.                                              *)
(***************************************************************************)
\* No row begins to run except by a start, and starts are never undone.
PhaseMoves ==
  /\ starts' = starts
  /\ \A g \in Generations :
       generation'[g].status = "started" => generation[g].status = "started"

LEMMA PhaseMovesOnce ==
  ASSUME GenerationInv, PhaseMoves
  PROVE  [Once!Next]_Phase
<1> DEFINE G == {g \in Generations : Phase[g] = "running" /\ Phase'[g] = "over"}
<1>1. ASSUME NEW g \in Generations
      PROVE  Phase'[g] = IF g \in G THEN "over" ELSE Phase[g]
  BY DEF Phase, PhaseMoves
<1>2. CASE G = {}
  BY <1>1, <1>2 DEF Phase
<1>3. CASE G # {}
  <2>1. Phase' = [g \in Generations |-> IF g \in G THEN "over" ELSE Phase[g]]
    BY <1>1 DEF Phase
  <2>2. Once!Finish(G) /\ G \in SUBSET Generations
    BY <1>3, <2>1 DEF Once!Finish
  <2>3. QED
    BY <2>2 DEF Once!Next
<1>4. QED
  BY <1>2, <1>3

LEMMA PutMoves ==
  ASSUME GenerationInv, NEW g \in Generations, NEW row, Put(g, row),
         row.status = "started" => generation[g].status = "started",
         UNCHANGED starts
  PROVE  PhaseMoves
BY DEF Put, PhaseMoves, GenerationInv, GenerationTypeOK

LEMMA HeartbeatMoves ==
  ASSUME GenerationInv, NEW now \in Times, NEW claim \in held,
         HeartbeatGeneration(now, claim)
  PROVE  PhaseMoves
BY HeldRefers, PutMoves DEF HeartbeatGeneration, StartedBy

LEMMA CompleteMoves ==
  ASSUME GenerationInv, NEW now \in Times, NEW claim \in held,
         CompleteGeneration(now, claim)
  PROVE  PhaseMoves
BY HeldRefers, PutMoves DEF CompleteGeneration, StartedBy

LEMMA ReleaseMoves ==
  ASSUME GenerationInv, NEW now \in Times, NEW claim \in held,
         ReleaseGeneration(now, claim)
  PROVE  PhaseMoves
<1> DEFINE g   == claim.generation
           row == [generation[g] EXCEPT
                     !.status = "released", !.leaseVersion = @ + 1,
                     !.leaseExpiresAt = now,
                     !.releasedFrom = IF generation[g].startedConsumed THEN @
                                      ELSE ReleaseSource(generation[g])]
<1>1. g \in Generations /\ generation[g] \in GenerationRow
  BY HeldRefers
<1>2. Put(g, row) /\ UNCHANGED starts
  BY DEF ReleaseGeneration
<1>3. row.status = "released"
  BY <1>1 DEF GenerationRow
<1> HIDE DEF row, g
<1>4. QED
  BY <1>1, <1>2, <1>3, PutMoves

LEMMA StartMoves ==
  ASSUME GenerationInv, NEW now \in Times, NEW claim \in held,
         ProviderStart(now, claim)
  PROVE  Once!Next
<1> DEFINE g       == claim.generation
           version == generation[g].leaseVersion + 1
           row     == [generation[g] EXCEPT
                         !.status = "started", !.startedConsumed = TRUE,
                         !.leaseVersion = version,
                         !.leaseExpiresAt = now + ActiveLease]
<1>1. g \in Generations /\ generation[g] \in GenerationRow
  BY HeldRefers
<1>2. starts[g] = 0
  BY ProviderStartInv
<1>3. generation' = [generation EXCEPT ![g] = row] /\ starts' = [starts EXCEPT ![g] = @ + 1]
  BY DEF ProviderStart, Put
<1>4. row.status = "started"
  <2> HIDE DEF version
  <2>1. QED
    BY <1>1 DEF GenerationRow
<1> HIDE DEF row, g
<1>5. Phase' = [Phase EXCEPT ![g] = "running"]
  <2>1. /\ generation'[g] = row /\ starts'[g] = 1
        /\ \A h \in Generations : h # g =>
             generation'[h] = generation[h] /\ starts'[h] = starts[h]
    BY <1>1, <1>2, <1>3 DEF GenerationInv, GenerationTypeOK
  <2>2. Phase'[g] = "running" /\ \A h \in Generations : h # g => Phase'[h] = Phase[h]
    BY <1>1, <1>4, <2>1 DEF Phase
  <2>3. /\ Phase = [h \in Generations |-> Phase[h]]
        /\ Phase' = [h \in Generations |-> Phase'[h]]
    BY DEF Phase
  <2> HIDE DEF Phase
  <2>4. QED
    BY <1>1, <2>2, <2>3
<1>6. Phase[g] = "idle"
  BY <1>1, <1>2 DEF Phase
<1>7. QED
  BY <1>1, <1>5, <1>6 DEF Once!Next, Once!Start

LEMMA LapseMoves ==
  ASSUME GenerationInv, NEW now \in Times, UNCHANGED starts,
         \A g \in Generations :
           generation'[g] \in {generation[g], NoGeneration, Expired(g, now)}
  PROVE  PhaseMoves
BY ExpiredTyped DEF PhaseMoves, NoGeneration, GenerationInv, GenerationTypeOK

LEMMA GenerationStepMoves ==
  ASSUME GenerationInv, NEW now \in Times, GenerationStep(now)
  PROVE  [Once!Next]_Phase
<1>1. ASSUME NEW g \in Generations,
             \/ AuthorizeGeneration(now, g) \/ ReclaimGeneration(now, g)
             \/ AuthorizeDuplicate(now, g) \/ CleanupGeneration(now, g)
      PROVE  PhaseMoves
  <2>1. CASE AuthorizeGeneration(now, g)
    BY <2>1, PutMoves DEF AuthorizeGeneration, Claimed
  <2>2. CASE ReclaimGeneration(now, g)
    BY <2>2, PutMoves DEF ReclaimGeneration, Claimed
  <2>3. CASE AuthorizeDuplicate(now, g)
    BY <2>3 DEF AuthorizeDuplicate, PhaseMoves
  <2>4. CASE CleanupGeneration(now, g)
    BY <2>4, LapseMoves DEF CleanupGeneration, GenerationInv, GenerationTypeOK
  <2>5. QED
    BY <1>1, <2>1, <2>2, <2>3, <2>4
<1>2. ASSUME NEW claim \in held,
             \/ ProviderStart(now, claim) \/ ProviderStartRefused(now, claim)
             \/ HeartbeatGeneration(now, claim) \/ CompleteGeneration(now, claim)
             \/ ReleaseGeneration(now, claim) \/ RetryRelease(now, claim)
      PROVE  PhaseMoves \/ Once!Next
  BY <1>2, StartMoves, HeartbeatMoves, CompleteMoves, ReleaseMoves
     DEF ProviderStartRefused, RetryRelease, PhaseMoves
<1>3. QED
  BY <1>1, <1>2, PhaseMovesOnce DEF GenerationStep

LEMMA GenerationNextMoves ==
  ASSUME GenerationInv, [GenerationNext]_vars
  PROVE  [Once!Next]_Phase
<1>1. CASE UNCHANGED generationVars
  BY <1>1, PhaseMovesOnce DEF generationVars, PhaseMoves
<1>2. ASSUME NEW now \in Times, SnapshotGenerations(now) PROVE [Once!Next]_Phase
  BY <1>2, LapseMoves, PhaseMovesOnce DEF SnapshotGenerations
<1>3. QED
  BY <1>1, <1>2, GenerationStepMoves DEF GenerationNext, vars

\* The claims implement what GenerationOnce promises: each authorization goes
\* from idle to running to over, once, whatever its rows go through.
THEOREM ClaimsImplementOnce == GenerationSpec => ImplementsOnce
<1>1. GenerationInit => Once!Init
  BY DEF GenerationInit, Once!Init, Phase
<1>2. GenerationInv /\ [GenerationNext]_vars => [Once!Next]_Phase
  BY GenerationNextMoves
<1>3. QED
  BY <1>1, <1>2, GenerationInvariant, PTL DEF GenerationSpec, ImplementsOnce, Once!Spec

(***************************************************************************)
(* Charges.  A counter of a session is the number of its authorizations of *)
(* a kind, and its windows are those of SecurityQuotaProofs.  A row may go *)
(* only with the session, after which nothing is charged to it.            *)
(***************************************************************************)
Own(s) == {g \in Generations : SessionOf[g] = s}
Begun(s) == {g \in Own(s) : starts[g] > 0}
Standing(s) == {g \in Own(s) : Exists(g)}

Counted(S, n) == IsFiniteSet(S) /\ n = Cardinality(S)

SessionWindows(s, at) ==
  /\ Rolling(generatedTimes[s], GenerationQuota, at)
  /\ Rolling(startTimes[s], AttemptQuota, at)

Charged(s) ==
  /\ SessionWindows(s, latest)
  /\ Counted(Begun(s), startCount[s])
  /\ Over(s) \/ Counted(Standing(s), generatedCount[s])

ChargesCounted == \A s \in Sessions : Charged(s)

LEMMA NoneCounted == Counted({}, 0)
BY FS_EmptySet DEF Counted

LEMMA OneMoreCounted ==
  ASSUME NEW S, NEW n, NEW x, x \notin S, Counted(S, n)
  PROVE  Counted(S \cup {x}, n + 1)
BY FS_AddElement DEF Counted

LEMMA GenerationQuotasTyped ==
  GenerationQuota \in SUBSET Quota /\ AttemptQuota \in SUBSET Quota
BY GenerationAssumption

LEMMA SessionWindowsLater ==
  ASSUME NEW s, NEW at \in Nat, NEW later \in Nat, at <= later, SessionWindows(s, at)
  PROVE  SessionWindows(s, later)
BY RollingLater DEF SessionWindows

\* A step that charges nothing, and lets rows go only with their session.
LEMMA ChargedKept ==
  ASSUME NEW s \in Sessions, Charged(s), latest \in Nat, latest' \in Nat, latest <= latest',
         UNCHANGED <<generatedTimes, generatedCount, startTimes, startCount, starts>>,
         Over(s) => Over(s)',
         Over(s)' \/ \A g \in Own(s) : Exists(g)' <=> Exists(g)
  PROVE  Charged(s)'
<1>1. SessionWindows(s, latest')
  BY SessionWindowsLater DEF Charged
<1>2. SessionWindows(s, latest)'
  BY <1>1 DEF SessionWindows
<1>3. Begun(s)' = Begun(s)
  BY DEF Begun, Own
<1>4. Over(s)' \/ Standing(s)' = Standing(s)
  BY DEF Standing, Own
<1>5. QED
  BY <1>2, <1>3, <1>4 DEF Charged

LEMMA AllChargedKept ==
  ASSUME ChargesCounted, latest \in Nat, latest' \in Nat, latest <= latest',
         UNCHANGED <<generatedTimes, generatedCount, startTimes, startCount, starts>>,
         \A s \in Sessions : Over(s) => Over(s)',
         \A g \in Generations : Over(SessionOf[g])' \/ (Exists(g)' <=> Exists(g))
  PROVE  ChargesCounted'
BY ChargedKept DEF ChargesCounted, Own

LEMMA AuthorizeGenerationCharges ==
  ASSUME TypeInv, GenerationInv, ChargesCounted, NEW now \in Times,
         NEW g \in Generations, AuthorizeGeneration(now, g)
  PROVE  ChargesCounted'
<1> DEFINE s == SessionOf[g]
<1>1. /\ latest \in Nat /\ now \in Nat /\ latest <= now /\ latest' = now
      /\ UNCHANGED <<session, startTimes, startCount, starts>>
  BY ClockForward DEF AuthorizeGeneration, Context, rows
<1>2. /\ s \in Sessions /\ generatedTimes \in [Sessions -> [Times -> Nat]]
      /\ generatedCount \in [Sessions -> Nat] /\ generation \in [Generations -> GenerationRow]
  BY GenerationAssumption DEF GenerationInv, GenerationTypeOK
<1>3. /\ generatedTimes' = [generatedTimes EXCEPT
            ![s] = AddEvent(@, now, GenerationQuota)]
      /\ generatedCount' = [generatedCount EXCEPT ![s] = @ + 1]
      /\ generation' = [generation EXCEPT ![g] = Claimed(g, now, 1)]
      /\ Admits(generatedTimes[s], now, GenerationQuota)
      /\ ~Exists(g) /\ ~Over(s)
  BY DEF AuthorizeGeneration, Put, GenerationSessionActive, SessionActive, Over
<1>4. /\ Exists(g)'
      /\ \A h \in Generations : h # g => (Exists(h)' <=> Exists(h))
  BY <1>2, <1>3 DEF Exists, Claimed
<1>5. Charged(s)'
  <2>1. SessionWindows(s, now)
    BY <1>1, <1>2, SessionWindowsLater DEF ChargesCounted, Charged
  <2>2. Rolling(AddEvent(generatedTimes[s], now, GenerationQuota), GenerationQuota, now)
    BY <1>1, <1>2, <1>3, EventAdmitted, GenerationQuotasTyped
       DEF ChargesCounted, Charged, SessionWindows
  <2>3. SessionWindows(s, latest)'
    BY <1>1, <1>2, <1>3, <2>1, <2>2 DEF SessionWindows
  <2>4. Counted(Begun(s), startCount[s])'
    BY <1>1, <1>2 DEF ChargesCounted, Charged, Counted, Begun, Own
  <2>5. Standing(s)' = Standing(s) \cup {g}
    BY <1>4 DEF Standing, Own
  <2>6. g \notin Standing(s) /\ Counted(Standing(s), generatedCount[s])
    BY <1>2, <1>3 DEF Standing, ChargesCounted, Charged
  <2>7. Counted(Standing(s)', generatedCount[s]')
    BY <1>2, <1>3, <2>5, <2>6, OneMoreCounted
  <2>8. QED
    BY <2>3, <2>4, <2>7 DEF Charged, Counted
<1>6. ASSUME NEW r \in Sessions, r # s PROVE Charged(r)'
  <2>1. Charged(r) /\ SessionWindows(r, now)
    BY <1>1, SessionWindowsLater DEF ChargesCounted, Charged
  <2>2. SessionWindows(r, latest)' /\ generatedCount'[r] = generatedCount[r]
    BY <1>1, <1>2, <1>3, <1>6, <2>1 DEF SessionWindows
  <2>3. Begun(r)' = Begun(r) /\ Standing(r)' = Standing(r)
    BY <1>1, <1>4, <1>6 DEF Begun, Standing, Own
  <2>4. QED
    BY <1>1, <2>1, <2>2, <2>3 DEF Charged, Over
<1>7. QED
  BY <1>5, <1>6 DEF ChargesCounted

LEMMA ProviderStartCharges ==
  ASSUME TypeInv, GenerationInv, ChargesCounted, NEW now \in Times,
         NEW claim \in held, ProviderStart(now, claim)
  PROVE  ChargesCounted'
<1> DEFINE g == claim.generation
           s == SessionOf[g]
<1>1. /\ latest \in Nat /\ now \in Nat /\ latest <= now /\ latest' = now
      /\ UNCHANGED <<session, generatedTimes, generatedCount>>
  BY ClockForward DEF ProviderStart, Context, rows
<1>2. /\ g \in Generations /\ s \in Sessions /\ startTimes \in [Sessions -> [Times -> Nat]]
      /\ startCount \in [Sessions -> Nat] /\ generation \in [Generations -> GenerationRow]
      /\ starts \in [Generations -> Nat]
  BY HeldRefers, GenerationAssumption DEF GenerationInv, GenerationTypeOK
<1>3. /\ startTimes' = [startTimes EXCEPT ![s] = AddEvent(@, now, AttemptQuota)]
      /\ startCount' = [startCount EXCEPT ![s] = @ + 1]
      /\ starts' = [starts EXCEPT ![g] = @ + 1]
      /\ Admits(startTimes[s], now, AttemptQuota)
      /\ Exists(g) /\ starts[g] = 0
  BY ProviderStartInv DEF ProviderStart
<1>4. /\ generation'[g].status = "started"
      /\ \A h \in Generations : h # g => generation'[h] = generation[h]
  BY <1>2 DEF ProviderStart, Put, GenerationRow
<1>5. \A h \in Generations : Exists(h)' <=> Exists(h)
  BY <1>3, <1>4 DEF Exists
<1>6. starts'[g] = 1 /\ \A h \in Generations : h # g => starts'[h] = starts[h]
  BY <1>2, <1>3
<1> HIDE DEF g
<1>7. Charged(s)'
  <2>1. Charged(s) /\ SessionWindows(s, now)
    BY <1>1, <1>2, SessionWindowsLater DEF ChargesCounted, Charged
  <2>2. Rolling(AddEvent(startTimes[s], now, AttemptQuota), AttemptQuota, now)
    BY <1>1, <1>2, <1>3, <2>1, EventAdmitted, GenerationQuotasTyped
       DEF Charged, SessionWindows
  <2>3. SessionWindows(s, latest)'
    BY <1>1, <1>2, <1>3, <2>1, <2>2 DEF SessionWindows
  <2>4. Begun(s)' = Begun(s) \cup {g}
    BY <1>2, <1>6 DEF Begun, Own
  <2>5. g \notin Begun(s) /\ Counted(Begun(s), startCount[s])
    BY <1>3, <2>1 DEF Begun, Charged
  <2>6. Counted(Begun(s)', startCount[s]')
    BY <1>2, <1>3, <2>4, <2>5, OneMoreCounted
  <2>7. Standing(s)' = Standing(s)
    BY <1>5 DEF Standing, Own
  <2>8. QED
    BY <1>1, <2>1, <2>3, <2>6, <2>7 DEF Charged, Counted, Over
<1>8. ASSUME NEW r \in Sessions, r # s PROVE Charged(r)'
  <2>1. Charged(r) /\ SessionWindows(r, now)
    BY <1>1, SessionWindowsLater DEF ChargesCounted, Charged
  <2>2. SessionWindows(r, latest)' /\ startCount'[r] = startCount[r]
    BY <1>1, <1>2, <1>3, <1>8, <2>1 DEF SessionWindows
  <2>3. Begun(r)' = Begun(r) /\ Standing(r)' = Standing(r)
    BY <1>5, <1>6, <1>8 DEF Begun, Standing, Own
  <2>4. QED
    BY <1>1, <2>1, <2>2, <2>3 DEF Charged, Over
<1>9. QED
  BY <1>7, <1>8 DEF ChargesCounted

\* A row that is put in the place of another, and charges nothing.
LEMMA PutCharges ==
  ASSUME TypeInv, GenerationInv, ChargesCounted, NEW now \in Times, Context(now),
         NEW g \in Generations, NEW row, Put(g, row), Exists(g), row.status # "absent",
         UNCHANGED <<session, generatedTimes, generatedCount, startTimes, startCount, starts>>
  PROVE  ChargesCounted'
<1>1. latest \in Nat /\ latest' \in Nat /\ latest <= latest'
  BY ClockForward DEF Context
<1>2. \A h \in Generations : Exists(h)' <=> Exists(h)
  BY DEF Put, Exists, GenerationInv, GenerationTypeOK
<1>3. \A s \in Sessions : Over(s) => Over(s)'
  BY DEF Over
<1>4. QED
  BY <1>1, <1>2, <1>3, AllChargedKept

LEMMA RowsSame ==
  ASSUME TypeInv, ChargesCounted, NEW now \in Times, Context(now),
         UNCHANGED <<session, generation, generatedTimes, generatedCount, startTimes,
                     startCount, starts>>
  PROVE  ChargesCounted'
<1>1. latest \in Nat /\ latest' \in Nat /\ latest <= latest'
  BY ClockForward DEF Context
<1>2. \A h \in Generations : Exists(h)' <=> Exists(h)
  BY DEF Exists
<1>3. \A s \in Sessions : Over(s) => Over(s)'
  BY DEF Over
<1>4. QED
  BY <1>1, <1>2, <1>3, AllChargedKept

\* A row that lapses stays a row.
LEMMA LapsedStands ==
  ASSUME GenerationInv, NEW now \in Times, NEW g \in Generations, LeaseLapsed(g, now)
  PROVE  Exists(g) /\ Expired(g, now).status # "absent"
BY ExpiredTyped DEF GenerationInv, GenerationTypeOK, LeaseLapsed, Exists

LEMMA CleanupGenerationCharges ==
  ASSUME TypeInv, GenerationInv, ChargesCounted, NEW now \in Times,
         NEW g \in Generations, CleanupGeneration(now, g)
  PROVE  ChargesCounted'
<1>1. /\ Context(now) /\ Exists(g)
      /\ UNCHANGED <<session, generatedTimes, generatedCount, startTimes, startCount, starts>>
  BY DEF CleanupGeneration, rows
<1>2. latest \in Nat /\ latest' \in Nat /\ latest <= latest'
  BY <1>1, ClockForward DEF Context
<1>3. \A h \in Generations : Over(SessionOf[h])' \/ (Exists(h)' <=> Exists(h))
  <2>1. CASE Removable(g)
    BY <1>1, <2>1 DEF CleanupGeneration, Removable, Over, Exists, GenerationInv,
                      GenerationTypeOK
  <2>2. CASE ~Removable(g)
    BY <1>1, <2>2, LapsedStands
       DEF CleanupGeneration, Exists, GenerationInv, GenerationTypeOK
  <2>3. QED
    BY <2>1, <2>2
<1>4. \A s \in Sessions : Over(s) => Over(s)'
  BY <1>1 DEF Over
<1>5. QED
  BY <1>1, <1>2, <1>3, <1>4, AllChargedKept

LEMMA SnapshotGenerationsCharges ==
  ASSUME TypeInv, GenerationInv, ChargesCounted, NEW now \in Times,
         SnapshotGenerations(now)
  PROVE  ChargesCounted'
<1>1. latest \in Nat /\ latest' \in Nat /\ latest <= latest'
  BY ClockForward DEF SnapshotGenerations, Snapshot, Context
<1>2. \A h \in Generations : Exists(h)' <=> Exists(h)
  BY LapsedStands DEF SnapshotGenerations, Exists, GenerationInv, GenerationTypeOK
<1>3. \A s \in Sessions : Over(s) => Over(s)'
  BY SnapshotOver DEF SnapshotGenerations
<1>4. QED
  BY <1>1, <1>2, <1>3, AllChargedKept DEF SnapshotGenerations

\* A step of the rest of the store charges no generation.
LEMMA StoreStepForward ==
  ASSUME TypeInv, NEW now \in Times, StoreStep(now)
  PROVE  latest \in Nat /\ latest' \in Nat /\ latest <= latest'
<1>1. latest \in Nat
  BY DEF TypeInv, TypeOK
<1>2. CASE Context(now)
  BY <1>1, <1>2, ClockForward DEF Context
<1>3. CASE AudioStep(now)
  <2>1. \/ Context(now)
        \/ \E handoff \in Times : Accepts(now) /\ latest' = handoff /\ handoff >= now
    <3>1. ASSUME NEW s \in Sessions, NEW samples, NEW handoff \in Times,
                 RollBackAudio(now, s, samples, handoff)
          PROVE  Accepts(now) /\ latest' = handoff /\ handoff >= now
      BY <3>1, TimesNat DEF RollBackAudio
    <3>2. ASSUME NEW s \in Sessions, NEW samples, NEW handoff \in Times, NEW id,
                 ReserveAudio(now, id, s, samples, handoff)
                   \/ StrandAudio(now, id, s, samples, handoff)
          PROVE  Accepts(now) /\ latest' = handoff /\ handoff >= now
      BY <3>2, TimesNat DEF ReserveAudio, StrandAudio, ReservationCommitted
    <3>3. QED
      BY <1>3, <3>1, <3>2 DEF AudioStep, RefuseAudio, CleanupGrant
  <2>2. QED
    BY <1>1, <1>2, <2>1, ClockForward, TimesNat
<1>4. CASE Observe(now) \/ RefuseRedemption(now) \/ PairingStep(now)
  BY <1>2, <1>4 DEF Observe, RefuseRedemption, PairingStep, IssuePairing, RevokePairing,
                    CleanupPairing, RedeemPairing
<1>5. CASE CredentialStep(now) \/ InstallationStep(now)
  BY <1>2, <1>5
     DEF CredentialStep, AuthenticateCredential, PromoteCredential, CleanupCredential,
         RevokeCurrentInstallation, BeginCredentialRotation, IssueSessionTicket,
         InstallationStep, RevokeInstallation, CleanupInstallation
<1>6. CASE SessionStep(now)
  BY <1>2, <1>6 DEF SessionStep, ConsumeSessionTicket, CleanupTicket, ActivateSession,
                    HeartbeatSession, EndSession, CleanupSession
<1>7. QED
  BY <1>3, <1>4, <1>5, <1>6 DEF StoreStep

LEMMA GenerationStepCharges ==
  ASSUME TypeInv, GenerationInv, ChargesCounted, NEW now \in Times, GenerationStep(now)
  PROVE  ChargesCounted'
<1>1. ASSUME NEW g \in Generations,
             \/ AuthorizeGeneration(now, g) \/ ReclaimGeneration(now, g)
             \/ AuthorizeDuplicate(now, g) \/ CleanupGeneration(now, g)
      PROVE  ChargesCounted'
  <2>1. CASE ReclaimGeneration(now, g)
    <3>1. /\ Claimed(g, now, generation[g].claimVersion + 1).status # "absent"
          /\ Put(g, Claimed(g, now, generation[g].claimVersion + 1))
      BY <2>1 DEF ReclaimGeneration, Claimed
    <3>2. QED
      BY <2>1, <3>1, PutCharges DEF ReclaimGeneration, rows
  <2>2. CASE AuthorizeDuplicate(now, g)
    BY <2>2, RowsSame DEF AuthorizeDuplicate, rows
  <2>3. QED
    BY <1>1, <2>1, <2>2, AuthorizeGenerationCharges, CleanupGenerationCharges
<1>2. ASSUME NEW claim \in held,
             \/ ProviderStartRefused(now, claim)
             \/ HeartbeatGeneration(now, claim) \/ CompleteGeneration(now, claim)
             \/ ReleaseGeneration(now, claim) \/ RetryRelease(now, claim)
      PROVE  ChargesCounted'
  <2>1. claim.generation \in Generations
    BY HeldRefers
  <2>2. CASE ProviderStartRefused(now, claim) \/ RetryRelease(now, claim)
    BY <2>2, RowsSame DEF ProviderStartRefused, RetryRelease, rows
  <2>3. ASSUME HeartbeatGeneration(now, claim) \/ CompleteGeneration(now, claim)
                 \/ ReleaseGeneration(now, claim)
        PROVE  /\ Context(now) /\ Exists(claim.generation)
               /\ \E row : Put(claim.generation, row) /\ row.status # "absent"
               /\ UNCHANGED <<session, generatedTimes, generatedCount, startTimes,
                              startCount, starts>>
    <3> DEFINE g == claim.generation
    <3>1. generation[g] \in GenerationRow
      BY HeldRefers
    <3>2. CASE HeartbeatGeneration(now, claim)
      <4> DEFINE row == [generation[g] EXCEPT !.leaseVersion = @ + 1,
                                         !.leaseExpiresAt = now + ActiveLease]
      <4>1. row.status = generation[g].status
        BY <3>1 DEF GenerationRow
      <4>2. Put(g, row)
        BY <3>2 DEF HeartbeatGeneration
      <4> HIDE DEF row
      <4>3. QED
        BY <3>1, <3>2, <4>1, <4>2 DEF HeartbeatGeneration, StartedBy, Exists, rows
    <3>3. CASE CompleteGeneration(now, claim)
      <4> DEFINE row == [generation[g] EXCEPT !.status = "completed",
                                         !.leaseVersion = @ + 1,
                                         !.leaseExpiresAt = now]
      <4>1. row.status = "completed"
        BY <3>1 DEF GenerationRow
      <4>2. Put(g, row)
        BY <3>3 DEF CompleteGeneration
      <4> HIDE DEF row
      <4>3. QED
        BY <3>1, <3>3, <4>1, <4>2 DEF CompleteGeneration, StartedBy, Exists, rows
    <3>4. CASE ReleaseGeneration(now, claim)
      <4> DEFINE row == [generation[g] EXCEPT
                           !.status = "released", !.leaseVersion = @ + 1,
                           !.leaseExpiresAt = now,
                           !.releasedFrom = IF generation[g].startedConsumed THEN @
                                            ELSE ReleaseSource(generation[g])]
      <4>1. row.status = "released"
        BY <3>1 DEF GenerationRow
      <4>2. Put(g, row)
        BY <3>4 DEF ReleaseGeneration
      <4> HIDE DEF row
      <4>3. QED
        BY <3>1, <3>4, <4>1, <4>2 DEF ReleaseGeneration, Exists, rows
    <3>5. QED
      BY <2>3, <3>2, <3>3, <3>4
  <2>4. QED
    BY <1>2, <2>1, <2>2, <2>3, PutCharges
<1>3. QED
  BY <1>1, <1>2, ProviderStartCharges DEF GenerationStep

LEMMA GenerationNextCharges ==
  ASSUME TypeInv, GenerationInv, ChargesCounted, [GenerationNext]_vars
  PROVE  ChargesCounted'
<1>1. ASSUME NEW now \in Times, StoreStep(now), UNCHANGED generationVars
      PROVE  ChargesCounted'
  <2>1. \A h \in Generations : Exists(h)' <=> Exists(h)
    BY <1>1 DEF generationVars, Exists
  <2>2. \A s \in Sessions : Over(s) => Over(s)'
    BY <1>1, StoreStepOver
  <2>3. QED
    BY <1>1, <2>1, <2>2, StoreStepForward, AllChargedKept DEF generationVars
<1>2. CASE UNCHANGED vars
  <2>1. \A h \in Generations : Exists(h)' <=> Exists(h)
    BY <1>2 DEF vars, generationVars, Exists
  <2>2. \A s \in Sessions : Over(s) => Over(s)'
    BY <1>2 DEF vars, storeVars, rows, Over
  <2>3. latest \in Nat /\ latest' \in Nat /\ latest <= latest'
    BY <1>2 DEF vars, storeVars, TypeInv, TypeOK
  <2>4. QED
    BY <1>2, <2>1, <2>2, <2>3, AllChargedKept DEF vars, generationVars
<1>3. QED
  BY <1>1, <1>2, SnapshotGenerationsCharges, GenerationStepCharges DEF GenerationNext

LEMMA GenerationInitCharges == GenerationInit => ChargesCounted
<1>1. ASSUME GenerationInit, NEW s \in Sessions PROVE Charged(s)
  <2>1. SessionWindows(s, latest)
    BY <1>1, RollingEmpty, GenerationQuotasTyped DEF GenerationInit, SessionWindows
  <2>2. Begun(s) = {} /\ Standing(s) = {}
    BY <1>1 DEF GenerationInit, Begun, Standing, Own, Exists, NoGeneration
  <2>3. QED
    BY <1>1, <2>1, <2>2, NoneCounted DEF GenerationInit, Charged
<1>2. QED
  BY <1>1 DEF ChargesCounted

\* A transcript is charged to its session once for its authorization and once for
\* its start, for every number of transcripts, claims, callers and retries: the
\* session's counters are the exact numbers of its rows and starts while it can
\* ask, and no window of either quota is ever exceeded.
THEOREM TranscriptsChargedOnce == GenerationSpec => []ChargedOnce
<1>1. TypeInv /\ GenerationInv /\ ChargesCounted /\ [GenerationNext]_vars => ChargesCounted'
  BY GenerationNextCharges
<1>2. ChargesCounted => ChargedOnce
  <2>1. ASSUME ChargesCounted, NEW s \in Sessions
        PROVE  LET own == {g \in Generations : SessionOf[g] = s} IN
               /\ \A q \in GenerationQuota : Spread(generatedTimes[s], q)
               /\ \A q \in AttemptQuota : Spread(startTimes[s], q)
               /\ startCount[s] = Cardinality({g \in own : starts[g] > 0})
               /\ generatedCount[s] = Cardinality({g \in own : Exists(g)})
                    \/ session[s].status \in {"expired", "ended", "revoked", "deleted"}
    BY <2>1 DEF ChargesCounted, Charged, SessionWindows, Rolling, Counted, Begun,
                Standing, Own, Over
  <2>2. QED
    BY <2>1 DEF ChargedOnce
<1>3. QED
  BY <1>1, <1>2, GenerationInvariant, GenerationInitCharges, PTL DEF GenerationSpec
=============================================================================
