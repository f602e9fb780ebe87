-------------------------- MODULE AzureGeneration --------------------------
(***************************************************************************)
(* Generation authorizations and audio grants of the durable store         *)
(* (packages/security-state/src/azure-store.ts).  Their rows are in the    *)
(* rate table, the session and the installation they depend on in the      *)
(* security table: no transaction spans the two.  A call reads the session *)
(* before it writes and, where the write pays for something, once more     *)
(* afterwards (pc = "post"); an audio grant that fails that second look is *)
(* taken back (pc = "undo", then "restore").                               *)
(***************************************************************************)
EXTENDS AzureSecurity
LOCAL INSTANCE SequencesExt

CONSTANTS
  Generations,            \* accepted finals to authorize
  Utterances,
  GenerationsPerSession, AttemptsPerSession,
  AudioPeriod, AudioGrantTtl, MinHandoff, MaxAudioSamples

GenerationRequests ==
  {"authorize", "start", "beat", "complete", "release", "reserve", "sweepRate"}

(***************************************************************************)
(* Rows and keys of the rate table                                         *)
(***************************************************************************)
GenerationKey(g) == <<"generation", g>>
CounterKey(place) == <<"counter", place.installation, place.session, place.epoch>>
GrantKey(k) == <<"grant", k>>
InstallationAudio(place) == <<"audio", place.installation, None, 0>>
SessionAudio(place) ==
  <<"audio", place.installation, place.session, place.epoch>>

NoCounter ==
  [kind |-> "counter", generated |-> << >>, attempts |-> << >>,
   generatedTotal |-> 0, attemptTotal |-> 0]

NoAudio ==
  [kind |-> "audio", events |-> << >>, utterance |-> None, next |-> 0,
   expiresAt |-> 0]

NewGeneration(id, lease, inst, now) ==
  [kind |-> "generation", status |-> "claimed", id |-> id, version |-> 1,
   leaseVersion |-> 1, leaseExpiresAt |-> now + OpeningLease,
   startedBy |-> None, releasedFrom |-> None, completedAt |-> None,
   installation |-> lease.installation, session |-> lease.session,
   epoch |-> lease.epoch, credentialVersion |-> lease.credentialVersion,
   tombstoneVersion |-> inst.tombstoneVersion]

\* startedConsumed
Consumed(row) == row.startedBy # None

\* #claim, and #claimMatches against the row
Claim(g, row) ==
  [kind |-> "claim", generation |-> g, id |-> row.id, version |-> row.version,
   leaseVersion |-> row.leaseVersion, phase |-> row.status,
   expiresAt |-> row.leaseExpiresAt, installation |-> row.installation,
   session |-> row.session, epoch |-> row.epoch]
ClaimMatches(claim, row) == claim = Claim(claim.generation, row)

\* the lease or the claim that was presented
Place(k) == IF call[k].op \in {"authorize", "reserve"} THEN Arg(k).lease ELSE Arg(k)
Generation(k) == Seen(k, GenerationKey(Arg(k).generation))
SessionNow(k) == Seen(k, SessionKey(Place(k).installation))
InstallationNow(k) == Seen(k, InstallationKey(Place(k).installation))

\* #readActiveSession, of the rows it read
LeaseHolds(k, now) ==
  /\ SessionNow(k) # NoRow /\ InstallationNow(k) # NoRow
  /\ SessionActive(SessionNow(k), InstallationNow(k), now)
  /\ LeaseMatches(Arg(k).lease, SessionNow(k))

\* #generationSessionValid
SessionValid(k, now) ==
  LET row == Generation(k) IN
  /\ SessionNow(k) # NoRow /\ InstallationNow(k) # NoRow
  /\ SessionActive(SessionNow(k), InstallationNow(k), now)
  /\ SessionNow(k).id = Place(k).session
  /\ SessionNow(k).epoch = Place(k).epoch
  /\ row # NoRow /\ call[k].op # "beat" =>
       /\ SessionNow(k).credentialVersion = row.credentialVersion
       /\ InstallationNow(k).tombstoneVersion = row.tombstoneVersion

(***************************************************************************)
(* The order of the reads                                                  *)
(***************************************************************************)
Startable(k) ==
  LET row == Generation(k) IN
  /\ row # NoRow /\ ~Consumed(row)
  /\ row.status = "claimed" /\ ClaimMatches(Arg(k), row)
  /\ Now(k) < row.leaseExpiresAt

\* the caller runs the generation it presents a claim of
Runs(k) ==
  LET row == Generation(k) IN
  /\ row # NoRow /\ row.status = "started" /\ ClaimMatches(Arg(k), row)
  /\ Now(k) < row.leaseExpiresAt

Releasable(k) ==
  LET row == Generation(k) IN
  /\ row # NoRow /\ row.status \in {"claimed", "started"}
  /\ ClaimMatches(Arg(k), row)

SessionRows(k) ==
  LET i == Place(k).installation IN
  IF call[k].op \in {"authorize", "reserve"}
  THEN <<InstallationKey(i), SessionKey(i)>>
  ELSE <<SessionKey(i), InstallationKey(i)>>

AudioKeys(k) ==
  {InstallationAudio(Place(k)), SessionAudio(Place(k)), GrantKey(k)}

Swept(k) == Seen(k, Arg(k))
SweptOfSession(k) ==
  /\ Swept(k).kind \in {"counter", "audio"}
  /\ Arg(k)[3] # None

RateReads(k) ==
  CASE call[k].pc = "post" -> SessionRows(k)
    [] call[k].pc = "reconcile" ->
         <<IF call[k].op = "reserve" THEN GrantKey(k)
           ELSE GenerationKey(Arg(k).generation)>>
    [] call[k].op = "authorize" ->
         LET g == GenerationKey(Arg(k).generation) IN
         SessionRows(k)
           \o If(LeaseHolds(k, Now(k)), <<g>>)
           \o If(g \in DOMAIN call[k].seen /\ Generation(k) = NoRow,
                 <<CounterKey(Place(k))>>)
    [] call[k].op = "start" ->
         <<GenerationKey(Arg(k).generation)>>
           \o If(Startable(k), SessionRows(k))
           \o If(SessionValid(k, Now(k)), <<CounterKey(Place(k))>>)
    [] call[k].op \in {"beat", "complete"} ->
         <<GenerationKey(Arg(k).generation)>> \o If(Runs(k), SessionRows(k))
    [] call[k].op = "release" ->
         <<GenerationKey(Arg(k).generation)>>
           \o If(Releasable(k), <<SessionKey(Place(k).installation)>>)
    [] call[k].op = "sweepRate" ->
         <<Arg(k)>> \o If(SweptOfSession(k), <<SessionKey(Arg(k)[2])>>)
    [] OTHER -> SessionRows(k)

\* the reads under way: reserveAudio and its compensation read three at once
NextReads(k) ==
  IF call[k].pc = "undo" THEN AudioKeys(k) \ DOMAIN call[k].seen
  ELSE Unread(k, RateReads(k))
         \cup (IF /\ call[k].op = "reserve" /\ call[k].pc = "read"
                  /\ Unread(k, SessionRows(k)) = {}
               THEN AudioKeys(k) \ DOMAIN call[k].seen ELSE {})

ReadRateRow(k) ==
  /\ call[k].op \in GenerationRequests
  /\ call[k].pc \in {"read", "reconcile", "post", "undo"}
  /\ \E key \in NextReads(k) : PointRead(k, key)
  /\ UNCHANGED <<clock, handed>>

RateReady(k, op, pc) ==
  /\ call[k].op = op /\ call[k].pc = pc
  /\ NextReads(k) = {}
  /\ \A key \in DOMAIN call[k].seen : Readable(call[k].seen[key])

Returns(k, verdict, claim) ==
  /\ Answer(k, verdict, claim)
  /\ handed' = HandedWith(claim)
  /\ UNCHANGED clock

\* the write landed: look at the session again, at a new instant
Posted(k, value) ==
  [call[k] EXCEPT !.pc = "post", !.now = clock, !.seen = << >>, !.stale = {},
                  !.value = value]

(***************************************************************************)
(* authorizeGeneration                                                     *)
(***************************************************************************)
\* #authorizationResult: the row answers the caller as it is
Duplicate(row, now) ==
  \/ row.status \in {"completed", "started"}
  \/ row.status = "released" /\ Consumed(row)
  \/ row.status = "claimed" /\ now < row.leaseExpiresAt

Reclaimed(row, id, now) ==
  [row EXCEPT !.status = "claimed", !.id = id, !.version = @ + 1,
              !.leaseVersion = 1, !.leaseExpiresAt = now + OpeningLease,
              !.startedBy = None, !.releasedFrom = None]

MinutePruned(events, now, w) == Pruned(events, now, w)
Within(events, now, w) ==
  \A q \in Quotas[w] : Len(MinutePruned(events, now, w)) < q.limit

AuthorizeGeneration(k) ==
  LET g       == Arg(k).generation
      key     == GenerationKey(g)
      row     == Generation(k)
      known   == row # NoRow
      fresh   == NewGeneration(Drawn(k), Place(k), InstallationNow(k), Now(k))
      before  == Seen(k, CounterKey(Place(k)))
      counter == IF before = NoRow THEN NoCounter ELSE before
      admits  == /\ Within(counter.generated, Now(k), "generation")
                 /\ counter.generatedTotal < GenerationsPerSession
      charged ==
        CounterKey(Place(k)) :>
          [counter EXCEPT
             !.generated = Append(Pruned(@, Now(k), "generation"),
                                  [at |-> Now(k), op |-> g]),
             !.generatedTotal = @ + 1]
  IN
  /\ RateReady(k, "authorize", "read")
  /\ \/ ~LeaseHolds(k, Now(k)) /\ Refuse(k)
     \/ /\ LeaseHolds(k, Now(k)) /\ known
        /\ (Duplicate(row, Now(k)) \/ Consumed(row))
        /\ Returns(k, "duplicate", Claim(g, row))
     \/ \* an unstarted claim that lapsed or was released: no charge, no post
        /\ LeaseHolds(k, Now(k)) /\ known
        /\ ~(Duplicate(row, Now(k)) \/ Consumed(row))
        /\ LET next == Reclaimed(row, Drawn(k), Now(k)) IN
           /\ Submit(k, key :> next, << >>, Answered(k, "ok", Claim(g, next)),
                     Retried(k, clock), Retried(k, clock))
           /\ handed' = IF call'[k].verdict = "ok"
                        THEN HandedWith(Claim(g, next)) ELSE handed
           /\ UNCHANGED clock
     \/ LeaseHolds(k, Now(k)) /\ ~known /\ ~admits /\ Refuse(k)
     \/ /\ LeaseHolds(k, Now(k)) /\ ~known /\ admits
        /\ LET doubt == InDoubt(k, << >>, Claim(g, fresh)) IN
           Submit(k, IF before = NoRow THEN << >> ELSE charged,
                  key :> fresh @@ (IF before = NoRow THEN charged ELSE << >>),
                  Posted(k, Claim(g, fresh)), doubt, doubt)
        /\ UNCHANGED <<clock, handed>>

AuthorizeReconcile(k) ==
  LET g   == Arg(k).generation
      row == Generation(k)
      mine == row # NoRow /\ row.id = Drawn(k)
  IN
  /\ RateReady(k, "authorize", "reconcile")
  /\ \/ mine /\ Becomes(k, Posted(k, Claim(g, row))) /\ UNCHANGED <<clock, handed>>
     \/ /\ row # NoRow /\ ~mine /\ Duplicate(row, Now(k))
        /\ Returns(k, "duplicate", Claim(g, row))
     \/ /\ (row # NoRow => ~mine /\ ~Duplicate(row, Now(k)))
        /\ Becomes(k, Retried(k, clock)) /\ UNCHANGED <<clock, handed>>

\* a session that ended meanwhile: the row stays claimed until it lapses
AuthorizePost(k) ==
  /\ RateReady(k, "authorize", "post")
  /\ IF LeaseHolds(k, Now(k)) THEN Returns(k, "ok", call[k].value)
     ELSE Refuse(k)

(***************************************************************************)
(* providerStart.  The operation is named by the call, not the attempt.    *)
(***************************************************************************)
Started(row, k, now) ==
  [row EXCEPT !.status = "started", !.startedBy = k, !.leaseVersion = @ + 1,
              !.leaseExpiresAt = now + ActiveLease]

\* the row still is of the caller's claim, whatever became of it
SameClaim(k) == Generation(k) # NoRow /\ Generation(k).id = Arg(k).id

ProviderStart(k) ==
  LET g       == Arg(k).generation
      row     == Generation(k)
      next    == Started(row, k, Now(k))
      before  == Seen(k, CounterKey(Place(k)))
      counter == IF before = NoRow THEN NoCounter ELSE before
      admits  == /\ Within(counter.attempts, Now(k), "attempt")
                 /\ counter.attemptTotal < AttemptsPerSession
      charged ==
        CounterKey(Place(k)) :>
          [counter EXCEPT
             !.attempts = Append(Pruned(@, Now(k), "attempt"),
                                 [at |-> Now(k), op |-> k]),
             !.attemptTotal = @ + 1]
      writes == GenerationKey(g) :> next
  IN
  /\ RateReady(k, "start", "read")
  /\ \/ ~SameClaim(k) /\ Refuse(k)
     \/ /\ SameClaim(k) /\ Consumed(row)
        /\ Returns(k, "consumed", Claim(g, row))
     \/ /\ SameClaim(k) /\ ~Consumed(row)
        /\ ~(Startable(k) /\ SessionValid(k, Now(k)) /\ admits) /\ Refuse(k)
     \/ /\ Startable(k) /\ SessionValid(k, Now(k)) /\ admits
        /\ UNCHANGED <<clock, handed>>
        /\ IF before = NoRow
           THEN Submit(k, writes, charged, Posted(k, Claim(g, next)),
                       InDoubt(k, << >>, Claim(g, next)), Retried(k, clock))
           ELSE Submit(k, writes @@ charged, << >>, Posted(k, Claim(g, next)),
                       InDoubt(k, << >>, Claim(g, next)), Retried(k, clock))

StartedByMe(k) == Generation(k) # NoRow /\ Generation(k).startedBy = k

StartReconcile(k) ==
  LET g == Arg(k).generation
      row == Generation(k) IN
  /\ RateReady(k, "start", "reconcile")
  /\ \/ /\ StartedByMe(k) /\ Becomes(k, Posted(k, Claim(g, row)))
        /\ UNCHANGED <<clock, handed>>
     \/ /\ row # NoRow /\ ~StartedByMe(k) /\ Consumed(row)
        /\ Returns(k, "consumed", Claim(g, row))
     \/ /\ (row # NoRow => ~StartedByMe(k) /\ ~Consumed(row))
        /\ Becomes(k, Retried(k, clock)) /\ UNCHANGED <<clock, handed>>

\* the start is spent even when the session has ended under it
StartPost(k) ==
  /\ RateReady(k, "start", "post")
  /\ Returns(k, IF SessionValid(k, Now(k)) THEN "ok" ELSE "consumed",
             call[k].value)

(***************************************************************************)
(* heartbeatGeneration, completeGeneration, releaseGeneration              *)
(***************************************************************************)
Beaten(row, now) ==
  [row EXCEPT !.leaseVersion = @ + 1, !.leaseExpiresAt = now + ActiveLease]
Completed(row, now) ==
  [row EXCEPT !.status = "completed", !.leaseVersion = @ + 1,
              !.leaseExpiresAt = now, !.completedAt = now]
Released(row, now) ==
  [row EXCEPT !.status = "released", !.leaseVersion = @ + 1,
              !.leaseExpiresAt = now,
              !.releasedFrom = <<row.version, row.leaseVersion, row.leaseExpiresAt>>]

Changed(k) ==
  CASE call[k].op = "beat" -> Beaten(Generation(k), Now(k))
    [] call[k].op = "complete" -> Completed(Generation(k), Now(k))
    [] OTHER -> Released(Generation(k), Now(k))

\* a release that was done before, and its retry
ReleasedBefore(k) ==
  LET row == Generation(k) IN
  /\ row # NoRow /\ row.status = "released"
  /\ \/ ClaimMatches(Arg(k), row)
     \/ /\ Arg(k).phase \in {"claimed", "started"} /\ SameClaim(k)
        /\ row.releasedFrom =
             <<Arg(k).version, Arg(k).leaseVersion, Arg(k).expiresAt>>

MayChange(k) ==
  CASE call[k].op = "release" ->
         /\ Releasable(k)
         /\ ~(/\ SessionNow(k) # NoRow
              /\ SessionNow(k).epoch = Place(k).epoch
              /\ SessionNow(k).id # Place(k).session)
    [] OTHER -> Runs(k) /\ SessionValid(k, Now(k))

ChangeGeneration(k, op) ==
  LET g == Arg(k).generation
      next == Changed(k)
      before == op = "release" /\ ReleasedBefore(k) IN
  /\ RateReady(k, op, "read")
  /\ \/ before /\ Returns(k, "ok", Claim(g, Generation(k)))
     \/ ~before /\ ~MayChange(k) /\ Refuse(k)
     \/ /\ ~before /\ MayChange(k)
        /\ Submit(k, GenerationKey(g) :> next, << >>,
                  Answered(k, "ok", Claim(g, next)),
                  InDoubt(k, GenerationKey(g) :> next, Claim(g, next)),
                  Retried(k, clock))
        /\ handed' = IF call'[k].verdict = "ok"
                     THEN HandedWith(Claim(g, next)) ELSE handed
        /\ UNCHANGED clock

HeartbeatGeneration(k) == ChangeGeneration(k, "beat")
CompleteGeneration(k) == ChangeGeneration(k, "complete")
ReleaseGeneration(k) == ChangeGeneration(k, "release")

ChangeReconcile(k, op) ==
  LET g    == Arg(k).generation
      row  == Generation(k)
      plan == call[k].plan[GenerationKey(g)]
      mine ==
        /\ row # NoRow /\ row.status = plan.status /\ row.id = plan.id
        /\ op = "beat" => /\ row.leaseVersion = plan.leaseVersion
                          /\ row.leaseExpiresAt = plan.leaseExpiresAt
        /\ op = "complete" => row.completedAt = plan.completedAt
  IN
  /\ RateReady(k, op, "reconcile")
  /\ IF mine THEN Returns(k, "ok", Claim(g, row))
     ELSE Becomes(k, Retried(k, clock)) /\ UNCHANGED <<clock, handed>>

(***************************************************************************)
(* reserveAudio.  The instant of a grant is observed after the windows are *)
(* read, so the events of a window are written in order.                   *)
(***************************************************************************)
AudioOf(k, key) == IF Seen(k, key) = NoRow THEN NoAudio ELSE Seen(k, key)

AudioPruned(events, now) ==
  SelectSeq(events, LAMBDA e : e.at > now - AudioPeriod)

\* sumEvents
Samples(events) == FoldSeq(LAMBDA e, sum : e.amount + sum, 0, events)

\* the samples follow those already granted to the utterance
Follows(window, u, from, now) ==
  IF window.utterance = u THEN from = window.next
  ELSE from = 0 /\ (window.utterance = None \/ now >= window.expiresAt)

\* at least this much of a grant's life is left when it is handed over
Handover(k) ==
  /\ LeaseHolds(k, clock)
  /\ call[k].value.expiresAt - clock >= MinHandoff

Granted(k, now) ==
  [kind |-> "grant", utterance |-> Arg(k).utterance, from |-> Arg(k).from,
   through |-> Arg(k).from + Arg(k).samples, issuedAt |-> now,
   expiresAt |-> now + AudioGrantTtl, lease |-> Arg(k).lease]

\* forgets to charge the samples to the window
FaultyAudioAfter(k, window, now) ==
  [window EXCEPT
     !.events = AudioPruned(@, now), !.utterance = Arg(k).utterance,
     !.next = Arg(k).from + Arg(k).samples, !.expiresAt = now + AudioGrantTtl]
AudioAfter(k, window, now) ==
  [window EXCEPT
     !.events = Append(AudioPruned(@, now),
                       [at |-> now, op |-> k, amount |-> Arg(k).samples]),
     !.utterance = Arg(k).utterance, !.next = Arg(k).from + Arg(k).samples,
     !.expiresAt = now + AudioGrantTtl]

ReserveAudio(k) ==
  LET i == InstallationAudio(Place(k))
      s == SessionAudio(Place(k))
      fits(window) ==
        Samples(AudioPruned(window.events, clock)) + Arg(k).samples <= MaxAudioSamples
      allowed == Follows(AudioOf(k, s), Arg(k).utterance, Arg(k).from, clock)
                   /\ fits(AudioOf(k, i)) /\ fits(AudioOf(k, s))
      after(key) == key :> AudioAfter(k, AudioOf(k, key), clock)
      restored(key) ==
        key :> [AudioOf(k, key) EXCEPT !.events = AudioPruned(@, clock)]
      grant == Granted(k, clock)
      old == {key \in {i, s} : Seen(k, key) # NoRow}
      rows(keys) == (IF i \in keys THEN after(i) ELSE << >>)
                      @@ (IF s \in keys THEN after(s) ELSE << >>)
      \* what a compensation expects to find, and what it puts back
      memory == [after |-> after(i) @@ after(s) @@ (GrantKey(k) :> grant),
                 before |-> restored(i) @@ restored(s)]
      doubt == [InDoubt(k, << >>, grant) EXCEPT !.plan = memory]
  IN
  /\ RateReady(k, "reserve", "read")
  /\ UNCHANGED <<clock, handed>>
  /\ \/ Seen(k, GrantKey(k)) # NoRow /\ Answer(k, "unavailable", NoRow)
     \/ /\ Seen(k, GrantKey(k)) = NoRow
        /\ ~(LeaseHolds(k, clock) /\ allowed) /\ Answer(k, "refused", NoRow)
     \/ /\ Seen(k, GrantKey(k)) = NoRow
        /\ LeaseHolds(k, clock) /\ allowed
        /\ Submit(k, rows(old), rows({i, s} \ old) @@ (GrantKey(k) :> grant),
                  [Posted(k, grant) EXCEPT !.plan = memory], doubt,
                  Retried(k, clock))

ReserveReconcile(k) ==
  LET row == Seen(k, GrantKey(k)) IN
  /\ RateReady(k, "reserve", "reconcile")
  /\ UNCHANGED <<clock, handed>>
  /\ \/ row = call[k].value /\ Becomes(k, Posted(k, row))
     \/ row = NoRow /\ Becomes(k, Retried(k, clock))

\* #validateAudioGrantHandoff
ReservePost(k) ==
  /\ RateReady(k, "reserve", "post")
  /\ UNCHANGED <<clock, handed>>
  /\ IF Handover(k) THEN Answer(k, "ok", call[k].value)
     ELSE Becomes(k, [call[k] EXCEPT !.pc = "undo", !.seen = << >>, !.stale = {},
            !.verdict = IF LeaseHolds(k, clock) THEN "unavailable" ELSE "refused"])

(***************************************************************************)
(* #releaseCommittedAudioGrant: the grant first, then both windows.  It    *)
(* gives up at whatever differs from what was written, and at any error.   *)
(***************************************************************************)
GivenUp(k) == Answered(k, call[k].verdict, NoRow)

Untouched(k) ==
  \A key \in AudioKeys(k) : Seen(k, key) = call[k].plan.after[key]

UndoGrant(k) ==
  /\ call[k].op = "reserve" /\ call[k].pc = "undo" /\ NextReads(k) = {}
  /\ UNCHANGED <<clock, handed>>
  /\ IF Untouched(k)
     THEN Delete(k, GrantKey(k), [call[k] EXCEPT !.pc = "restore"], GivenUp(k))
     ELSE Becomes(k, GivenUp(k))

RestoreWindows(k) ==
  /\ call[k].pc = "restore"
  /\ UNCHANGED <<clock, handed>>
  /\ Submit(k, call[k].plan.before, << >>, GivenUp(k), GivenUp(k), GivenUp(k))

(***************************************************************************)
(* Cleanup of a row of the rate table (#rateRemovable)                     *)
(***************************************************************************)
RateRemovable(k) ==
  LET row == Swept(k)
      s   == Seen(k, SessionKey(Arg(k)[2]))
      own == s # NoRow /\ s.id = Arg(k)[3] /\ s.epoch = Arg(k)[4] IN
  CASE row.kind = "counter" -> ~(own /\ Live(s))
    [] row.kind = "audio" ->
         /\ SweptOfSession(k) => ~(own /\ Live(s) /\ Now(k) < s.leaseExpiresAt)
         /\ Now(k) >= row.expiresAt
    [] row.kind = "grant" -> Now(k) >= row.expiresAt
    [] OTHER -> FALSE  \* retainUntil is further off than any run

SweepRate(k) ==
  LET done == Answered(k, "ok", Nothing) IN
  /\ RateReady(k, "sweepRate", "read")
  /\ UNCHANGED <<clock, handed>>
  /\ \/ Swept(k) # NoRow /\ RateRemovable(k) /\ Delete(k, Arg(k), done, done)
     \/ ~(Swept(k) # NoRow /\ RateRemovable(k)) /\ Becomes(k, done)

(***************************************************************************)
(* Callers                                                                 *)
(***************************************************************************)
Claims == {h \in handed : h.kind = "claim"}
RateRows ==
  {key \in DOMAIN table : key[1] \in {"generation", "counter", "audio", "grant"}}

RateArguments(op) ==
  CASE op = "authorize" -> [lease : Leases, generation : Generations]
    [] op = "reserve" ->
         [lease : Leases, utterance : Utterances, from : {0, 1}, samples : {1}]
    [] op = "sweepRate" -> RateRows
    [] OTHER -> Claims

StartRate(k) ==
  /\ call[k].op = "none"
  /\ \E op \in Requests \cap GenerationRequests :
       \E arg \in RateArguments(op) : Becomes(k, Make(k, op, arg, clock))
  /\ UNCHANGED <<clock, handed>>

GenerationNext ==
  \E k \in Calls :
    \/ StartRate(k) \/ ReadRateRow(k)
    \/ AuthorizeGeneration(k) \/ AuthorizeReconcile(k) \/ AuthorizePost(k)
    \/ ProviderStart(k) \/ StartReconcile(k) \/ StartPost(k)
    \/ HeartbeatGeneration(k) \/ CompleteGeneration(k) \/ ReleaseGeneration(k)
    \/ \E op \in {"beat", "complete", "release"} : ChangeReconcile(k, op)
    \/ ReserveAudio(k) \/ ReserveReconcile(k) \/ ReservePost(k)
    \/ UndoGrant(k) \/ RestoreWindows(k) \/ SweepRate(k)

(***************************************************************************)
(* Properties                                                              *)
(***************************************************************************)
\* A start is permitted once: a call that was told start-permitted is the one
\* its row was started by, so of two concurrent starts, an ambiguous start and
\* its retry, or a start under a reclaimed authorization, one pays.
PermittedOnce ==
  \A k \in Calls : call[k].op = "start" /\ call[k].verdict = "ok" =>
    LET row == Row(GenerationKey(Arg(k).generation)) IN
    row # NoRow /\ row.startedBy = k

\* The counters of a session that can still ask are exact: one generation for
\* each authorization row, one attempt for each that was ever started.
CountersExact ==
  \A key \in Rows("session") :
    LET s     == table[key]
        place == [installation |-> key[2], session |-> s.id, epoch |-> s.epoch]
        own   == {g \in Rows("generation") :
                    table[g].session = s.id /\ table[g].epoch = s.epoch}
        c     == Row(CounterKey(place)) IN
    Live(s) /\ c # NoRow =>
      /\ c.generatedTotal = Cardinality(own)
      /\ c.attemptTotal = Cardinality({g \in own : Consumed(table[g])})

\* Nobody pays twice, and nobody starts for nothing.
ChargedAsPermitted == PermittedOnce /\ CountersExact

\* Audio grants that are good at the same time are of one utterance, cover no
\* sample twice and are charged to the window of their session.
GrantsDisjoint ==
  LET good == {k \in Calls : /\ call[k].op = "reserve" /\ call[k].verdict = "ok"
                             /\ clock < call[k].value.expiresAt} IN
  /\ \A k, x \in good :
       LET a == call[k].value
           b == call[x].value IN
       k # x /\ a.lease.session = b.lease.session =>
         /\ a.utterance = b.utterance
         /\ a.through <= b.from \/ b.through <= a.from
  /\ \A k \in good :
       LET w == Row(SessionAudio(call[k].value.lease)) IN
       w # NoRow /\ \E n \in DOMAIN w.events : w.events[n].op = k
=============================================================================
