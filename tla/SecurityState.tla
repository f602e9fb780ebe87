--------------------------- MODULE SecurityState ---------------------------
(***************************************************************************)
(* The security-state store of the relay                                   *)
(* (packages/security-state/src/store.ts): pairing codes, installations    *)
(* and their rotating credentials, single-use session tickets, leased      *)
(* sessions, audio grants and the rolling quotas that guard them.          *)
(*                                                                         *)
(* A call runs in one JavaScript turn: it observes the clock, then commits *)
(* (#context, #commit), so a call is one action.  A call that is refused   *)
(* changes no row; what is left of it is the clock observation             *)
(* (action Observe), and for a refused redemption the attempt it charges   *)
(* (action RefuseRedemption).                                              *)
(*                                                                         *)
(* Row identifiers are 256-bit random tokens or UUIDs, so an identifier    *)
(* whose row was cleaned up ("deleted") is never generated again.  A       *)
(* session row keeps the ticket that opened it as history.                 *)
(***************************************************************************)
EXTENDS Integers, FiniteSets

\* An operator named Faulty... is a plausible mistake in the operator defined
\* after it; the runs show that a property tells the two apart.

CONSTANTS
  Pairings, Installations, Credentials, Tickets, Sessions, GrantIds,
  None,                 \* absent optional field
  MaxTime,              \* bound: last instant the clock can show
  ClockTolerance,       \* CLOCK_BACKWARDS_TOLERANCE_MS
  PairingTtl, CredentialIdleTtl, CredentialAbsoluteTtl, PendingCredentialTtl,
  TicketTtl, OpeningLease, ActiveLease, TombstoneTtl,
  AudioGrantTtl, MinAudioGrantHandoff,
  AudioPeriod,          \* AUDIO_RESERVATION_WINDOW_MS
  MaxAudioGrantSamples, MaxAudioSamplesPerWindow, MaxAudioGrantsPerWindow,
  PairIssueQuota,       \* quotas: sets of [period, limit]
  PairAttemptQuota, TicketQuota, ReconnectQuota

Quota == [period : Nat \ {0}, limit : Nat]

ASSUME ConstantsAssumption ==
  /\ {MaxTime, ClockTolerance, PairingTtl, CredentialIdleTtl,
      CredentialAbsoluteTtl, PendingCredentialTtl, TicketTtl, OpeningLease,
      ActiveLease, TombstoneTtl, AudioGrantTtl, MinAudioGrantHandoff,
      AudioPeriod, MaxAudioGrantSamples, MaxAudioSamplesPerWindow,
      MaxAudioGrantsPerWindow} \subseteq Nat
  /\ PairIssueQuota \subseteq Quota /\ PairAttemptQuota \subseteq Quota
  /\ TicketQuota \subseteq Quota /\ ReconnectQuota \subseteq Quota
  /\ None \notin Pairings \cup Installations \cup Credentials \cup Tickets
                  \cup Sessions \cup Nat

VARIABLES
  latest,         \* #latestAcceptedObservation
  pairing, installation, credential, ticket, session,   \* the tables, by id
  grants,         \* the grant table
  issueTimes,     \* #operatorIssueRates (one operator)
  attemptTimes,   \* #pairAttempt...Rates (one trusted source)
  ticketTimes,    \* #ticket...Rates, by installation
  reconnectTimes, \* #reconnect...Rates, by installation
  audioLog        \* audioWindow and grantWindow, by installation

rows == <<pairing, installation, credential, ticket, session, grants>>
rates == <<issueTimes, attemptTimes, ticketTimes, reconnectTimes, audioLog>>
storeVars == <<latest, rows, rates>>

Times == 0..MaxTime

(***************************************************************************)
(* Rows                                                                    *)
(***************************************************************************)
NoPairing == [status |-> "absent", expiresAt |-> 0]

NoCredential ==
  [status |-> "absent", installation |-> None, version |-> 0,
   absoluteExpiresAt |-> 0, idleExpiresAt |-> 0]

NoInstallation ==
  [status |-> "absent", absoluteExpiresAt |-> 0, endedAt |-> 0,
   tombstoneVersion |-> 0, current |-> None, currentVersion |-> 0,
   pending |-> None, pendingVersion |-> 0, pendingExpiresAt |-> 0,
   sessionEpoch |-> 0, activeSession |-> None]

NoTicket ==
  [status |-> "absent", installation |-> None, tombstoneVersion |-> 0,
   credentialVersion |-> 0, expiresAt |-> 0]

NoSession ==
  [status |-> "absent", installation |-> None, epoch |-> 0,
   credentialVersion |-> 0, tombstoneVersion |-> 0, leaseExpiresAt |-> 0,
   ticket |-> None]

\* empty rate windows: events, grants and samples by instant
NoEvents == [t \in Times |-> 0]
NoAudio == [e \in Sessions \X Times |-> [grants |-> 0, samples |-> 0]]

Init ==
  /\ latest = 0
  /\ pairing = [p \in Pairings |-> NoPairing]
  /\ installation = [i \in Installations |-> NoInstallation]
  /\ credential = [c \in Credentials |-> NoCredential]
  /\ ticket = [t \in Tickets |-> NoTicket]
  /\ session = [s \in Sessions |-> NoSession]
  /\ grants = {}
  /\ issueTimes = NoEvents /\ attemptTimes = NoEvents
  /\ ticketTimes = [i \in Installations |-> NoEvents]
  /\ reconnectTimes = [i \in Installations |-> NoEvents]
  /\ audioLog = [i \in Installations |-> NoAudio]

(***************************************************************************)
(* The clock.  #context refuses a clock that fell back by more than the    *)
(* tolerance and otherwise never lets time run backwards.                  *)
(***************************************************************************)
FaultyObserved(reading) == reading
Observed(reading) == IF reading < latest THEN latest ELSE reading

Accepts(now) ==
  \E reading \in Times :
    /\ latest - reading <= ClockTolerance
    /\ now = Observed(reading)

Context(now) == Accepts(now) /\ latest' = now

\* checkReadiness, and every call that is refused after #context
Observe(now) ==
  /\ Context(now)
  /\ UNCHANGED <<rows, rates>>

(***************************************************************************)
(* RollingWindow: how many events were admitted at each instant.  Entries  *)
(* at or before now - period no longer count, and an addition drops those  *)
(* that count for no quota any more.                                       *)
(***************************************************************************)
\* an array holds one place for each event; an amount is as many places
Places(f, S) == UNION {{x} \X (1..f[x]) : x \in S}
Total(f, S) == Cardinality(Places(f, S))

CountSince(log, now, period) == Total(log, {t \in Times : t > now - period})

Admits(log, now, quotas) ==
  \A q \in quotas : CountSince(log, now, q.period) < q.limit

AddEvent(log, now, quotas) ==
  [t \in Times |->
     IF t = now THEN log[t] + 1
     ELSE IF \E q \in quotas : t > now - q.period THEN log[t] ELSE 0]

\* RollingAmountWindow and the grant window: the grants and the samples
\* reserved by each session at each instant
GrantsIn(log, E) == Total([e \in E |-> log[e].grants], E)
SamplesIn(log, E) == Total([e \in E |-> log[e].samples], E)

AdmitsAudio(log, S, now, samples) ==
  LET recent == S \X {t \in Times : t > now - AudioPeriod} IN
  /\ GrantsIn(log, recent) < MaxAudioGrantsPerWindow
  /\ SamplesIn(log, recent) + samples <= MaxAudioSamplesPerWindow

AddAudio(log, now, s, samples) ==
  [e \in Sessions \X Times |->
     IF e = <<s, now>>
     THEN [grants |-> log[e].grants + 1, samples |-> log[e].samples + samples]
     ELSE IF e[2] > now - AudioPeriod THEN log[e]
     ELSE [grants |-> 0, samples |-> 0]]

(***************************************************************************)
(* Predicates on rows                                                      *)
(***************************************************************************)
MinOf(a, b) == IF a < b THEN a ELSE b

InstallationActive(i, now) ==
  /\ installation[i].status = "active"
  /\ now < installation[i].absoluteExpiresAt

\* a pending row carries its pendingExpiresAt as idleExpiresAt
CredentialActive(c, now) ==
  /\ credential[c].status \in {"current", "pending"}
  /\ now < credential[c].absoluteExpiresAt
  /\ now < credential[c].idleExpiresAt

\* #authenticatePlan for a credential that is not pending
AuthenticatesCurrent(c, now) ==
  LET i == credential[c].installation IN
  /\ CredentialActive(c, now)
  /\ InstallationActive(i, now)
  /\ credential[c].status = "current"
  /\ installation[i].current = c
  /\ installation[i].currentVersion = credential[c].version

\* #authenticatePlan for a pending credential
AuthenticatesPending(c, now) ==
  LET i == credential[c].installation IN
  /\ CredentialActive(c, now)
  /\ InstallationActive(i, now)
  /\ credential[c].status = "pending"
  /\ installation[i].pending = c
  /\ installation[i].pendingVersion = credential[c].version
  /\ now < installation[i].pendingExpiresAt

IdleExpiry(i, now) ==
  MinOf(now + CredentialIdleTtl, installation[i].absoluteExpiresAt)

\* tombstone, pointer and credential version still those of the session row
SessionFenced(s) ==
  LET i == session[s].installation IN
  /\ installation[i].tombstoneVersion = session[s].tombstoneVersion
  /\ installation[i].activeSession = s
  /\ installation[i].currentVersion = session[s].credentialVersion

SessionActive(s, now) ==
  /\ session[s].status = "active"
  /\ now < session[s].leaseExpiresAt
  /\ InstallationActive(session[s].installation, now)
  /\ SessionFenced(s)

WithoutGrantsOf(S) == {g \in grants : g.session \notin S}

(***************************************************************************)
(* Pairing                                                                 *)
(***************************************************************************)
IssuePairing(now, p) ==
  /\ Context(now)
  /\ Admits(issueTimes, now, PairIssueQuota)
  /\ pairing[p].status = "absent"
  /\ pairing' = [pairing EXCEPT
       ![p] = [status |-> "issued", expiresAt |-> now + PairingTtl]]
  /\ issueTimes' = AddEvent(issueTimes, now, PairIssueQuota)
  /\ UNCHANGED <<installation, credential, ticket, session, grants,
                 attemptTimes, ticketTimes, reconnectTimes, audioLog>>

PairingRedeemable(p, now) ==
  pairing[p].status = "issued" /\ now < pairing[p].expiresAt

RevokePairing(now, p) ==
  /\ Context(now)
  /\ PairingRedeemable(p, now)
  /\ pairing' = [pairing EXCEPT ![p].status = "revoked"]
  /\ UNCHANGED <<installation, credential, ticket, session, grants,
                 rates>>

\* hands out the secret of a rotation that expired once more
FaultyNewCredential(c) == credential[c].status \in {"absent", "expired"}
\* a token drawn at random names no row, past or present
NewCredential(c) == credential[c].status = "absent"

RedeemPairing(now, p, i, c) ==
  LET absolute == now + CredentialAbsoluteTtl
      idle     == MinOf(now + CredentialIdleTtl, absolute)
  IN
  /\ Context(now)
  /\ Admits(attemptTimes, now, PairAttemptQuota)
  /\ PairingRedeemable(p, now)
  /\ installation[i].status = "absent"
  /\ NewCredential(c)
  /\ attemptTimes' = AddEvent(attemptTimes, now, PairAttemptQuota)
  /\ pairing' = [pairing EXCEPT ![p].status = "consumed"]
  /\ credential' = [credential EXCEPT
       ![c] = [status |-> "current", installation |-> i, version |-> 1,
               absoluteExpiresAt |-> absolute, idleExpiresAt |-> idle]]
  /\ installation' = [installation EXCEPT
       ![i] = [NoInstallation EXCEPT
                 !.status = "active", !.absoluteExpiresAt = absolute,
                 !.tombstoneVersion = 1, !.current = c,
                 !.currentVersion = 1]]
  /\ UNCHANGED <<ticket, session, grants, issueTimes, ticketTimes,
                 reconnectTimes, audioLog>>

\* an attempt with a code that is not redeemable is charged, then refused
RefuseRedemption(now) ==
  /\ Context(now)
  /\ Admits(attemptTimes, now, PairAttemptQuota)
  /\ attemptTimes' = AddEvent(attemptTimes, now, PairAttemptQuota)
  /\ UNCHANGED <<rows, issueTimes, ticketTimes, reconnectTimes, audioLog>>

(***************************************************************************)
(* Credentials                                                             *)
(***************************************************************************)
\* also promoteCredential with a credential promoted before
\* ('already-promoted'), which only touches the row
AuthenticateCredential(now, c) ==
  /\ Context(now)
  /\ AuthenticatesCurrent(c, now)
  /\ credential' = [credential EXCEPT
       ![c].idleExpiresAt = IdleExpiry(credential[c].installation, now)]
  /\ UNCHANGED <<pairing, installation, ticket, session, grants,
                 rates>>

\* the pending credential that a new rotation expires
ReplacedPending(i) ==
  {x \in Credentials :
     x = installation[i].pending /\ credential[x].status = "pending"}

\* c is the current credential presented, n the pending one generated
BeginCredentialRotation(now, c, n) ==
  LET i       == credential[c].installation
      version == installation[i].currentVersion + 1
      expires == MinOf(now + PendingCredentialTtl,
                       installation[i].absoluteExpiresAt)
  IN
  /\ Context(now)
  /\ AuthenticatesCurrent(c, now)
  /\ installation[i].pending = None \/ now >= installation[i].pendingExpiresAt
  /\ NewCredential(n)
  /\ credential' = [x \in Credentials |->
       IF x = n
       THEN [status |-> "pending", installation |-> i, version |-> version,
             absoluteExpiresAt |-> installation[i].absoluteExpiresAt,
             idleExpiresAt |-> expires]
       ELSE IF x \in ReplacedPending(i)
       THEN [credential[x] EXCEPT !.status = "expired"]
       ELSE credential[x]]
  /\ installation' = [installation EXCEPT
       ![i] = [@ EXCEPT !.pending = n, !.pendingVersion = version,
                        !.pendingExpiresAt = expires]]
  /\ UNCHANGED <<pairing, ticket, session, grants, rates>>

\* overlooks a session that is not activated yet
FaultyPriorSessions(i, c) ==
  {s \in Sessions :
     /\ s = installation[i].activeSession
     /\ session[s].status = "active"
     /\ session[s].credentialVersion # credential[c].version}

\* the active session that a promotion to the version of c ends
PriorSessions(i, c) ==
  {s \in Sessions :
     /\ s = installation[i].activeSession
     /\ session[s].status \in {"opening", "active"}
     /\ session[s].credentialVersion # credential[c].version}

EndedSessions(S, now) ==
  [s \in Sessions |->
     IF s \in S
     THEN [session[s] EXCEPT !.status = "ended", !.leaseExpiresAt = now]
     ELSE session[s]]

NoPending(row) ==
  [row EXCEPT !.pending = None, !.pendingVersion = 0, !.pendingExpiresAt = 0]

PromoteCredential(now, c) ==
  LET i     == credential[c].installation
      old   == installation[i].current
      prior == PriorSessions(i, c)
      remaining == IF prior = {} THEN installation[i].activeSession ELSE None
  IN
  /\ Context(now)
  /\ AuthenticatesPending(c, now)
  /\ credential[old].status = "current"
  /\ credential' = [credential EXCEPT
       ![old].status = "retired",
       ![c] = [@ EXCEPT !.status = "current", !.idleExpiresAt = IdleExpiry(i, now)]]
  /\ installation' = [installation EXCEPT
       ![i] = [NoPending(@) EXCEPT
                 !.current = c, !.currentVersion = credential[c].version,
                 !.activeSession = remaining]]
  /\ session' = EndedSessions(prior, now)
  /\ grants' = WithoutGrantsOf(prior)
  /\ UNCHANGED <<pairing, ticket, rates>>

(***************************************************************************)
(* Revocation, by the installation's own credential or by an operator      *)
(***************************************************************************)
FaultyKeys(i) == {installation[i].current}
Keys(i) == {installation[i].current, installation[i].pending}

Revoked(now, i) ==
  LET closed    == {s \in Sessions : s = installation[i].activeSession}
      tombstone == installation[i].tombstoneVersion + 1
  IN
  /\ installation' = [installation EXCEPT
       ![i] = [@ EXCEPT !.status = "revoked", !.endedAt = now,
                        !.tombstoneVersion = tombstone, !.activeSession = None]]
  /\ credential' = [c \in Credentials |->
       IF c \in Keys(i) /\ credential[c].status # "deleted"
       THEN [credential[c] EXCEPT !.status = "revoked"] ELSE credential[c]]
  /\ session' = [s \in Sessions |->
       IF s \in closed /\ session[s].status # "deleted"
       THEN [session[s] EXCEPT !.status = "revoked"] ELSE session[s]]
  /\ grants' = WithoutGrantsOf(closed)
  /\ UNCHANGED <<pairing, ticket, rates>>

RevokeCurrentInstallation(now, c) ==
  /\ Context(now)
  /\ AuthenticatesCurrent(c, now)
  /\ Revoked(now, credential[c].installation)

RevokeInstallation(now, i) ==
  /\ Context(now)
  /\ installation[i].status = "active"
  /\ Revoked(now, i)

(***************************************************************************)
(* Tickets and sessions.  A lease is answered for by the whole session row:*)
(* every renewal changes its version, so a caller either presents the      *)
(* lease last returned for the row or is refused (Observe).                *)
(***************************************************************************)
IssueSessionTicket(now, c, t) ==
  LET i == credential[c].installation IN
  /\ Context(now)
  /\ AuthenticatesCurrent(c, now)
  /\ Admits(ticketTimes[i], now, TicketQuota)
  /\ ticket[t].status = "absent"
  /\ credential' = [credential EXCEPT ![c].idleExpiresAt = IdleExpiry(i, now)]
  /\ ticketTimes' = [ticketTimes EXCEPT ![i] = AddEvent(@, now, TicketQuota)]
  /\ ticket' = [ticket EXCEPT
       ![t] = [status |-> "issued", installation |-> i,
               tombstoneVersion |-> installation[i].tombstoneVersion,
               credentialVersion |-> credential[c].version,
               expiresAt |-> now + TicketTtl]]
  /\ UNCHANGED <<pairing, installation, session, grants, issueTimes,
                 attemptTimes, reconnectTimes, audioLog>>

\* forgets that the ticket is spent
FaultyTicketConsumable(t, now) ==
  LET i == ticket[t].installation IN
  /\ ticket[t].status \in {"issued", "consumed"}
  /\ now < ticket[t].expiresAt
  /\ InstallationActive(i, now)
  /\ installation[i].tombstoneVersion = ticket[t].tombstoneVersion
  /\ installation[i].currentVersion = ticket[t].credentialVersion

TicketConsumable(t, now) ==
  LET i == ticket[t].installation IN
  /\ ticket[t].status = "issued"
  /\ now < ticket[t].expiresAt
  /\ InstallationActive(i, now)
  /\ installation[i].tombstoneVersion = ticket[t].tombstoneVersion
  /\ installation[i].currentVersion = ticket[t].credentialVersion

\* the session row the installation still points at, if any
OldSessions(i) ==
  {s \in Sessions : s = installation[i].activeSession
                    /\ session[s].status # "deleted"}

OldExpired(s, now) ==
  \/ session[s].status \in {"ended", "expired", "revoked"}
  \/ now >= session[s].leaseExpiresAt

Reconnects(s, now) ==
  /\ session[s].status \in {"opening", "active", "expired"}
  /\ now >= session[s].leaseExpiresAt

ConsumeSessionTicket(now, t, n) ==
  LET i         == ticket[t].installation
      old       == OldSessions(i)
      reconnect == \E s \in old : Reconnects(s, now)
      epoch     == installation[i].sessionEpoch + 1
      opened    == [status |-> "opening", installation |-> i,
                    epoch |-> epoch,
                    credentialVersion |-> ticket[t].credentialVersion,
                    tombstoneVersion |-> installation[i].tombstoneVersion,
                    leaseExpiresAt |-> now + OpeningLease, ticket |-> t]
  IN
  /\ Context(now)
  /\ TicketConsumable(t, now)
  /\ \A s \in old : OldExpired(s, now)
  /\ reconnect => Admits(reconnectTimes[i], now, ReconnectQuota)
  /\ session[n].status = "absent"
  /\ session' = [s \in Sessions |->
       IF s = n THEN opened
       ELSE IF s \in old THEN [session[s] EXCEPT !.status = "expired"]
       ELSE session[s]]
  /\ reconnectTimes' =
       IF reconnect
       THEN [reconnectTimes EXCEPT ![i] = AddEvent(@, now, ReconnectQuota)]
       ELSE reconnectTimes
  /\ ticket' = [ticket EXCEPT ![t].status = "consumed"]
  /\ installation' = [installation EXCEPT
       ![i] = [@ EXCEPT !.sessionEpoch = epoch, !.activeSession = n]]
  /\ UNCHANGED <<pairing, credential, grants, issueTimes, attemptTimes,
                 ticketTimes, audioLog>>

\* activation and heartbeat grant a new lease of ActiveLease
Renew(now, s) ==
  /\ session' = [session EXCEPT
       ![s] = [@ EXCEPT !.status = "active", !.leaseExpiresAt = now + ActiveLease]]
  /\ UNCHANGED <<pairing, installation, credential, ticket, grants, rates>>

ActivateSession(now, s) ==
  /\ Context(now)
  /\ session[s].status = "opening"
  /\ now < session[s].leaseExpiresAt
  /\ InstallationActive(session[s].installation, now)
  /\ SessionFenced(s)
  /\ Renew(now, s)

HeartbeatSession(now, s) ==
  /\ Context(now)
  /\ SessionActive(s, now)
  /\ Renew(now, s)

EndSession(now, s) ==
  /\ Context(now)
  /\ session[s].status \in {"opening", "active"}
  /\ now < session[s].leaseExpiresAt
  /\ SessionFenced(s)
  /\ session' = EndedSessions({s}, now)
  /\ grants' = WithoutGrantsOf({s})
  /\ installation' = [installation EXCEPT
       ![session[s].installation].activeSession = None]
  /\ UNCHANGED <<pairing, credential, ticket, rates>>

(***************************************************************************)
(* reserveAudio commits a grant and then observes the clock again: a       *)
(* grant that is too short to hand off, or whose session lease ran out     *)
(* meanwhile, is rolled back, and stays if the rollback is unavailable.    *)
(***************************************************************************)
\* leaves out the window that the sessions of an installation share
FaultyGrantAdmitted(now, s, samples) ==
  /\ SessionActive(s, now)
  /\ AdmitsAudio(audioLog[session[s].installation], {s}, now, samples)

GrantAdmitted(now, s, samples) ==
  LET log == audioLog[session[s].installation] IN
  /\ SessionActive(s, now)
  /\ AdmitsAudio(log, {s}, now, samples)
  /\ AdmitsAudio(log, Sessions, now, samples)

\* grants of s that #cleanupSessionGrants drops first
ExpiredGrantsOf(s, now) ==
  {g \in grants : g.session = s /\ now >= g.expiresAt}

NewGrant(now, id, s, samples) ==
  [id |-> id, session |-> s, issuedAt |-> now,
   expiresAt |-> now + AudioGrantTtl, samples |-> samples]

HandoffAllowed(now, s, handoff) ==
  /\ SessionActive(s, handoff)
  /\ now + AudioGrantTtl - handoff >= MinAudioGrantHandoff

ReservationCommitted(now, id, s, samples) ==
  LET i == session[s].installation IN
  /\ Accepts(now)
  /\ GrantAdmitted(now, s, samples)
  /\ ~ \E g \in grants : g.id = id
  /\ grants' = (grants \ ExpiredGrantsOf(s, now)) \cup {NewGrant(now, id, s, samples)}
  /\ audioLog' = [audioLog EXCEPT
       ![i] = AddAudio(@, now, s, samples)]
  /\ UNCHANGED <<pairing, installation, credential, ticket, session,
                 issueTimes, attemptTimes, ticketTimes, reconnectTimes>>

\* over a quota: refused after the expired grants were dropped
RefuseAudio(now, s, samples) ==
  /\ Context(now)
  /\ SessionActive(s, now)
  /\ ~GrantAdmitted(now, s, samples)
  /\ grants' = grants \ ExpiredGrantsOf(s, now)
  /\ UNCHANGED <<pairing, installation, credential, ticket, session,
                 rates>>

\* handed off to the relay
ReserveAudio(now, id, s, samples, handoff) ==
  /\ handoff >= now
  /\ ReservationCommitted(now, id, s, samples)
  /\ HandoffAllowed(now, s, handoff)
  /\ latest' = handoff

\* the second observation failed (handoff = now), or the handoff was
\* refused, and the rollback was unavailable: the reservation stays
StrandAudio(now, id, s, samples, handoff) ==
  /\ handoff = now \/ (handoff > now /\ ~HandoffAllowed(now, s, handoff))
  /\ ReservationCommitted(now, id, s, samples)
  /\ latest' = handoff

\* the same refusals rolled back: only the expired grants are gone
RollBackAudio(now, s, samples, handoff) ==
  /\ handoff = now \/ (handoff > now /\ ~HandoffAllowed(now, s, handoff))
  /\ Accepts(now)
  /\ GrantAdmitted(now, s, samples)
  /\ grants' = grants \ ExpiredGrantsOf(s, now)
  /\ latest' = handoff
  /\ UNCHANGED <<pairing, installation, credential, ticket, session,
                 rates>>

(***************************************************************************)
(* cleanupExpired visits rows one by one from a cursor; one action is the  *)
(* visit of one row that changes something.  A rate window is removed only *)
(* when it counts nothing, which no later count can tell.                  *)
(***************************************************************************)
PairingAfterExpiry(p, now) ==
  IF pairing[p].status = "issued" /\ now >= pairing[p].expiresAt
  THEN "expired" ELSE pairing[p].status

TicketAfterExpiry(t, now) ==
  IF ticket[t].status = "issued" /\ now >= ticket[t].expiresAt
  THEN "expired" ELSE ticket[t].status

CredentialAfterExpiry(c, now) ==
  IF credential[c].status \in {"current", "pending"} /\ ~CredentialActive(c, now)
  THEN "expired" ELSE credential[c].status

InstallationLapses(i, now) ==
  /\ installation[i].status = "active"
  /\ now >= installation[i].absoluteExpiresAt

SessionLapses(s, now) ==
  /\ session[s].status \in {"opening", "active"}
  /\ now >= session[s].leaseExpiresAt

CleanupPairing(now, p) ==
  /\ Context(now)
  /\ PairingAfterExpiry(p, now) \in {"consumed", "revoked", "expired"}
  /\ pairing' = [pairing EXCEPT ![p] = [NoPairing EXCEPT !.status = "deleted"]]
  /\ UNCHANGED <<installation, credential, ticket, session, grants,
                 rates>>

CleanupTicket(now, t) ==
  /\ Context(now)
  /\ TicketAfterExpiry(t, now) \in {"consumed", "expired"}
  /\ ticket' = [ticket EXCEPT ![t] = [NoTicket EXCEPT !.status = "deleted"]]
  /\ UNCHANGED <<pairing, installation, credential, session, grants,
                 rates>>

CleanupCredential(now, c) ==
  LET after == CredentialAfterExpiry(c, now) IN
  /\ Context(now)
  /\ after \in {"expired", "retired", "revoked"}
  /\ credential' = [credential EXCEPT
       ![c] = [NoCredential EXCEPT !.status = "deleted"]]
  /\ installation' = [i \in Installations |->
       IF /\ after = "expired" /\ i = credential[c].installation
          /\ installation[i].pending = c
       THEN NoPending(installation[i]) ELSE installation[i]]
  /\ UNCHANGED <<pairing, ticket, session, grants, rates>>

\* the absolute lifetime of an installation ends: its credentials and its
\* session end with it
LapsedInstallation(i) ==
  LET held == {s \in Sessions : /\ s = installation[i].activeSession
                                /\ session[s].status \in {"opening", "active"}}
  IN
  /\ credential' = [c \in Credentials |->
       IF c \in Keys(i) /\ credential[c].status \in {"current", "pending"}
       THEN [credential[c] EXCEPT !.status = "expired"] ELSE credential[c]]
  /\ session' = [s \in Sessions |->
       IF s \in held THEN [session[s] EXCEPT !.status = "expired"]
       ELSE session[s]]
  /\ grants' = WithoutGrantsOf(held)

CleanupInstallation(now, i) ==
  LET lapses  == InstallationLapses(i, now)
      endedAt == IF lapses THEN installation[i].absoluteExpiresAt
                 ELSE installation[i].endedAt
      buried  == now - endedAt >= TombstoneTtl
  IN
  /\ Context(now)
  /\ \/ lapses
     \/ installation[i].status \in {"revoked", "expired"} /\ buried
  /\ installation' = [installation EXCEPT
       ![i] = IF buried
              THEN [NoInstallation EXCEPT !.status = "deleted"]
              ELSE [@ EXCEPT !.status = "expired", !.endedAt = endedAt,
                             !.activeSession = None]]
  /\ IF lapses THEN LapsedInstallation(i)
     ELSE UNCHANGED <<credential, session, grants>>
  /\ UNCHANGED <<pairing, ticket, rates>>

CleanupSession(now, s) ==
  LET i == session[s].installation IN
  /\ Context(now)
  /\ \/ SessionLapses(s, now)
     \/ session[s].status \in {"expired", "ended", "revoked"}
  /\ session' = [session EXCEPT
       ![s] = [NoSession EXCEPT !.status = "deleted", !.ticket = session[s].ticket]]
  /\ grants' = WithoutGrantsOf({s})
  /\ installation' =
       IF SessionLapses(s, now) /\ installation[i].activeSession = s
       THEN [installation EXCEPT ![i].activeSession = None]
       ELSE installation
  /\ UNCHANGED <<pairing, credential, ticket, rates>>

CleanupGrant(now, g) ==
  /\ Context(now)
  /\ now >= g.expiresAt \/ ~SessionActive(g.session, now)
  /\ grants' = grants \ {g}
  /\ UNCHANGED <<pairing, installation, credential, ticket, session,
                 rates>>

(***************************************************************************)
(* #refreshExpiry, which snapshot() runs over every table                  *)
(***************************************************************************)
RefreshedStatus(i, now) ==
  IF InstallationLapses(i, now) THEN "expired" ELSE installation[i].status

DetachedSessions(i, now) ==
  {s \in Sessions :
     /\ s = installation[i].activeSession
     /\ \/ session[s].status \in {"ended", "revoked", "deleted"}
        \/ now >= session[s].leaseExpiresAt
        \/ RefreshedStatus(i, now) # "active"}

RefreshedInstallation(i, now) ==
  LET row     == installation[i]
      dropped == row.pending # None /\ now >= row.pendingExpiresAt
      base    == IF dropped THEN NoPending(row) ELSE row
  IN [base EXCEPT
        !.status = RefreshedStatus(i, now),
        !.endedAt = IF InstallationLapses(i, now)
                    THEN row.absoluteExpiresAt ELSE @,
        !.activeSession = IF DetachedSessions(i, now) = {} THEN @ ELSE None]

Snapshot(now) ==
  LET detached == UNION {DetachedSessions(i, now) : i \in Installations}
      lapsed   == {s \in detached :
                     session[s].status \notin {"ended", "revoked", "deleted"}}
  IN
  /\ Context(now)
  /\ pairing' = [p \in Pairings |->
       [pairing[p] EXCEPT !.status = PairingAfterExpiry(p, now)]]
  /\ installation' = [i \in Installations |-> RefreshedInstallation(i, now)]
  /\ credential' = [c \in Credentials |->
       [credential[c] EXCEPT !.status = CredentialAfterExpiry(c, now)]]
  /\ ticket' = [t \in Tickets |->
       [ticket[t] EXCEPT !.status = TicketAfterExpiry(t, now)]]
  /\ session' = [s \in Sessions |->
       IF s \in lapsed THEN [session[s] EXCEPT !.status = "expired"]
       ELSE session[s]]
  /\ grants' = {g \in WithoutGrantsOf(lapsed) : now < g.expiresAt}
  /\ UNCHANGED <<rates>>

(***************************************************************************)
(* Specification                                                           *)
(***************************************************************************)
PairingStep(now) ==
  \E p \in Pairings :
    \/ IssuePairing(now, p)
    \/ RevokePairing(now, p)
    \/ CleanupPairing(now, p)
    \/ \E i \in Installations, c \in Credentials : RedeemPairing(now, p, i, c)

CredentialStep(now) ==
  \E c \in Credentials :
    \/ AuthenticateCredential(now, c)
    \/ PromoteCredential(now, c)
    \/ RevokeCurrentInstallation(now, c)
    \/ CleanupCredential(now, c)
    \/ \E n \in Credentials : BeginCredentialRotation(now, c, n)
    \/ \E t \in Tickets : IssueSessionTicket(now, c, t)

InstallationStep(now) ==
  \E i \in Installations : RevokeInstallation(now, i) \/ CleanupInstallation(now, i)

SessionStep(now) ==
  \/ \E t \in Tickets :
       CleanupTicket(now, t) \/ \E s \in Sessions : ConsumeSessionTicket(now, t, s)
  \/ \E s \in Sessions :
       \/ ActivateSession(now, s)
       \/ HeartbeatSession(now, s)
       \/ EndSession(now, s)
       \/ CleanupSession(now, s)

AudioStep(now) ==
  \/ \E g \in grants : CleanupGrant(now, g)
  \/ \E s \in Sessions, samples \in 1..MaxAudioGrantSamples :
       RefuseAudio(now, s, samples)
  \/ \E s \in Sessions, samples \in 1..MaxAudioGrantSamples,
        handoff \in Times :
       \/ RollBackAudio(now, s, samples, handoff)
       \/ \E id \in GrantIds : \/ ReserveAudio(now, id, s, samples, handoff)
                               \/ StrandAudio(now, id, s, samples, handoff)

StoreStep(now) ==
  \/ Observe(now) \/ PairingStep(now) \/ RefuseRedemption(now)
  \/ CredentialStep(now) \/ InstallationStep(now) \/ SessionStep(now)
  \/ AudioStep(now)

StoreNext == \E now \in Times : StoreStep(now) \/ Snapshot(now)

Spec == Init /\ [][StoreNext]_storeVars

(***************************************************************************)
(* Properties                                                              *)
(***************************************************************************)
Expiry == Nat
PairingRow ==
  [status : {"absent", "issued", "consumed", "revoked", "expired", "deleted"},
   expiresAt : Expiry]
CredentialRow ==
  [status : {"absent", "current", "pending", "retired", "revoked", "expired",
             "deleted"},
   installation : Installations \cup {None}, version : Nat,
   absoluteExpiresAt : Expiry, idleExpiresAt : Expiry]
InstallationRow ==
  [status : {"absent", "active", "revoked", "expired", "deleted"},
   absoluteExpiresAt : Expiry, endedAt : Nat, tombstoneVersion : Nat,
   current : Credentials \cup {None}, currentVersion : Nat,
   pending : Credentials \cup {None}, pendingVersion : Nat,
   pendingExpiresAt : Expiry, sessionEpoch : Nat,
   activeSession : Sessions \cup {None}]
TicketRow ==
  [status : {"absent", "issued", "consumed", "expired", "deleted"},
   installation : Installations \cup {None}, tombstoneVersion : Nat,
   credentialVersion : Nat, expiresAt : Expiry]
SessionRow ==
  [status : {"absent", "opening", "active", "ended", "expired", "revoked",
             "deleted"},
   installation : Installations \cup {None}, epoch : Nat,
   credentialVersion : Nat, tombstoneVersion : Nat,
   leaseExpiresAt : Expiry, ticket : Tickets \cup {None}]
Grant ==
  [id : GrantIds, session : Sessions, issuedAt : Nat, expiresAt : Expiry,
   samples : Nat]

\* Every table row and log has its declared shape.
TypeOK ==
  /\ latest \in Nat
  /\ pairing \in [Pairings -> PairingRow]
  /\ installation \in [Installations -> InstallationRow]
  /\ credential \in [Credentials -> CredentialRow]
  /\ ticket \in [Tickets -> TicketRow]
  /\ session \in [Sessions -> SessionRow]
  /\ grants \subseteq Grant
  /\ issueTimes \in [Times -> Nat] /\ attemptTimes \in [Times -> Nat]
  /\ ticketTimes \in [Installations -> [Times -> Nat]]
  /\ reconnectTimes \in [Installations -> [Times -> Nat]]
  /\ audioLog \in
       [Installations -> [Sessions \X Times -> [grants : Nat, samples : Nat]]]

\* a session that store calls may still honour
Live(s) ==
  session[s].status \in {"opening", "active"}
  /\ latest < session[s].leaseExpiresAt

\* A ticket opens a session only over an expired predecessor and every
\* predecessor loses the installation's pointer, so an installation never has
\* two sessions whose leases are both running, and the running one has the
\* newest epoch.
OneLiveSession ==
  \A s \in Sessions : Live(s) =>
    LET i == session[s].installation IN
    /\ installation[i].sessionEpoch = session[s].epoch
    /\ \A r \in Sessions :
         Live(r) /\ session[r].installation = i => r = s

\* Rotation, revocation and expiry end the sessions opened with the superseded
\* credential: a running session belongs to an active installation and carries
\* its current credential and tombstone versions.
LiveSessionAuthorised ==
  \A s \in Sessions : Live(s) =>
    /\ installation[session[s].installation].status = "active"
    /\ SessionFenced(s)

\* An installation that was revoked or has expired leaves nothing behind that
\* opens a door: no usable credential, no open session, no audio grant.
DeadInstallationHoldsNothing ==
  \A i \in Installations :
    installation[i].status \in {"revoked", "expired", "deleted"} =>
      /\ \A c \in Credentials : credential[c].installation = i =>
           credential[c].status \notin {"current", "pending"}
      /\ \A s \in Sessions : session[s].installation = i => ~Live(s)
      /\ \A g \in grants : session[g.session].installation = i =>
           session[g.session].status = "expired"

\* At any time at most one credential of an installation authenticates and at
\* most one is waiting for promotion, whatever rotations expired in between.
OneCredentialPerRole ==
  \A c, d \in Credentials :
    /\ credential[c].installation # None
    /\ credential[c].installation = credential[d].installation
    /\ credential[c].status = credential[d].status
    /\ credential[c].status \in {"current", "pending"}
    => c = d

\* An installation that rotates, is revoked and expires in any order has one
\* session and one key of each kind while it lives, and none afterwards.
OneAuthorisedSession == OneLiveSession /\ LiveSessionAuthorised
KeysGoWithInstallation == OneCredentialPerRole /\ DeadInstallationHoldsNothing

\* No two sessions were ever opened from the same ticket.
TicketSingleUse ==
  \A s, r \in Sessions :
    session[s].ticket = session[r].ticket /\ session[s].ticket # None => s = r

\* Grants are deleted with the session they were reserved for.
EndedSessionsHoldNoGrants ==
  \A g \in grants :
    session[g.session].status \notin {"absent", "ended", "revoked", "deleted"}

Spread(log, q) ==
  \A t \in Times :
    Total(log, {u \in Times : t - q.period < u /\ u <= t}) <= q.limit

AudioSpread(log, t) ==
  LET window == Sessions \X {u \in Times : t - AudioPeriod < u /\ u <= t} IN
  /\ GrantsIn(log, window) <= MaxAudioGrantsPerWindow
  /\ SamplesIn(log, window) <= MaxAudioSamplesPerWindow

\* Admission counts backwards from its own instant only, yet every window of a
\* quota's period, wherever it starts, holds at most the quota's limit of
\* admitted calls, and of reserved audio at most the window's grants and samples.
QuotasHold ==
  /\ \A q \in PairIssueQuota : Spread(issueTimes, q)
  /\ \A q \in PairAttemptQuota : Spread(attemptTimes, q)
  /\ \A i \in Installations :
       /\ \A q \in TicketQuota : Spread(ticketTimes[i], q)
       /\ \A q \in ReconnectQuota : Spread(reconnectTimes[i], q)
       /\ \A t \in Times : AudioSpread(audioLog[i], t)

Spent == {"retired", "revoked", "expired", "deleted"}

\* A credential that was retired, revoked or expired is never accepted again,
\* not even when its installation rotates on or the clock steps back.
CredentialNeverRevives ==
  [][\A c \in Credentials :
       credential[c].status \in Spent => credential'[c].status \in Spent]_storeVars

\* Once the store has seen a session end or its lease run out, no later call
\* and no backward step of the clock makes that session live again.
SessionNeverRevives ==
  [][\A s \in Sessions :
       session[s].status # "absent" /\ ~Live(s) => ~Live(s)']_storeVars
=============================================================================
