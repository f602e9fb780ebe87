--------------------------- MODULE AzureSecurity ---------------------------
(***************************************************************************)
(* The durable security-state store                                        *)
(* (packages/security-state/src/azure-store.ts): the operations of         *)
(* SecurityState as concurrent calls over Azure tables.  There is one      *)
(* session row for each installation, and every transaction that changes a *)
(* credential or a session also replaces the row of its installation, so   *)
(* that row orders them.                                                   *)
(*                                                                         *)
(* A call observes the clock at the start of an attempt, before it reads   *)
(* anything (#now), so two calls may write in the opposite order of their  *)
(* instants.                                                               *)
(***************************************************************************)
EXTENDS AzureTable

CONSTANTS
  None,
  Requests,      \* bound: which operations the calls may be
  MaxTime,       \* bound: last instant of the clock
  PairingTtl, CredentialIdleTtl, CredentialAbsoluteTtl, PendingCredentialTtl,
  TicketTtl, OpeningLease, ActiveLease, TombstoneTtl,
  Quotas         \* [window name -> set of [period, limit]]

VARIABLES
  clock,   \* #lastNow, after an observation
  handed   \* the credentials, tickets, codes and leases that clients hold

secVars == <<table, call, clock, handed>>

(***************************************************************************)
(* Rows and their keys                                                     *)
(***************************************************************************)
PairingKey(p) == <<"pairing", p>>
CredentialKey(c) == <<"credential", c>>
InstallationKey(i) == <<"installation", i>>
TicketKey(t) == <<"ticket", t>>
SessionKey(i) == <<"session", i>>
WindowKey(w, i) == <<"window", w, i>>

PairingRow(op, now) ==
  [kind |-> "pairing", status |-> "issued", op |-> op,
   issuedAt |-> now, expiresAt |-> now + PairingTtl, installation |-> None]

CredentialRow(status, i, version, now, idle, absolute) ==
  [kind |-> "credential", status |-> status, installation |-> i,
   version |-> version, issuedAt |-> now, lastUsedAt |-> now,
   idleExpiresAt |-> idle, absoluteExpiresAt |-> absolute,
   pendingExpiresAt |-> IF status = "pending" THEN idle ELSE None]

InstallationRow(c, now, idle, absolute) ==
  [kind |-> "installation", status |-> "active", issuedAt |-> now,
   lastActivityAt |-> now, idleExpiresAt |-> idle,
   absoluteExpiresAt |-> absolute, current |-> c, currentVersion |-> 1,
   pending |-> None, pendingExpiresAt |-> None, sessionEpoch |-> 0,
   activeSession |-> None, activeEpoch |-> 0, leaseVersion |-> 0,
   leaseExpiresAt |-> 0, tombstoneVersion |-> 1, endedAt |-> None]

SessionRow ==
  [kind |-> "session", status |-> "none", id |-> None, epoch |-> 0,
   credentialVersion |-> 1, tombstoneVersion |-> 1, leaseVersion |-> 0,
   leaseExpiresAt |-> 0, lastActivityAt |-> 0, ticket |-> None,
   lastOperation |-> None]

TicketRow(op, i, inst, cred, now) ==
  [kind |-> "ticket", status |-> "issued", op |-> op, installation |-> i,
   tombstoneVersion |-> inst.tombstoneVersion,
   credentialVersion |-> cred.version, issuedAt |-> now,
   expiresAt |-> now + TicketTtl, session |-> None]

Sorted(events) ==
  \A n \in 1..Len(events) - 1 : events[n].at <= events[n + 1].at

\* what the parser of a row demands beyond its shape
Readable(row) ==
  CASE row.kind = "credential" ->
         /\ row.issuedAt <= row.lastUsedAt
         /\ row.lastUsedAt <= row.idleExpiresAt
         /\ row.idleExpiresAt <= row.absoluteExpiresAt
    [] row.kind = "installation" ->
         /\ row.issuedAt <= row.lastActivityAt
         /\ row.lastActivityAt <= row.idleExpiresAt
         /\ row.idleExpiresAt <= row.absoluteExpiresAt
         /\ row.activeEpoch <= row.sessionEpoch
    [] row.kind \in {"window", "audio"} -> Sorted(row.events)
    [] row.kind = "counter" -> Sorted(row.generated) /\ Sorted(row.attempts)
    [] OTHER -> TRUE

(***************************************************************************)
(* What a call has seen                                                    *)
(***************************************************************************)
Now(k) == call[k].now
Arg(k) == call[k].arg
Cred(k) == Seen(k, CredentialKey(Arg(k)))

\* the installation a call is about
InstOf(k) ==
  CASE call[k].op \in {"authenticate", "rotate", "promote", "revokeCurrent",
                       "issueTicket"} -> Cred(k).installation
    [] call[k].op = "consume" -> Seen(k, TicketKey(Arg(k))).installation
    [] call[k].op \in {"activate", "heartbeat", "end"} -> Arg(k).installation
    [] OTHER -> Arg(k)

Inst(k) == Seen(k, InstallationKey(InstOf(k)))
Sess(k) == Seen(k, SessionKey(InstOf(k)))

MinOf(a, b) == IF a < b THEN a ELSE b
IdleExpiry(now, inst) ==
  MinOf(now + CredentialIdleTtl, inst.absoluteExpiresAt)

InstallationValid(inst, now) ==
  /\ inst.status = "active"
  /\ now < inst.idleExpiresAt
  /\ now < inst.absoluteExpiresAt

\* #credentialValid
CredentialValid(c, cred, inst, now) ==
  /\ InstallationValid(inst, now)
  /\ now < cred.absoluteExpiresAt
  /\ now < cred.idleExpiresAt
  /\ \/ /\ cred.status = "pending"
        /\ now < cred.pendingExpiresAt
        /\ inst.pending = c
        /\ now < inst.pendingExpiresAt
     \/ /\ cred.status = "current"
        /\ inst.current = c
        /\ inst.currentVersion = cred.version

\* #readAuthentication, once its two rows are read
Authentic(k, pendingToo) ==
  /\ Cred(k) # NoRow /\ Inst(k) # NoRow
  /\ pendingToo \/ Cred(k).status # "pending"
  /\ CredentialValid(Arg(k), Cred(k), Inst(k), Now(k))

Live(session) == session.status \in {"opening", "active"}

\* the installation row points at this lease of this session
Points(inst, session) ==
  /\ session.tombstoneVersion = inst.tombstoneVersion
  /\ session.credentialVersion = inst.currentVersion
  /\ inst.activeSession = session.id
  /\ inst.activeEpoch = session.epoch
  /\ inst.leaseVersion = session.leaseVersion
  /\ inst.leaseExpiresAt = session.leaseExpiresAt

\* #sessionActive
SessionActive(session, inst, now) ==
  /\ session.status = "active"
  /\ now < session.leaseExpiresAt
  /\ InstallationValid(inst, now)
  /\ Points(inst, session)

\* #lease, and #leaseMatches against the row it was made of
Lease(i, session) ==
  [kind |-> "lease", installation |-> i, session |-> session.id,
   epoch |-> session.epoch, version |-> session.leaseVersion,
   credentialVersion |-> session.credentialVersion,
   phase |-> IF session.status = "opening" THEN "opening" ELSE "active",
   expiresAt |-> session.leaseExpiresAt]

LeaseMatches(lease, session) == lease = Lease(lease.installation, session)

(***************************************************************************)
(* The rows each operation reads, in order.  A row that decides the call   *)
(* ends the sequence (the early returns).                                  *)
(***************************************************************************)
If(condition, keys) == IF condition THEN keys ELSE << >>

AuthenticationKeys(k) ==
  <<CredentialKey(Arg(k))>>
    \o If(Cred(k) # NoRow, <<InstallationKey(InstOf(k))>>)

PendingKeys(k) ==
  If(Inst(k).pending # None, <<CredentialKey(Inst(k).pending)>>)

\* the pending credential whose rotation ran out, to be replaced
RotationKeys(k) ==
  If(/\ Authentic(k, FALSE)
     /\ Inst(k).pending # None /\ Now(k) >= Inst(k).pendingExpiresAt,
     PendingKeys(k))

PromotionKeys(k) ==
  If(Authentic(k, TRUE) /\ Cred(k).status = "pending",
     <<CredentialKey(Inst(k).current), SessionKey(InstOf(k))>>)

\* both rows already say revoked
AlreadyRevoked(k) ==
  /\ Cred(k) # NoRow /\ Inst(k) # NoRow
  /\ Cred(k).status = "revoked" /\ Inst(k).status = "revoked"
  /\ Inst(k).current = Arg(k) /\ Inst(k).currentVersion = Cred(k).version

RevocationKeys(k) ==
  If(AlreadyRevoked(k), <<SessionKey(InstOf(k))>>)
    \o If(Authentic(k, FALSE), PendingKeys(k) \o <<SessionKey(InstOf(k))>>)

OperatorRevocationKeys(k) ==
  <<InstallationKey(Arg(k))>>
    \o If(Inst(k) # NoRow /\ Inst(k).status = "active",
          <<CredentialKey(Inst(k).current)>> \o PendingKeys(k)
            \o <<SessionKey(Arg(k))>>)

\* a pairing code or a ticket that is still good for its one use
Usable(row, now) == row # NoRow /\ row.status = "issued" /\ now < row.expiresAt

\* the ticket opens nothing, whatever the other rows are
TicketSpent(k) == ~Usable(Seen(k, TicketKey(Arg(k))), Now(k))

\* the rows that a ticket is checked against
TicketOpens(k) ==
  LET t == Seen(k, TicketKey(Arg(k))) IN
  /\ ~TicketSpent(k)
  /\ Inst(k) # NoRow /\ Sess(k) # NoRow
  /\ InstallationValid(Inst(k), Now(k))
  /\ Inst(k).tombstoneVersion = t.tombstoneVersion
  /\ Inst(k).currentVersion = t.credentialVersion
  /\ ~(Live(Sess(k)) /\ Now(k) < Sess(k).leaseExpiresAt)

\* the ticket replaces a session that was lost rather than closed
Supersedes(k) ==
  /\ Sess(k).id # None
  /\ Sess(k).status \in {"opening", "active", "expired"}
  /\ Now(k) >= Sess(k).leaseExpiresAt

ConsumptionKeys(k) ==
  <<TicketKey(Arg(k))>>
    \o If(~TicketSpent(k), <<InstallationKey(InstOf(k)), SessionKey(InstOf(k))>>)
    \o If(/\ call[k].pc = "read"
          /\ TicketOpens(k) /\ Supersedes(k) /\ ~call[k].charged,
          <<WindowKey("reconnect", InstOf(k))>>)

Reads(k) ==
  CASE call[k].op = "authenticate" -> AuthenticationKeys(k)
    [] call[k].op = "rotate" -> AuthenticationKeys(k) \o RotationKeys(k)
    [] call[k].op = "promote" -> AuthenticationKeys(k) \o PromotionKeys(k)
    [] call[k].op = "revokeCurrent" ->
         AuthenticationKeys(k) \o RevocationKeys(k)
    [] call[k].op = "revoke" -> OperatorRevocationKeys(k)
    [] call[k].op = "issueTicket" ->
         AuthenticationKeys(k)
           \o If(/\ call[k].pc = "read" /\ Authentic(k, FALSE)
                 /\ ~call[k].charged,
                 <<WindowKey("ticket", InstOf(k))>>)
    [] call[k].op = "consume" -> ConsumptionKeys(k)
    [] call[k].op \in {"activate", "heartbeat", "end"} ->
         <<InstallationKey(InstOf(k)), SessionKey(InstOf(k))>>
    [] call[k].op = "issuePairing" ->
         If(~call[k].charged, <<WindowKey("pairIssue", None)>>)
    [] call[k].op = "revokePairing" -> <<PairingKey(Arg(k))>>
    [] call[k].op = "redeem" ->
         IF call[k].charged THEN <<PairingKey(Arg(k))>>
         ELSE <<WindowKey("pairAttempt", None)>>
    [] call[k].op = "sweep" ->
         <<Arg(k)>>
           \o If(Seen(k, Arg(k)).kind = "session", <<InstallationKey(Arg(k)[2])>>)
           \o If(Seen(k, Arg(k)).kind = "installation", <<SessionKey(Arg(k)[2])>>)
    [] OTHER -> << >>

Ready(k, op) ==
  /\ call[k].op = op /\ call[k].pc \in {"read", "final"}
  /\ Unread(k, Reads(k)) = {}
  /\ \A key \in DOMAIN call[k].seen : Readable(call[k].seen[key])

\* parse*: a row that does not read back fails the call
Unreadable(k) ==
  /\ call[k].pc \in {"read", "final", "reconcile", "recheck", "post"}
  /\ \E key \in DOMAIN call[k].seen : ~Readable(call[k].seen[key])
  /\ Answer(k, "unavailable", NoRow)
  /\ UNCHANGED <<clock, handed>>

Refuse(k) == Answer(k, "refused", NoRow) /\ UNCHANGED <<clock, handed>>

(***************************************************************************)
(* Rolling windows (#chargeWindow): one row per window, charged by a write *)
(* of its own.  A call charges its own operation once, however often it    *)
(* tries, as long as the event is still in the window.                     *)
(***************************************************************************)
LongestPeriod(w) ==
  CHOOSE p \in {q.period : q \in Quotas[w]} :
    \A q \in Quotas[w] : q.period <= p

\* pruneEvents
Pruned(events, now, w) ==
  SelectSeq(events, LAMBDA e : e.at > now - LongestPeriod(w))

\* sumEvents
CountSince(events, now, period) ==
  Cardinality({n \in DOMAIN events : events[n].at > now - period})

\* lets one more through
FaultyAdmits(events, now, w) ==
  \A q \in Quotas[w] : CountSince(events, now, q.period) <= q.limit
Admits(events, now, w) ==
  \A q \in Quotas[w] : CountSince(events, now, q.period) < q.limit

ChargedBefore(events, op) == \E n \in DOMAIN events : events[n].op = op

\* the next step of a charge that is not settled: read the window again
Recharge(k, key) ==
  [call[k] EXCEPT !.charges = @ + 1,
     !.seen = [x \in DOMAIN @ \ {key} |-> @[x]], !.stale = @ \ {key}]

Charge(k, w, i, op, charged) ==
  LET key    == WindowKey(w, i)
      before == Seen(k, key)
      events == Pruned(IF before = NoRow THEN << >> ELSE before.events, Now(k), w)
      after  == [kind |-> "window",
                 events |-> Append(events, [at |-> Now(k), op |-> op])]
      write  == key :> after
  IN
  /\ key \in DOMAIN call[k].seen /\ ~call[k].charged
  /\ UNCHANGED <<clock, handed>>
  /\ IF ChargedBefore(events, op) THEN Becomes(k, charged)
     ELSE IF call[k].charges = MaxTries THEN Answer(k, "unavailable", NoRow)
     ELSE IF ~Admits(events, Now(k), w) THEN Answer(k, "refused", NoRow)
     ELSE IF before = NoRow
     THEN Submit(k, << >>, write, charged, Recharge(k, key), Recharge(k, key))
     ELSE Submit(k, write, << >>, charged, Recharge(k, key), Recharge(k, key))

\* the call goes on with the rows it had read before the charge
ChargedWithin(k, w, i) ==
  [call[k] EXCEPT !.charged = TRUE, !.charges = 0,
     !.seen = [x \in DOMAIN @ \ {WindowKey(w, i)} |-> @[x]],
     !.stale = @ \ {WindowKey(w, i)}]

(***************************************************************************)
(* How a transaction of an operation ends                                  *)
(***************************************************************************)
HandedWith(value) ==
  handed \cup {v \in {value} : v.kind \in {"credential", "ticket", "code",
                                           "lease", "claim"}}

\* the next attempt.  A redemption keeps its instant and its charge; a ticket
\* call that gives up looks once more for the reason it will report.
Again(k) ==
  IF call[k].tries = MaxTries /\ call[k].op \in {"issueTicket", "consume"}
  THEN [call[k] EXCEPT !.pc = "final", !.now = clock, !.charged = FALSE,
                       !.seen = << >>, !.stale = {}, !.plan = << >>]
  ELSE IF call[k].tries < MaxTries /\ call[k].op = "redeem"
  THEN [Retried(k, Now(k)) EXCEPT !.charged = TRUE]
  ELSE Retried(k, clock)

\* what a lost acknowledgement leaves to decide, and a clash to do again
Transact(k, replaces, creates, value) ==
  /\ Submit(k, replaces, creates, Answered(k, "ok", value),
            InDoubt(k, creates @@ replaces, value), Again(k))
  /\ handed' = IF call'[k].verdict = "ok" THEN HandedWith(value) ELSE handed
  /\ UNCHANGED clock

\* a clash on a single-use row first asks whether the row was used up
TransactOnce(k, replaces, creates, value) ==
  /\ Submit(k, replaces, creates, Answered(k, "ok", value),
            InDoubt(k, creates @@ replaces, value),
            [call[k] EXCEPT !.pc = "recheck", !.seen = << >>, !.stale = {}])
  /\ handed' = IF call'[k].verdict = "ok" THEN HandedWith(value) ELSE handed
  /\ UNCHANGED clock

Handing(kind, id) == [kind |-> kind, id |-> id]
Nothing == [kind |-> "nothing"]

(***************************************************************************)
(* Pairing                                                                 *)
(***************************************************************************)
\* issuePairing charges the operator's window anew in each attempt
IssuePairing(k) ==
  /\ Ready(k, "issuePairing")
  /\ \/ Charge(k, "pairIssue", None, k, ChargedWithin(k, "pairIssue", None))
     \/ /\ call[k].charged
        /\ Transact(k, << >>, PairingKey(Drawn(k)) :> PairingRow(k, Now(k)),
                    Handing("code", Drawn(k)))

\* the clock is observed after the row is read
RevokePairing(k) ==
  LET p == Seen(k, PairingKey(Arg(k))) IN
  /\ Ready(k, "revokePairing")
  /\ \/ ~Usable(p, clock) /\ Refuse(k)
     \/ /\ Usable(p, clock)
        /\ Transact(k, PairingKey(Arg(k)) :> [p EXCEPT !.status = "revoked"],
                    << >>, Nothing)

RedeemPairing(k) ==
  LET p        == Seen(k, PairingKey(Arg(k)))
      i        == Drawn(k)
      absolute == Now(k) + CredentialAbsoluteTtl
      idle     == MinOf(Now(k) + CredentialIdleTtl, absolute)
  IN
  /\ Ready(k, "redeem")
  /\ \/ Charge(k, "pairAttempt", None, k,
               ChargedWithin(k, "pairAttempt", None))
     \/ /\ call[k].charged
        /\ ~Usable(p, Now(k)) /\ Refuse(k)
     \/ /\ call[k].charged /\ Usable(p, Now(k))
        /\ TransactOnce(k,
             PairingKey(Arg(k)) :>
               [p EXCEPT !.status = "consumed", !.installation = i],
             InstallationKey(i) :> InstallationRow(Drawn(k), Now(k), idle, absolute)
               @@ CredentialKey(Drawn(k)) :>
                    CredentialRow("current", i, 1, Now(k), idle, absolute)
               @@ SessionKey(i) :> [SessionRow EXCEPT !.lastActivityAt = Now(k)],
             Handing("credential", Drawn(k)))

(***************************************************************************)
(* Credentials                                                             *)
(***************************************************************************)
TouchedCredential(k) ==
  [Cred(k) EXCEPT !.lastUsedAt = Now(k),
                  !.idleExpiresAt = IdleExpiry(Now(k), Inst(k))]

\* #touchInstallation
TouchedInstallation(k) ==
  [Inst(k) EXCEPT !.lastActivityAt = Now(k),
                  !.idleExpiresAt = IdleExpiry(Now(k), Inst(k))]

Touch(k) ==
  CredentialKey(Arg(k)) :> TouchedCredential(k)
    @@ InstallationKey(InstOf(k)) :> TouchedInstallation(k)

AuthenticateCredential(k) ==
  /\ Ready(k, "authenticate")
  /\ \/ ~Authentic(k, FALSE) /\ Refuse(k)
     \/ Authentic(k, FALSE) /\ Transact(k, Touch(k), << >>, Nothing)

BeginCredentialRotation(k) ==
  LET c       == Drawn(k)
      version == Inst(k).currentVersion + 1
      expires == MinOf(Now(k) + PendingCredentialTtl, Inst(k).absoluteExpiresAt)
      old     == CredentialKey(Inst(k).pending)
      oldRow  == Seen(k, old)
      pending == Inst(k).pending # None /\ Now(k) < Inst(k).pendingExpiresAt
  IN
  /\ Ready(k, "rotate")
  /\ \/ ~Authentic(k, FALSE) /\ Refuse(k)
     \/ Authentic(k, FALSE) /\ pending /\ Refuse(k)
     \/ /\ Authentic(k, FALSE) /\ ~pending
        /\ Transact(k,
             CredentialKey(Arg(k)) :> TouchedCredential(k)
               @@ InstallationKey(InstOf(k)) :>
                    [TouchedInstallation(k) EXCEPT
                       !.pending = c, !.pendingExpiresAt = expires]
               @@ (IF oldRow = NoRow THEN << >>
                   ELSE old :> [oldRow EXCEPT !.status = "expired"]),
             CredentialKey(c) :>
               CredentialRow("pending", InstOf(k), version, Now(k), expires,
                             Inst(k).absoluteExpiresAt),
             Handing("credential", c))

\* the session of an older credential ends with the promotion
FaultyEndsSession(k) == Sess(k).status = "active"
EndsSession(k) ==
  Live(Sess(k)) /\ Sess(k).credentialVersion # Cred(k).version

ClosedSession(k, status) ==
  [Sess(k) EXCEPT !.status = status, !.leaseVersion = @ + 1,
                  !.leaseExpiresAt = Now(k), !.lastActivityAt = Now(k)]

Unpointed(inst, session, now) ==
  [inst EXCEPT !.activeSession = None, !.activeEpoch = session.epoch,
               !.leaseVersion = session.leaseVersion, !.leaseExpiresAt = now]

PromoteCredential(k) ==
  LET touched == /\ Cred(k) = TouchedCredential(k)
                 /\ Inst(k) = TouchedInstallation(k)
      current == CredentialKey(Inst(k).current)
      oldRow  == Seen(k, current)
      whole   == oldRow # NoRow /\ Sess(k) # NoRow
      closed  == IF EndsSession(k) THEN ClosedSession(k, "ended") ELSE Sess(k)
      promoted ==
        [TouchedInstallation(k) EXCEPT
           !.current = Arg(k), !.currentVersion = Cred(k).version,
           !.pending = None, !.pendingExpiresAt = None]
  IN
  /\ Ready(k, "promote")
  /\ \/ ~Authentic(k, TRUE) /\ Refuse(k)
     \/ /\ Authentic(k, TRUE) /\ Cred(k).status = "current"
        /\ \/ Cred(k).version <= 1 /\ Refuse(k)
           \/ /\ Cred(k).version > 1 /\ touched
              /\ Answer(k, "ok", Nothing) /\ UNCHANGED <<clock, handed>>
           \/ /\ Cred(k).version > 1 /\ ~touched
              /\ Transact(k, Touch(k), << >>, Nothing)
     \/ /\ Authentic(k, TRUE) /\ Cred(k).status = "pending"
        /\ \/ ~whole /\ Answer(k, "unavailable", NoRow) /\ UNCHANGED <<clock, handed>>
           \/ whole /\ oldRow.status # "current" /\ Refuse(k)
           \/ /\ whole /\ oldRow.status = "current"
              /\ Transact(k,
                   current :> [oldRow EXCEPT !.status = "retired"]
                     @@ CredentialKey(Arg(k)) :>
                          [TouchedCredential(k) EXCEPT
                             !.status = "current", !.pendingExpiresAt = None]
                     @@ InstallationKey(InstOf(k)) :>
                          (IF EndsSession(k)
                           THEN Unpointed(promoted, closed, Now(k))
                           ELSE promoted)
                     @@ SessionKey(InstOf(k)) :>
                          [closed EXCEPT !.lastOperation = k],
                   << >>, Nothing)

(***************************************************************************)
(* Revocation, by the holder of the credential or by an operator           *)
(***************************************************************************)
Revoked(k, currentKey) ==
  LET ends    == Live(Sess(k)) /\ Sess(k).id # None
      session == IF ends THEN ClosedSession(k, "revoked") ELSE Sess(k)
      pending == CredentialKey(Inst(k).pending)
      current == Seen(k, currentKey)
  IN
  InstallationKey(InstOf(k)) :>
      [Unpointed(Inst(k), session, Now(k)) EXCEPT
         !.status = "revoked", !.tombstoneVersion = @ + 1,
         !.endedAt = Now(k), !.lastActivityAt = Now(k)]
    @@ currentKey :> [current EXCEPT !.status = "revoked"]
    @@ SessionKey(InstOf(k)) :>
         (IF call[k].op = "revokeCurrent"
          THEN [session EXCEPT !.lastOperation = k] ELSE session)
    @@ (IF Seen(k, pending) = NoRow THEN << >>
        ELSE pending :> [Seen(k, pending) EXCEPT !.status = "revoked"])

RevokeCurrentInstallation(k) ==
  LET lacksPending == /\ Inst(k).pending # None
                      /\ Seen(k, CredentialKey(Inst(k).pending)) = NoRow
  IN
  /\ Ready(k, "revokeCurrent")
  /\ \/ AlreadyRevoked(k) /\ Answer(k, "ok", Nothing) /\ UNCHANGED <<clock, handed>>
     \/ ~AlreadyRevoked(k) /\ ~Authentic(k, FALSE) /\ Refuse(k)
     \/ /\ Authentic(k, FALSE) /\ ~(~lacksPending /\ Sess(k) # NoRow)
        /\ Answer(k, "unavailable", NoRow) /\ UNCHANGED <<clock, handed>>
     \/ /\ Authentic(k, FALSE) /\ ~lacksPending /\ Sess(k) # NoRow
        /\ Transact(k, Revoked(k, CredentialKey(Arg(k))), << >>, Nothing)

RevokeInstallation(k) ==
  LET known == Inst(k) # NoRow /\ Inst(k).status = "active"
      whole == /\ Seen(k, CredentialKey(Inst(k).current)) # NoRow
               /\ Sess(k) # NoRow
  IN
  /\ Ready(k, "revoke")
  /\ \/ ~known /\ Refuse(k)
     \/ /\ known /\ ~whole
        /\ Answer(k, "unavailable", NoRow) /\ UNCHANGED <<clock, handed>>
     \/ /\ known /\ whole
        /\ Transact(k, Revoked(k, CredentialKey(Inst(k).current)), << >>, Nothing)

(***************************************************************************)
(* Tickets                                                                 *)
(***************************************************************************)
IssueSessionTicket(k) ==
  LET t == Drawn(k)
      w == "ticket" IN
  /\ Ready(k, "issueTicket")
  /\ \/ ~Authentic(k, FALSE) /\ Refuse(k)
     \/ /\ Authentic(k, FALSE) /\ call[k].pc = "final"
        /\ Answer(k, "unavailable", NoRow) /\ UNCHANGED <<clock, handed>>
     \/ /\ Authentic(k, FALSE) /\ call[k].pc = "read"
        /\ \/ Charge(k, w, InstOf(k), k, ChargedWithin(k, w, InstOf(k)))
           \/ /\ call[k].charged
              /\ Transact(k, Touch(k),
                   TicketKey(t) :> TicketRow(k, InstOf(k), Inst(k), Cred(k), Now(k)),
                   Handing("ticket", t))

OpenedSession(k) ==
  LET t == Seen(k, TicketKey(Arg(k))) IN
  [kind |-> "session", status |-> "opening", id |-> Drawn(k),
   epoch |-> Inst(k).sessionEpoch + 1,
   credentialVersion |-> t.credentialVersion,
   tombstoneVersion |-> t.tombstoneVersion,
   leaseVersion |-> Sess(k).leaseVersion + 1,
   leaseExpiresAt |-> Now(k) + OpeningLease, lastActivityAt |-> Now(k),
   ticket |-> Arg(k), lastOperation |-> None]

Pointed(inst, session) ==
  [inst EXCEPT !.activeSession = session.id, !.activeEpoch = session.epoch,
               !.leaseVersion = session.leaseVersion,
               !.leaseExpiresAt = session.leaseExpiresAt]

ConsumeSessionTicket(k) ==
  LET i == InstOf(k)
      t == Seen(k, TicketKey(Arg(k)))
      s == OpenedSession(k)
      w == "reconnect" IN
  /\ Ready(k, "consume")
  /\ \/ ~TicketOpens(k) /\ Refuse(k)
     \/ /\ TicketOpens(k) /\ call[k].pc = "final"
        /\ \E verdict \in {"refused", "unavailable"} : Answer(k, verdict, NoRow)
        /\ UNCHANGED <<clock, handed>>
     \/ /\ TicketOpens(k) /\ call[k].pc = "read"
        /\ Supersedes(k) /\ ~call[k].charged
        /\ Charge(k, w, i, Arg(k), ChargedWithin(k, w, i))
     \/ /\ TicketOpens(k) /\ call[k].pc = "read"
        /\ Supersedes(k) => call[k].charged
        /\ TransactOnce(k,
             TicketKey(Arg(k)) :>
                 [t EXCEPT !.status = "consumed", !.session = s.id]
               @@ InstallationKey(i) :>
                    Pointed([TouchedInstallation(k) EXCEPT
                               !.sessionEpoch = s.epoch], s)
               @@ SessionKey(i) :> s,
             << >>, Lease(i, s))

(***************************************************************************)
(* Leases (#sessionMutation).  The caller presents the lease it was last   *)
(* given; every renewal changes the row's version.                         *)
(***************************************************************************)
\* what the three callers of #sessionMutation ask of the two rows
MayMutate(k) ==
  /\ Sess(k) # NoRow /\ Inst(k) # NoRow
  /\ LeaseMatches(Arg(k), Sess(k))
  /\ CASE call[k].op = "activate" ->
            /\ Sess(k).status = "opening" /\ Now(k) < Sess(k).leaseExpiresAt
            /\ InstallationValid(Inst(k), Now(k)) /\ Points(Inst(k), Sess(k))
       [] call[k].op = "heartbeat" -> SessionActive(Sess(k), Inst(k), Now(k))
       [] OTHER ->
            /\ Live(Sess(k)) /\ Now(k) < Sess(k).leaseExpiresAt
            /\ Inst(k).status = "active"
            /\ Sess(k).tombstoneVersion = Inst(k).tombstoneVersion
            /\ Sess(k).credentialVersion = Inst(k).currentVersion

MutatedSession(k) ==
  [Sess(k) EXCEPT
     !.status = IF call[k].op = "end" THEN "ended" ELSE "active",
     !.leaseVersion = @ + 1, !.lastActivityAt = Now(k),
     !.leaseExpiresAt =
        IF call[k].op = "end" THEN Now(k) ELSE Now(k) + ActiveLease,
     !.lastOperation = k]

SessionMutation(k) ==
  LET i == InstOf(k)
      s == MutatedSession(k)
      inst == TouchedInstallation(k) IN
  /\ Ready(k, call[k].op)
  /\ \/ ~MayMutate(k) /\ Refuse(k)
     \/ /\ MayMutate(k)
        /\ Transact(k,
             SessionKey(i) :> s
               @@ InstallationKey(i) :>
                    (IF s.status = "ended" THEN Unpointed(inst, s, Now(k))
                     ELSE Pointed(inst, s)),
             << >>, IF s.status = "ended" THEN Nothing ELSE Lease(i, s))

ActivateSession(k) == call[k].op = "activate" /\ SessionMutation(k)
HeartbeatSession(k) == call[k].op = "heartbeat" /\ SessionMutation(k)
EndSession(k) == call[k].op = "end" /\ SessionMutation(k)

(***************************************************************************)
(* Reconciliation: what a call reads, and what it must find, to take a     *)
(* transaction of unknown outcome for its own.                             *)
(***************************************************************************)
Planned(k, kind) ==
  {call[k].plan[key] : key \in {x \in DOMAIN call[k].plan : x[1] = kind}}
PlannedKeys(k, kind) ==
  LET keys == {x \in DOMAIN call[k].plan : x[1] = kind} IN
  IF keys = {} THEN << >> ELSE <<CHOOSE x \in keys : TRUE>>

Promotes(k) == Planned(k, "session") # {}

Rereads(k) ==
  IF call[k].pc = "recheck"
  THEN <<IF call[k].op = "redeem" THEN PairingKey(Arg(k)) ELSE TicketKey(Arg(k))>>
  ELSE CASE call[k].op = "authenticate" -> AuthenticationKeys(k)
    [] call[k].op = "promote" ->
         AuthenticationKeys(k) \o PlannedKeys(k, "session")
    [] call[k].op = "rotate" -> <<CredentialKey(Drawn(k))>>
    [] call[k].op = "revokeCurrent" ->
         PlannedKeys(k, "installation") \o <<CredentialKey(Arg(k))>>
           \o PlannedKeys(k, "session")
           \o If(\E x \in DOMAIN call[k].plan :
                   x[1] = "credential" /\ x # CredentialKey(Arg(k)),
                 <<CHOOSE x \in DOMAIN call[k].plan :
                     x[1] = "credential" /\ x # CredentialKey(Arg(k))>>)
    [] call[k].op = "revoke" -> <<InstallationKey(Arg(k))>>
    [] call[k].op = "issueTicket" -> <<TicketKey(Drawn(k))>>
    [] call[k].op = "consume" ->
         <<TicketKey(Arg(k))>> \o PlannedKeys(k, "session")
    [] call[k].op \in {"activate", "heartbeat", "end"} ->
         <<SessionKey(Arg(k).installation)>>
    [] call[k].op = "issuePairing" -> <<PairingKey(Drawn(k))>>
    [] OTHER -> <<PairingKey(Arg(k))>>

\* the row was read again and is the one the call wrote
Stands(k, kind) ==
  \E key \in DOMAIN call[k].plan :
    key[1] = kind /\ Seen(k, key) = call[k].plan[key]

\* takes any row there is for its own
FaultyReconciled(k) == \E key \in DOMAIN call[k].plan : Seen(k, key) # NoRow

Reconciled(k) ==
  CASE \/ call[k].op = "authenticate"
       \/ (call[k].op = "promote" /\ ~Promotes(k)) ->
         /\ Authentic(k, FALSE)
         /\ \E row \in Planned(k, "credential") :
              /\ Cred(k).version = row.version
              /\ Cred(k).lastUsedAt = row.lastUsedAt
              /\ Cred(k).idleExpiresAt = row.idleExpiresAt
    [] call[k].op = "promote" ->
         /\ Authentic(k, FALSE)
         /\ Seen(k, CredentialKey(Arg(k))) = call[k].plan[CredentialKey(Arg(k))]
         /\ Stands(k, "session")
         /\ \E row \in Planned(k, "installation") :
              /\ Inst(k).lastActivityAt = row.lastActivityAt
              /\ Inst(k).idleExpiresAt = row.idleExpiresAt
              /\ Inst(k).current = row.current
              /\ Inst(k).currentVersion = row.currentVersion
              /\ Inst(k).pending = None
    [] call[k].op = "rotate" ->
         LET key == CredentialKey(Drawn(k)) IN
         /\ Seen(k, key) # NoRow
         /\ Seen(k, key).status = "pending"
         /\ Seen(k, key).version = call[k].plan[key].version
    [] call[k].op = "revokeCurrent" ->
         /\ Stands(k, "session") /\ Stands(k, "installation")
         /\ \A key \in DOMAIN call[k].plan : key[1] = "credential" =>
              Seen(k, key) # NoRow /\ Seen(k, key).status = "revoked"
    [] call[k].op = "revoke" ->
         \E row \in Planned(k, "installation") :
           LET now == Seen(k, InstallationKey(Arg(k))) IN
           /\ now # NoRow /\ now.status = "revoked"
           /\ now.tombstoneVersion = row.tombstoneVersion
    [] call[k].op = "issueTicket" ->
         LET t == Seen(k, TicketKey(Drawn(k))) IN
         t # NoRow /\ t.status = "issued" /\ t.op = k
    [] call[k].op = "consume" ->
         LET t == Seen(k, TicketKey(Arg(k))) IN
         /\ t # NoRow /\ t.status = "consumed" /\ t.session = Drawn(k)
         /\ \E row \in Planned(k, "session") :
              \E key \in DOMAIN call[k].plan :
                /\ key[1] = "session" /\ Seen(k, key) # NoRow
                /\ Seen(k, key).id = row.id /\ Seen(k, key).epoch = row.epoch
    [] call[k].op \in {"activate", "heartbeat", "end"} ->
         LET s == Seen(k, SessionKey(Arg(k).installation)) IN
         s # NoRow /\ s.lastOperation = k
    [] call[k].op = "issuePairing" ->
         LET p == Seen(k, PairingKey(Drawn(k))) IN
         p = PairingRow(k, Now(k))
    [] call[k].op = "revokePairing" ->
         LET p == Seen(k, PairingKey(Arg(k))) IN
         p # NoRow /\ p.status = "revoked"
    [] OTHER ->
         LET p == Seen(k, PairingKey(Arg(k))) IN
         p # NoRow /\ p.status = "consumed" /\ p.installation = Drawn(k)

\* another call has used up the row that only one may use
UsedUp(k) ==
  LET row == IF call[k].op = "redeem" THEN Seen(k, PairingKey(Arg(k)))
             ELSE Seen(k, TicketKey(Arg(k))) IN
  IF row = NoRow THEN call[k].op = "redeem" /\ call[k].pc = "recheck"
  ELSE row.status # "issued"

\* the lease is made of the row as it is now
ReconciledValue(k) ==
  CASE call[k].op \in {"activate", "heartbeat"} ->
         Lease(Arg(k).installation, Seen(k, SessionKey(Arg(k).installation)))
    [] call[k].op = "consume" ->
         LET key == CHOOSE x \in DOMAIN call[k].plan : x[1] = "session" IN
         Lease(key[2], Seen(k, key))
    [] OTHER -> call[k].value

Reconcile(k) ==
  /\ call[k].pc \in {"reconcile", "recheck"}
  /\ Unread(k, Rereads(k)) = {}
  /\ \A key \in DOMAIN call[k].seen : Readable(call[k].seen[key])
  /\ UNCHANGED clock
  /\ \/ /\ call[k].pc = "reconcile" /\ Reconciled(k)
        /\ Answer(k, "ok", ReconciledValue(k))
        /\ handed' = HandedWith(ReconciledValue(k))
     \/ /\ call[k].pc = "reconcile" => ~Reconciled(k)
        /\ UNCHANGED handed
        /\ IF call[k].op \in {"redeem", "consume"} /\ UsedUp(k)
           THEN Answer(k, "refused", NoRow) ELSE Becomes(k, Again(k))

(***************************************************************************)
(* Cleanup of one row of a listed page (#securityRemovable, #rateRemovable *)
(* and the delete of cleanupExpired).  Expiring a session, or the          *)
(* installation with it, is a transaction of its own; the rows go in a     *)
(* later run.                                                              *)
(***************************************************************************)
TombstoneReady(inst, now) ==
  /\ inst.status # "active" /\ inst.endedAt # None
  /\ now - inst.endedAt >= TombstoneTtl

InstallationLapsed(inst, now) ==
  inst.status = "active" /\ ~InstallationValid(inst, now)

MustExpire(session, inst, now) ==
  \/ InstallationLapsed(inst, now)
  \/ Live(session) /\ now >= session.leaseExpiresAt
  \/ inst.status # "active" /\ session.status \notin {"none", "expired", "revoked"}

ExpiredRows(i, session, inst, now) ==
  LET status == IF session.id = None THEN "none"
                ELSE IF inst.status = "revoked" THEN "revoked" ELSE "expired"
      closed == [session EXCEPT
                   !.status = status, !.leaseVersion = @ + 1,
                   !.leaseExpiresAt = now, !.lastActivityAt = now]
      ended  == IF InstallationLapsed(inst, now)
                THEN [inst EXCEPT !.status = "expired", !.endedAt = now,
                                  !.tombstoneVersion = @ + 1]
                ELSE inst
  IN
  SessionKey(i) :> closed @@ InstallationKey(i) :> Unpointed(ended, closed, now)

Removable(k, row, now) ==
  CASE row.kind = "session" ->
         Seen(k, InstallationKey(Arg(k)[2])) # NoRow =>
           TombstoneReady(Seen(k, InstallationKey(Arg(k)[2])), now)
    [] row.kind = "installation" ->
         /\ Seen(k, SessionKey(Arg(k)[2])) = NoRow
         /\ row.status # "active" \/ now >= row.absoluteExpiresAt
         /\ now - (IF row.endedAt = None THEN row.absoluteExpiresAt
                   ELSE row.endedAt) >= TombstoneTtl
    [] row.kind = "credential" ->
         \/ row.status \in {"retired", "revoked", "expired"}
         \/ now >= row.absoluteExpiresAt \/ now >= row.idleExpiresAt
         \/ row.pendingExpiresAt # None /\ now >= row.pendingExpiresAt
    [] row.kind = "window" ->
         \/ row.events = << >>
         \/ now >= row.events[Len(row.events)].at + LongestPeriod(Arg(k)[2])
    [] OTHER -> row.status # "issued" \/ now >= row.expiresAt

Sweep(k) ==
  LET row  == Seen(k, Arg(k))
      inst == Seen(k, InstallationKey(Arg(k)[2]))
      done == Answered(k, "ok", Nothing)
      expires == /\ row.kind = "session" /\ inst # NoRow
                 /\ MustExpire(row, inst, Now(k))
  IN
  /\ Ready(k, "sweep") /\ UNCHANGED <<clock, handed>>
  /\ \/ row = NoRow /\ Becomes(k, done)
     \/ /\ expires
        /\ Submit(k, ExpiredRows(Arg(k)[2], row, inst, Now(k)), << >>,
                  done, done, done)
     \/ /\ row # NoRow /\ ~expires /\ Removable(k, row, Now(k))
        /\ Delete(k, Arg(k), done, done)
     \/ row # NoRow /\ ~expires /\ ~Removable(k, row, Now(k)) /\ Becomes(k, done)

(***************************************************************************)
(* Callers                                                                 *)
(***************************************************************************)
Held(kind) == {v.id : v \in {h \in handed : h.kind = kind}}
Leases == {h \in handed : h.kind = "lease"}
InstallationsIn(keys) == {x[2] : x \in {y \in keys : y[1] = "installation"}}

Arguments(op) ==
  CASE op \in {"authenticate", "rotate", "promote", "revokeCurrent",
               "issueTicket"} -> Held("credential")
    [] op = "consume" -> Held("ticket")
    [] op \in {"activate", "heartbeat", "end"} -> Leases
    [] op = "revoke" -> InstallationsIn(DOMAIN table)
    [] op = "sweep" -> DOMAIN table
    [] op = "issuePairing" -> {None}
    [] OTHER -> Held("code")

SecurityRequests ==
  {"issuePairing", "revokePairing", "redeem", "authenticate", "rotate",
   "promote", "revokeCurrent", "revoke", "issueTicket", "consume",
   "activate", "heartbeat", "end", "sweep"}

Start(k) ==
  /\ call[k].op = "none"
  /\ \E op \in Requests \cap SecurityRequests : \E arg \in Arguments(op) :
       Becomes(k, Make(k, op, arg, clock))
  /\ UNCHANGED <<clock, handed>>

ReadRow(k) ==
  /\ call[k].op \in SecurityRequests
  /\ call[k].pc \in {"read", "final", "reconcile", "recheck"}
  /\ \E key \in Unread(k, IF call[k].pc \in {"read", "final"}
                          THEN Reads(k) ELSE Rereads(k)) : PointRead(k, key)
  /\ UNCHANGED <<clock, handed>>

Tick ==
  /\ clock < MaxTime
  /\ clock' = clock + 1
  /\ UNCHANGED <<table, call, handed>>

Operate(k) ==
  \/ IssuePairing(k) \/ RevokePairing(k) \/ RedeemPairing(k)
  \/ AuthenticateCredential(k) \/ BeginCredentialRotation(k)
  \/ PromoteCredential(k) \/ RevokeCurrentInstallation(k)
  \/ RevokeInstallation(k) \/ IssueSessionTicket(k) \/ ConsumeSessionTicket(k)
  \/ ActivateSession(k) \/ HeartbeatSession(k) \/ EndSession(k) \/ Sweep(k)

SecurityNext ==
  \/ Tick
  \/ \E k \in Calls :
       \/ Start(k) \/ ReadRow(k) \/ Unreadable(k) \/ Operate(k)
       \/ call[k].op \in SecurityRequests /\ Reconcile(k)

(***************************************************************************)
(* Properties                                                              *)
(***************************************************************************)
Rows(kind) == {key \in DOMAIN table : table[key].kind = kind}

\* The rows written by concurrent calls fit together: a credential that is
\* current or pending is the one its installation names, a live session is the
\* one its installation points at, lease for lease, and belongs to the current
\* credential of an installation that is not revoked.
RowsAgree ==
  /\ \A key \in Rows("credential") :
       LET c == table[key]
           i == Row(InstallationKey(c.installation)) IN
       i # NoRow =>
         /\ c.status = "current" => i.current = key[2] /\ i.currentVersion = c.version
         /\ c.status = "pending" => i.pending = key[2]
         /\ i.status = "revoked" => c.status \notin {"current", "pending"}
  /\ \A key \in Rows("session") :
       LET s == table[key]
           i == Row(InstallationKey(key[2])) IN
       /\ Live(s) /\ i # NoRow => i.status = "active" /\ Points(i, s)
       /\ i # NoRow /\ i.activeSession # None => Live(s) /\ i.activeSession = s.id

\* An answer is never ahead of the table: what a call was told has happened,
\* whatever was lost on the way, has happened and still holds or was superseded.
AnswersStand ==
  \A k \in Calls : call[k].verdict = "ok" =>
    CASE call[k].op \in {"revoke", "revokeCurrent"} ->
           LET i == IF call[k].op = "revoke" THEN Arg(k)
                    ELSE Row(CredentialKey(Arg(k))).installation IN
           (call[k].op = "revokeCurrent" => Row(CredentialKey(Arg(k))) # NoRow) =>
             Row(InstallationKey(i)) = NoRow \/ table[InstallationKey(i)].status = "revoked"
      [] call[k].op = "promote" ->
           Row(CredentialKey(Arg(k))) # NoRow => table[CredentialKey(Arg(k))].status # "pending"
      [] call[k].op = "consume" ->
           /\ \A key \in Rows("ticket") : key[2] = Arg(k) =>
                table[key].status = "consumed" /\ table[key].session = call[k].value.session
           /\ \A x \in Calls \ {k} :
                call[x].op = "consume" /\ call[x].verdict = "ok" => Arg(x) # Arg(k)
      [] call[k].op \in {"activate", "heartbeat", "end"} ->
           LET s == Row(SessionKey(Arg(k).installation)) IN
           s # NoRow /\ s.id = Arg(k).session => s.leaseVersion > Arg(k).version
      [] call[k].op = "redeem" ->
           \A x \in Calls \ {k} :
             call[x].op = "redeem" /\ call[x].verdict = "ok" => Arg(x) # Arg(k)
      [] OTHER -> TRUE

\* Every ticket was charged to the window of its installation before it was
\* issued, once for each call however often it tried, and the window holds.
TicketsCharged ==
  \A w \in Rows("window") : w[2] = "ticket" =>
    LET events == table[w].events IN
    /\ \A key \in Rows("ticket") :
         table[key].installation = w[3] /\ table[key].op # None =>
           \E n \in DOMAIN events : events[n].op = table[key].op
    /\ \A m, n \in DOMAIN events : events[m].op = events[n].op => m = n
    /\ Len(events) <= CHOOSE x \in {q.limit : q \in Quotas["ticket"]} :
                        \A q \in Quotas["ticket"] : q.period = LongestPeriod("ticket") => x = q.limit

\* What is written can be read back: the demands of the parsers.
RowsReadBack == \A key \in DOMAIN table : Readable(table[key])
=============================================================================
