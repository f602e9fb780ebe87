------------------------------ MODULE ClientAuth ------------------------------
(***************************************************************************)
(* The credential controller of the G2 client (auth/controller.ts) between *)
(* its durable record (auth/credential-store.ts) and the relay's           *)
(* credential endpoints (auth/http-client.ts).                             *)
(*                                                                         *)
(* The controller runs one task at a time.  A task is its operation and a  *)
(* place in it; between two places there is an await, during which the     *)
(* clock moves, a request is served, or the page is reloaded.  A secret is *)
(* told apart from the others of its installation by the deadline it had   *)
(* while it was pending (0 for the first); the pending credential of a     *)
(* record has the next version.  Requests may be lost, may be answered in  *)
(* vain, and may arrive after their caller gave up.                        *)
(***************************************************************************)
EXTENDS Naturals, Sequences

CONSTANTS
  Absent,            \* "undefined"
  PendingTtl,        \* life of a pending credential
  RotationPeriod,    \* THIRTY_DAYS_MS
  AbsoluteTtl,       \* life of an installation
  MaxAuthTime,       \* bound: the clock
  MaxInstallations,  \* bound: redeemed pairing codes
  MaxVersions,       \* bound: rotations of one installation
  MaxGrants          \* bound: grants handed out

\* a pending credential ends before the one it replaces falls due
ASSUME LifetimesAssumption ==
  /\ PendingTtl \in Nat /\ RotationPeriod \in Nat /\ AbsoluteTtl \in Nat
  /\ PendingTtl <= RotationPeriod

VARIABLES
  authClock,
  store,    \* the record under ACTIVE_INSTALLATION_KEY, or NoRecord
  server,   \* what the relay knows of each installation
  client,   \* the controller's variables
  task,     \* the queued task that runs, or the answer of the last one
  adrift,   \* requests whose caller has gone, which may still arrive
  leases,   \* credentials the transport holds, with the relay's verdict
  grants    \* grant tokens drawn so far

authVars == <<authClock, store, server, client, task, adrift, leases, grants>>
outside == <<authClock, server, adrift, leases, grants>>

NoRecord == [inst |-> 0]

FreshClient ==
  [initialized |-> FALSE, storageError |-> FALSE, volatile |-> FALSE,
   record |-> NoRecord, pendingClear |-> Absent, pendingRevocation |-> Absent,
   grant |-> Absent, callback |-> Absent]

NoTask ==
  [op |-> "none", pc |-> "idle", after |-> "answer", answer |-> Absent,
   cred |-> Absent, keep |-> Absent, outcome |-> "none"]

Least(a, b) == IF a < b THEN a ELSE b

Current(r) == [inst |-> r.inst, version |-> r.version, secret |-> r.secret]
Pending(r) ==
  [inst |-> r.inst, version |-> r.version + 1, secret |-> r.pendingExpires]

\* conservativeBoundary
Boundary(r) == Least(authClock + RotationPeriod, r.absolute)

GrantOf(r, token) ==
  [inst |-> r.inst, version |-> r.version, secret |-> r.secret, token |-> token]
LeaseOf(g) ==
  [inst |-> g.inst, version |-> g.version, secret |-> g.secret,
   token |-> g.token, verdict |-> "none"]

CurrentOnly(r) == [r EXCEPT !.pending = FALSE, !.pendingExpires = 0]

AsInstallationRecord(s, i) ==
  [inst |-> i, version |-> 1, secret |-> 0, absolute |-> s.absolute,
   dueAt |-> Least(s.redeemedAt + RotationPeriod, s.absolute),
   pending |-> FALSE, pendingExpires |-> 0]

\* defined when the pending credential is still good
WithPending(r, expires) ==
  [CurrentOnly(r) EXCEPT !.pending = TRUE, !.pendingExpires = expires]

PromotedRecord(r) ==
  [CurrentOnly(r) EXCEPT !.version = @ + 1, !.secret = r.pendingExpires,
                         !.dueAt = Boundary(r)]

AbsoluteExpired(c) == c.record # NoRecord /\ authClock >= c.record.absolute
PendingExpired(r) == r.pending /\ authClock >= r.pendingExpires

(***************************************************************************)
(* The relay's side: SecurityState's credential operations, over one       *)
(* installation.  Each gives the row it leaves and the answer.             *)
(***************************************************************************)
RowValid(s) == s.status = "active" /\ authClock < s.absolute
Accepts(cred) ==
  RowValid(server[cred.inst]) /\ server[cred.inst].secret = cred.secret

Row(s, kind) == [row |-> s, answer |-> [kind |-> kind, expires |-> 0]]

PromoteAt(s, secret) ==
  IF RowValid(s) /\ s.secret = secret /\ s.version > 1 THEN Row(s, "ok")
  ELSE IF RowValid(s) /\ s.pending /\ s.pendingExpires = secret /\ authClock < secret
       THEN Row([s EXCEPT !.version = @ + 1, !.secret = secret,
                          !.pending = FALSE], "ok")
       ELSE Row(s, "401")

BeginAt(s, secret) ==
  LET expires == Least(authClock + PendingTtl, s.absolute) IN
  IF ~RowValid(s) \/ s.secret # secret THEN Row(s, "401")
  ELSE IF s.pending /\ authClock < s.pendingExpires THEN Row(s, "409")
  ELSE [row |-> [s EXCEPT !.pending = TRUE, !.pendingExpires = expires],
        answer |-> [kind |-> "ok", expires |-> expires]]

RevokeAt(s, secret) ==
  IF s.secret = secret /\ (RowValid(s) \/ s.status = "revoked")
  THEN Row([s EXCEPT !.status = "revoked", !.pending = FALSE], "ok")
  ELSE Row(s, "401")

At(kind, s, secret) ==
  CASE kind = "confirm" -> PromoteAt(s, secret)
    [] kind = "begin" -> BeginAt(s, secret)
    [] OTHER -> RevokeAt(s, secret)

Redeemed ==
  Append(server, [version |-> 1, secret |-> 0, status |-> "active",
                  redeemedAt |-> authClock,
                  absolute |-> authClock + AbsoluteTtl, pending |-> FALSE,
                  pendingExpires |-> 0])

(***************************************************************************)
(* Pieces of a task                                                        *)
(***************************************************************************)
Leads(c, t) == client' = c /\ task' = t

Gives(c, outcome) == Leads(c, [NoTask EXCEPT !.outcome = outcome])

\* a storage error while a promotion is saved on the way to a revocation
\* leaves the credential to revoke behind
StorageFails(c) ==
  Gives([c EXCEPT !.storageError = TRUE,
                  !.pendingRevocation = IF task.keep = Absent THEN @ ELSE task.keep,
                  !.grant = IF task.keep = Absent THEN @ ELSE Absent,
                  !.callback = IF \/ task.keep # Absent
                                  \/ task.op = "recordAuthenticated" THEN Absent ELSE @],
        "storage-error")

\* beginClear
Clearing(c, reason) ==
  [c EXCEPT !.pendingClear = reason, !.record = NoRecord, !.volatile = FALSE,
            !.initialized = TRUE, !.storageError = TRUE, !.grant = Absent,
            !.callback = Absent]

Clears(c, t, reason, after) ==
  Leads(Clearing(c, reason), [t EXCEPT !.pc = "clear", !.after = after])

\* a clear that failed earlier is tried again before anything else
ClearsAgain(t, after) == Leads(client, [t EXCEPT !.pc = "clear", !.after = after])

\* expireCurrent, which every task calls after every await
Expires == /\ AbsoluteExpired(client)
           /\ Clears(client, task, "absolute-expired", "answer")
Fit == ~AbsoluteExpired(client)

\* persistRecord up to its save
Persists(c, t, r, after) ==
  LET held == [c EXCEPT !.record = r, !.volatile = TRUE, !.storageError = FALSE] IN
  IF AbsoluteExpired(held) THEN Clears(held, t, "absolute-expired", "answer")
  ELSE Leads(held, [t EXCEPT !.pc = "save", !.after = after])

Goes(pc) == Leads(client, [task EXCEPT !.pc = pc, !.answer = Absent])

Asked(op) == [NoTask EXCEPT !.op = op]

Invalidated(c) == [c EXCEPT !.grant = Absent, !.callback = Absent]

(***************************************************************************)
(* Tasks, up to their first await                                          *)
(***************************************************************************)
Quiet == task.pc = "idle" /\ UNCHANGED <<outside, store>>

Initialize ==
  /\ Quiet
  /\ \/ client.pendingRevocation # Absent /\ Gives(client, "storage-error")
     \/ /\ client.pendingRevocation = Absent
        /\ IF client.pendingClear # Absent THEN ClearsAgain(Asked("initialize"), "answer")
           ELSE Leads(client, [Asked("initialize") EXCEPT !.pc = "load"])

Enroll ==
  LET c == Invalidated(client) IN
  /\ Quiet
  /\ \/ c.pendingRevocation # Absent /\ Gives(c, "storage-error")
     \/ /\ c.pendingRevocation = Absent /\ c.pendingClear # Absent
        /\ Leads(c, [Asked("enroll") EXCEPT !.pc = "clear", !.after = "awake"])
     \/ /\ c.pendingRevocation = Absent /\ c.pendingClear = Absent
        /\ IF c.storageError /\ c.volatile THEN Gives(c, "storage-error")
           ELSE Leads(c, [Asked("enroll") EXCEPT !.pc = "awake"])

RetryPersistence ==
  LET t == Asked("retry") IN
  /\ Quiet
  /\ \/ /\ client.pendingRevocation # Absent
        /\ Leads(Invalidated(client),
                [t EXCEPT !.pc = "awake", !.cred = client.pendingRevocation])
     \/ /\ client.pendingRevocation = Absent /\ client.pendingClear # Absent
        /\ ClearsAgain(t, "answer")
     \/ /\ client.pendingRevocation = Absent /\ client.pendingClear = Absent
        /\ IF client.volatile /\ client.record # NoRecord
           THEN Persists(client, t, client.record, "ready")
           ELSE Leads(client, [t EXCEPT !.pc = "load"])

ResetEnrollment ==
  /\ Quiet
  /\ \/ client.pendingRevocation # Absent /\ Gives(client, "storage-error")
     \/ /\ client.pendingRevocation = Absent
        /\ Clears(client, Asked("reset"), "missing", "answer")

\* what both prepareSessionBoundary and revokeCurrent ask first
Usable(c) == ~c.storageError /\ c.initialized /\ c.record # NoRecord
Unusable(c) ==
  CASE c.storageError -> "storage-error"
    [] ~c.initialized -> "unavailable"
    [] OTHER -> "missing"

PrepareSessionBoundary ==
  LET c == Invalidated(client)
      t == Asked("prepare") IN
  /\ Quiet
  /\ \/ c.pendingRevocation # Absent /\ Gives(c, "storage-error")
     \/ /\ c.pendingRevocation = Absent /\ c.pendingClear # Absent
        /\ Leads(c, [t EXCEPT !.pc = "clear"])
     \/ /\ c.pendingRevocation = Absent /\ c.pendingClear = Absent
        /\ IF ~Usable(c) THEN Gives(c, Unusable(c))
           ELSE IF AbsoluteExpired(c) THEN Clears(c, t, "absolute-expired", "answer")
           ELSE Leads(c, [t EXCEPT !.pc = "resolve", !.after = "decide"])

RevokeCurrent ==
  LET c == Invalidated(client)
      t == Asked("revoke") IN
  /\ Quiet
  /\ \/ /\ c.pendingRevocation # Absent
        /\ Leads(c, [t EXCEPT !.pc = "awake", !.cred = c.pendingRevocation])
     \/ /\ c.pendingRevocation = Absent /\ c.pendingClear # Absent
        /\ Leads(c, [t EXCEPT !.pc = "clear"])
     \/ /\ c.pendingRevocation = Absent /\ c.pendingClear = Absent
        /\ IF ~Usable(c) THEN Gives(c, Unusable(c))
           ELSE IF AbsoluteExpired(c) THEN Clears(c, t, "absolute-expired", "answer")
           ELSE Leads(c, [t EXCEPT !.pc = "awake"])

(***************************************************************************)
(* The provider the transport gets its credential from                     *)
(***************************************************************************)
Acquire ==
  LET g == client.grant IN
  /\ task.pc = "idle"
  /\ UNCHANGED <<authClock, server, adrift, grants, store>>
  /\ \/ /\ \/ client.pendingRevocation # Absent \/ client.pendingClear # Absent
           \/ client.storageError
        /\ Gives(client, "storage-error") /\ UNCHANGED leases
     \/ /\ client.pendingRevocation = Absent /\ client.pendingClear = Absent
        /\ ~client.storageError
        /\ IF g = Absent THEN Gives(client, "required") /\ UNCHANGED leases
           ELSE IF AbsoluteExpired(client)
           THEN Clears(client, Asked("acquire"), "absolute-expired", "answer")
                /\ UNCHANGED leases
           ELSE /\ Gives([client EXCEPT !.grant = Absent, !.callback =
                            [version |-> g.version, token |-> g.token,
                             phase |-> "acquired"]], "lease")
                /\ leases' = leases \cup {LeaseOf(g)}

\* the lease is the one handed out last, and of the credential held now
Mine(l) ==
  /\ client.callback # Absent /\ client.record # NoRecord
  /\ client.callback.version = l.version /\ client.callback.token = l.token
  /\ client.record.version = l.version

RecordAuthenticated(l) ==
  LET t == Asked("recordAuthenticated") IN
  /\ task.pc = "idle" /\ l.verdict = "ok"
  /\ leases' = leases \ {l}
  /\ UNCHANGED <<authClock, server, adrift, grants, store>>
  /\ IF ~Mine(l) \/ client.callback.phase # "acquired" THEN Gives(client, "stale")
     ELSE IF client.pendingClear # Absent \/ client.storageError
     THEN Gives(client, "storage-error")
     ELSE IF AbsoluteExpired(client) THEN Clears(client, t, "absolute-expired", "answer")
     ELSE Persists(client, t, client.record, "recorded")

Reject(l) ==
  /\ task.pc = "idle" /\ l.verdict = "401"
  /\ leases' = leases \ {l}
  /\ UNCHANGED <<authClock, server, adrift, grants, store>>
  /\ IF Mine(l) THEN Clears(client, Asked("reject"), "credential-rejected", "answer")
     ELSE Gives(client, "stale")

\* the transport asks for a ticket with its lease
UseLease(l) ==
  /\ l.verdict = "none"
  /\ leases' = (leases \ {l}) \cup
       {[l EXCEPT !.verdict = IF Accepts(l) THEN "ok" ELSE "401"]}
  /\ UNCHANGED <<authClock, store, server, client, task, adrift, grants>>

(***************************************************************************)
(* The durable record                                                      *)
(***************************************************************************)
\* performPendingClear
StoreClear ==
  /\ task.pc = "clear"
  /\ UNCHANGED outside
  /\ \/ StorageFails(client) /\ UNCHANGED store
     \/ /\ store' = NoRecord
        /\ LET c == [Invalidated(client) EXCEPT
                       !.pendingClear = Absent, !.record = NoRecord,
                       !.volatile = FALSE, !.initialized = TRUE,
                       !.storageError = FALSE] IN
           IF task.after = "answer" THEN Gives(c, client.pendingClear)
           ELSE Leads(c, [task EXCEPT !.pc = task.after])

\* persistRecord from its save on
StoreSave ==
  /\ task.pc = "save"
  /\ UNCHANGED outside
  /\ \/ StorageFails(client) /\ UNCHANGED store
     \/ /\ store' = client.record
        /\ \/ Expires
           \/ Fit /\ Leads([client EXCEPT !.volatile = FALSE, !.storageError = FALSE],
                          [task EXCEPT !.pc = task.after, !.keep = Absent])

\* initializeCore from its load on
StoreLoad ==
  /\ task.pc = "load"
  /\ UNCHANGED <<outside, store>>
  /\ LET c == [Invalidated(client) EXCEPT
                 !.record = NoRecord, !.volatile = FALSE, !.initialized = TRUE]
         loaded == [c EXCEPT !.record = store, !.storageError = FALSE] IN
     \/ Gives([c EXCEPT !.storageError = TRUE], "storage-error")
     \/ IF AbsoluteExpired(loaded)
        THEN Clears(loaded, task, "absolute-expired", "answer")
        ELSE Gives(loaded, IF store = NoRecord THEN "missing" ELSE "ready")

(***************************************************************************)
(* Tasks, from one await to the next                                       *)
(***************************************************************************)
Steps(pc) == task.pc = pc /\ UNCHANGED <<outside, store>>

Ready == Steps("ready") /\ Gives(client, "ready")

\* ensureRelayAwake, whose answer may be cached
Awake ==
  /\ Steps("awake")
  /\ \/ Gives(client, "unavailable")
     \/ /\ task.cred # Absent
        /\ IF client.pendingClear = Absent
           THEN Clears(client, task, "revocation-unconfirmed", "revoke")
           ELSE ClearsAgain(task, "revoke")
     \/ /\ task.op = "enroll"
        /\ IF AbsoluteExpired(client)
           THEN Clears(client, task, "absolute-expired", "redeem")
           ELSE Goes("redeem")
     \/ /\ task.op = "revoke" /\ task.cred = Absent
        /\ (Expires \/ (Fit /\ Leads(client, [task EXCEPT !.pc = "resolve",
                                                         !.after = "candidate"])))

\* resolvePendingForBoundary, and the same part of credentialForRevocation
Resolve ==
  /\ Steps("resolve")
  /\ IF ~client.record.pending THEN Goes(task.after)
     ELSE IF PendingExpired(client.record)
     THEN Persists(client, task, CurrentOnly(client.record), task.after)
     ELSE Goes("confirm")

\* gives the pending credential up whatever went wrong
FaultyConfirmRefused == TRUE
ConfirmRefused == task.answer.kind = "401"

Confirmed ==
  /\ Steps("confirm") /\ task.answer # Absent
  /\ \/ Expires
     \/ /\ Fit /\ task.answer.kind = "ok"
        /\ Persists(client,
             [task EXCEPT !.answer = Absent,
                !.keep = IF task.op = "revoke" THEN Pending(client.record) ELSE Absent],
             PromotedRecord(client.record), task.after)
     \/ /\ Fit /\ task.answer.kind # "ok"
        /\ IF PendingExpired(client.record) \/ ConfirmRefused
           THEN Persists(client, [task EXCEPT !.answer = Absent],
                         CurrentOnly(client.record), task.after)
           ELSE IF task.op = "revoke"
           THEN Leads(client, [task EXCEPT !.pc = "candidate", !.answer = Absent,
                                          !.cred = Pending(client.record)])
           ELSE Gives(client, "unavailable")

\* allowRotation, which every caller passes as true
Decide ==
  /\ Steps("decide")
  /\ \/ Expires
     \/ Fit /\ Goes(IF authClock >= client.record.dueAt THEN "begin" ELSE "grant")

Begun ==
  /\ Steps("begin") /\ task.answer # Absent
  /\ \/ Expires
     \/ /\ Fit /\ task.answer.kind = "401"
        /\ Clears(client, task, "credential-rejected", "answer")
     \/ Fit /\ task.answer.kind = "409" /\ Goes("grant")
     \/ Fit /\ task.answer.kind = "fail" /\ Gives(client, "unavailable")
     \/ /\ Fit /\ task.answer.kind = "ok"
        /\ IF authClock < task.answer.expires
           THEN Persists(client, [task EXCEPT !.answer = Absent],
                  WithPending(client.record, task.answer.expires), "pended")
           ELSE Gives(client, "unavailable")

\* the pending credential is durable before it is used
Pended ==
  Steps("pended") /\ Leads(client, [task EXCEPT !.pc = "resolve", !.after = "grant"])

Grant ==
  /\ task.pc = "grant" /\ grants < MaxGrants
  /\ UNCHANGED <<authClock, server, adrift, leases, store>>
  /\ \/ Expires /\ UNCHANGED grants
     \/ /\ Fit /\ client.record.pending
        /\ Gives(client, "unavailable") /\ UNCHANGED grants
     \/ /\ Fit /\ ~client.record.pending
        /\ grants' = grants + 1
        /\ Gives([client EXCEPT !.grant = GrantOf(client.record, grants')], "ready")

Recorded ==
  /\ Steps("recorded")
  /\ \/ Expires
     \/ Fit /\ Gives([client EXCEPT !.callback.phase = "authenticated"],
                     "recorded")

\* the local record goes before the relay is asked
Candidate ==
  /\ Steps("candidate")
  /\ \/ Expires
     \/ /\ Fit
        /\ Clears(client,
             [task EXCEPT !.cred = IF @ = Absent THEN Current(client.record) ELSE @],
             "revocation-unconfirmed", "revoke")

Revoked ==
  /\ Steps("revoke") /\ task.answer # Absent
  /\ LET revoked == task.answer.kind = "ok" IN
     Leads([client EXCEPT !.pendingRevocation = Absent],
          [NoTask EXCEPT !.cred = task.cred, !.outcome = IF revoked THEN "revoked" ELSE "revocation-unconfirmed"])

Enrolled ==
  /\ Steps("redeem") /\ task.answer # Absent
  /\ \/ /\ task.answer.kind = "ok"
        /\ LET i == task.answer.expires
               r == AsInstallationRecord(server[i], i) IN
           IF authClock >= r.absolute THEN Gives(client, "pairing-uncertain")
           ELSE Persists([client EXCEPT !.initialized = TRUE], task, r, "ready")
     \/ task.answer.kind = "401" /\ Gives(client, "pairing-failed")
     \/ task.answer.kind = "fail" /\ Gives(client, "pairing-uncertain")

(***************************************************************************)
(* Requests                                                                *)
(***************************************************************************)
\* what the request in flight presents
Presented ==
  CASE task.pc = "confirm" -> Pending(client.record)
    [] task.pc = "begin" -> Current(client.record)
    [] OTHER -> task.cred

InFlight == task.pc \in {"confirm", "begin", "revoke"} /\ task.answer = Absent
Failure == [kind |-> "fail", expires |-> 0]
Answers(a) == task' = [task EXCEPT !.answer = a]

\* a rotation beyond the bound is not served
Bounded(kind, cred) == kind = "begin" => cred.version < MaxVersions

\* the request is served, and its answer arrives or is lost
Serve ==
  /\ InFlight /\ Bounded(task.pc, Presented)
  /\ LET cred == Presented
         at   == At(task.pc, server[cred.inst], cred.secret) IN
     /\ server' = [server EXCEPT ![cred.inst] = at.row]
     /\ Answers(at.answer) \/ Answers(Failure)
  /\ UNCHANGED <<authClock, store, client, adrift, leases, grants>>

\* the deadline passes; the request is lost or still under way
Lose ==
  /\ InFlight /\ Answers(Failure)
  /\ adrift' \in {adrift, {[kind |-> task.pc, cred |-> Presented]}}
  /\ UNCHANGED <<authClock, store, server, client, leases, grants>>

Redeem ==
  /\ task.pc = "redeem" /\ task.answer = Absent
  /\ UNCHANGED <<authClock, store, client, adrift, leases, grants>>
  /\ \/ /\ Len(server) < MaxInstallations
        /\ server' = Redeemed
        /\ \/ Answers([kind |-> "ok", expires |-> Len(server')])
           \/ Answers(Failure)
     \/ Answers([kind |-> "401", expires |-> 0]) /\ UNCHANGED server
     \/ Answers(Failure) /\ UNCHANGED server

Arrive ==
  \E m \in adrift :
    /\ Bounded(m.kind, m.cred)
    /\ adrift' = {}
    /\ server' = [server EXCEPT ![m.cred.inst] =
                    At(m.kind, @, m.cred.secret).row]
    /\ UNCHANGED <<authClock, store, client, task, leases, grants>>

\* the page is reloaded, or the controller disposed of and created again
Restart ==
  /\ client # FreshClient \/ task.pc # "idle"
  /\ client' = FreshClient /\ task' = NoTask /\ leases' = {}
  /\ adrift' = IF InFlight THEN {[kind |-> task.pc, cred |-> Presented]} ELSE adrift
  /\ UNCHANGED <<authClock, store, server, grants>>

AuthTick ==
  /\ authClock < MaxAuthTime
  /\ authClock' = authClock + 1
  /\ UNCHANGED <<store, server, client, task, adrift, leases, grants>>

AuthInit ==
  /\ authClock = 0 /\ store = NoRecord /\ server = << >> /\ client = FreshClient
  /\ task = NoTask /\ adrift = {} /\ leases = {} /\ grants = 0

AuthNext ==
  \/ Initialize \/ Enroll \/ RetryPersistence \/ ResetEnrollment
  \/ PrepareSessionBoundary \/ RevokeCurrent \/ Acquire
  \/ \E l \in leases :
       RecordAuthenticated(l) \/ Reject(l) \/ UseLease(l)
  \/ StoreClear \/ StoreSave \/ StoreLoad
  \/ Ready \/ Awake \/ Resolve \/ Confirmed \/ Decide \/ Begun \/ Pended \/ Grant
  \/ Recorded \/ Candidate \/ Revoked \/ Enrolled
  \/ Serve \/ Lose \/ Redeem \/ Arrive \/ Restart \/ AuthTick

AuthSpec == AuthInit /\ [][AuthNext]_authVars

(***************************************************************************)
(* Properties                                                              *)
(***************************************************************************)
\* Whatever is lost, and wherever the page is reloaded, the durable record
\* names the credential the relay holds current, as its current or as its
\* pending one, until that pending one's deadline has passed.
NeverStranded ==
  store # NoRecord /\ RowValid(server[store.inst]) =>
    LET s == server[store.inst] IN
    \/ s.secret = store.secret
    \/ store.pending /\ s.secret = store.pendingExpires
    \/ authClock >= s.secret

\* What a task answered is durable: a credential reported gone is gone from
\* the store, and one reported ready will be there after a restart.
AnswersDurable ==
  /\ task.outcome \in {"revoked", "revocation-unconfirmed", "credential-rejected",
                       "absolute-expired"} => store = NoRecord
  /\ task.outcome = "revoked" => server[task.cred.inst].status = "revoked"
  /\ task.outcome \in {"ready", "lease", "recorded"} =>
       store # NoRecord /\ store = client.record

\* No credential the relay relies on is lost, and none is reported before it
\* is kept.
CredentialKept == NeverStranded /\ AnswersDurable
=============================================================================
