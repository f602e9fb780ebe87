------------------------------- MODULE MCAzure -------------------------------
(***************************************************************************)
(* Two concurrent calls of the durable store, from the rows it is in after *)
(* a pairing code was issued, after an installation was paired (with or    *)
(* without a rotation under way, and without a session, with an opening or *)
(* with an active one), and with an authorization in each of its states.   *)
(***************************************************************************)
EXTENDS AzureGeneration

CONSTANTS i0, c1, c2, t0, t1, p1, s0, g1, g0, u0, u1, u2

VARIABLE part  \* which operations are called, and under which constants

MCRequests == {"authorize", "start", "beat", "complete", "release",
               "reserve", "sweepRate", "end", "revoke"}
\* one utterance beside an authorization, two where there is none yet
G == INSTANCE AzureGeneration WITH
       ActiveLease <- 2, Utterances <- {u0}, Requests <- MCRequests
A == INSTANCE AzureGeneration WITH
       ActiveLease <- 2, Utterances <- {u1, u2}, Requests <- MCRequests

MCPaired ==
  [rows |-> PairingKey(p1) :> PairingRow(None, 0),
   held |-> {Handing("code", p1)}]

MCCredential(c, version, status) ==
  CredentialKey(c) :>
    CredentialRow(status, i0, version, 0, CredentialIdleTtl, CredentialAbsoluteTtl)

MCSession(status) ==
  IF status = "none" THEN SessionRow
  ELSE [SessionRow EXCEPT
          !.status = status, !.id = s0, !.epoch = 1, !.ticket = t0,
          !.leaseVersion = IF status = "opening" THEN 1 ELSE 2,
          !.leaseExpiresAt = IF status = "opening" THEN OpeningLease ELSE ActiveLease]

MCInstalled(rotating, status) ==
  LET s    == MCSession(status)
      inst == [InstallationRow(c1, 0, CredentialIdleTtl, CredentialAbsoluteTtl) EXCEPT
                 !.pending = IF rotating THEN c2 ELSE None,
                 !.pendingExpiresAt = IF rotating THEN PendingCredentialTtl ELSE None]
      row  == IF status = "none" THEN inst
              ELSE Pointed([inst EXCEPT !.sessionEpoch = 1], s)
  IN
  [rows |-> InstallationKey(i0) :> row @@ MCCredential(c1, 1, "current")
              @@ (IF rotating THEN MCCredential(c2, 2, "pending") ELSE << >>)
              @@ SessionKey(i0) :> s
              @@ TicketKey(t1) :> TicketRow(None, i0, row, [version |-> 1], 0),
   held |-> {Handing("credential", c1), Handing("ticket", t1)}
              \cup (IF rotating THEN {Handing("credential", c2)} ELSE {})
              \cup (IF status = "none" THEN {} ELSE {Lease(i0, s)})]

MCActive == [MCSession("active") EXCEPT !.leaseExpiresAt = 2]
MCRunning ==
  LET base == MCInstalled(FALSE, "active") IN
  [rows |-> InstallationKey(i0) :> Pointed(base.rows[InstallationKey(i0)], MCActive)
              @@ SessionKey(i0) :> MCActive @@ base.rows,
   held |-> {Lease(i0, MCActive)}]

MCAuthorized(status) ==
  LET base  == MCRunning
      lease == Lease(i0, MCActive)
      inst  == base.rows[InstallationKey(i0)]
      new   == NewGeneration(g0, lease, inst, 0)
      row   == CASE status = "claimed" -> new
                 [] status = "started" -> G!Started(new, g0, 0)
                 [] OTHER -> Released(new, 0)
      counter ==
        [NoCounter EXCEPT
           !.generated = <<[at |-> 0, op |-> g1]>>, !.generatedTotal = 1,
           !.attempts = IF status = "started" THEN <<[at |-> 0, op |-> g0]>> ELSE @,
           !.attemptTotal = IF status = "started" THEN 1 ELSE 0]
  IN
  [rows |-> base.rows @@ GenerationKey(g1) :> row @@ CounterKey(lease) :> counter,
   held |-> {lease, Claim(g1, row), Claim(g1, new)}]

MCInitial(p) ==
  CASE p = "security" ->
         {MCPaired, MCInstalled(FALSE, "none"), MCInstalled(FALSE, "opening"),
          MCInstalled(TRUE, "active")}
    [] p = "generation" ->
         {MCAuthorized(s) : s \in {"claimed", "started", "released"}}
    [] p = "audio" -> {MCRunning}

MCInit ==
  /\ part \in {"security", "generation", "audio"}
  /\ \E x \in MCInitial(part) : table = x.rows /\ handed = x.held
  /\ call = [k \in Calls |-> NoCall]
  /\ clock = 0

MCNext ==
  /\ UNCHANGED part
  /\ \/ part = "security" /\ SecurityNext
     \/ part = "generation" /\ (G!SecurityNext \/ G!GenerationNext)
     \/ part = "audio" /\ (A!SecurityNext \/ A!GenerationNext)

MCSpec ==
  /\ MCInit
  /\ [][MCNext]_<<secVars, part>>

\* calls for tickets alone
MCTicketsSpec ==
  /\ MCInit /\ part = "security"
  /\ [][SecurityNext /\ UNCHANGED part]_<<secVars, part>>

MCSymmetry == Permutations(Calls) \cup Permutations({u1, u2})
MCQuotas ==
  [w \in {"ticket", "reconnect", "pairIssue", "pairAttempt", "generation", "attempt"} |->
     IF w \in {"generation", "attempt"} THEN {[period |-> 1, limit |-> 2]}
     ELSE {[period |-> 9, limit |-> 1], [period |-> 1, limit |-> 1]}]
MCWideQuotas == [w \in DOMAIN MCQuotas |-> {[period |-> 9, limit |-> 2]}]
=============================================================================
