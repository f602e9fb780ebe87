------------------------------ MODULE Admission ------------------------------
(***************************************************************************)
(* Which connections one relay process keeps while installations are       *)
(* promoted and revoked: the upgrade handler and the calls that promote    *)
(* and revoke (apps/relay/src/host.ts), the two denial caches              *)
(* (apps/relay/src/security-cache.ts) and the durable store behind them.   *)
(* The store decides whom it gives a lease to, but a lease it gave may     *)
(* reach the process after the news that it is worth nothing, and a call   *)
(* may change the store without the process hearing of it: another         *)
(* process made it, or its answer was lost.                                *)
(*                                                                         *)
(* A cache is what it knows, and whether it ever had to forget something.  *)
(* Which entry it forgets, the least recently used, is left open here.     *)
(***************************************************************************)
EXTENDS Naturals, FiniteSets

CONSTANTS
  Installations,
  Upgrades,      \* upgrade requests, and the connections that come of them
  Calls,         \* calls to promote or revoke that reach this process
  Capacity,      \* RELAY_SECURITY_CACHE_CAPACITY
  MaxVersion,    \* bound on credential versions
  None

ASSUME AdmissionAssumption ==
  /\ Capacity \in Nat \ {0}
  /\ MaxVersion \in Nat \ {0}
  /\ None \notin Installations

VARIABLES
  store,     \* what the durable store knows of an installation
  stopping,  \* the host is shutting down
  revoked,   \* #revokedInstallations
  minimum,   \* #minimumCredentialVersions, 0 where there is no entry
  upgrade,   \* an upgrade, its lease and its connection
  call,      \* a call, its result and the connections it waits for
  told        \* history: the results this process has applied

caches == <<revoked, minimum>>
vars == <<store, stopping, caches, upgrade, call, told>>

Versions == 0..MaxVersion

NoLease == [pc |-> "idle", i |-> None, version |-> 0]

\* the upgrade at a later point; one that is over has no lease
At(upgraded, to) ==
  IF to \in {"closed", "refused"} THEN [NoLease EXCEPT !.pc = to]
  ELSE [upgraded EXCEPT !.pc = to]

NoCall == [pc |-> "idle", kind |-> None, i |-> None, version |-> 0, waits |-> {}]
NoNews == [i \in Installations |-> [version |-> 0, revoked |-> FALSE]]
NothingRevoked == [known |-> {}, evicted |-> FALSE]
NoMinimum == [version |-> [i \in Installations |-> 0], evicted |-> FALSE]

Init ==
  /\ store = [i \in Installations |-> [version |-> 1, revoked |-> FALSE]]
  /\ stopping = FALSE
  /\ revoked = NothingRevoked /\ minimum = NoMinimum
  /\ upgrade = [u \in Upgrades |-> NoLease]
  /\ call = [c \in Calls |-> NoCall]
  /\ told = NoNews

\* the lease is of the current credential of an installation in good standing
Backed(u) ==
  /\ ~store[upgrade[u].i].revoked
  /\ store[upgrade[u].i].version = upgrade[u].version

(***************************************************************************)
(* RelaySecurityCache                                                      *)
(***************************************************************************)
\* a miss is an ordinary miss
FaultyAllowed(i, version) ==
  /\ i \notin revoked.known
  /\ version >= minimum.version[i]

\* leaseAllowed: a miss denies once an entry was forgotten
Allowed(i, version) ==
  /\ i \notin revoked.known /\ ~revoked.evicted
  /\ IF minimum.version[i] > 0 THEN version >= minimum.version[i]
                               ELSE ~minimum.evicted

Known == {i \in Installations : minimum.version[i] > 0}

\* applyPromotionResult
LearnMinimum(i, version) ==
  \/ /\ \/ version =< minimum.version[i]
        \/ minimum.version[i] = 0 /\ minimum.evicted
     /\ UNCHANGED minimum
  \/ /\ version > minimum.version[i]
     /\ i \in Known \/ (Cardinality(Known) < Capacity /\ ~minimum.evicted)
     /\ minimum' = [minimum EXCEPT !.version[i] = version]
  \/ /\ version > minimum.version[i]
     /\ i \notin Known /\ ~minimum.evicted /\ Cardinality(Known) >= Capacity
     /\ \E j \in Known :
          minimum' = [version |-> [minimum.version EXCEPT ![i] = version, ![j] = 0],
                      evicted |-> TRUE]

\* applyRevocationResult
LearnRevoked(i) ==
  \/ /\ i \in revoked.known
     /\ UNCHANGED revoked
  \/ /\ i \notin revoked.known /\ Cardinality(revoked.known) < Capacity
     /\ revoked' = [revoked EXCEPT !.known = @ \cup {i}]
  \/ /\ i \notin revoked.known /\ Cardinality(revoked.known) >= Capacity
     /\ \E j \in revoked.known :
          revoked' = [known |-> (revoked.known \ {j}) \cup {i}, evicted |-> TRUE]

(***************************************************************************)
(* Upgrades and connections                                                *)
(***************************************************************************)
Moves(u, from, to) ==
  /\ upgrade[u].pc \in from
  /\ upgrade' = [upgrade EXCEPT ![u] = At(@, to)]
  /\ UNCHANGED <<store, stopping, caches, call, told>>

\* the upgrade request, and the store's word on its ticket
Prepare(u, i) ==
  /\ ~stopping
  /\ upgrade[u].pc = "idle"
  /\ ~store[i].revoked
  /\ upgrade' = [upgrade EXCEPT
       ![u] = [pc |-> "prepared", i |-> i, version |-> store[i].version]]
  /\ UNCHANGED <<store, stopping, caches, call, told>>

\* the lease has reached the process
Open(u) ==
  /\ Moves(u, {"prepared"}, "open")
  /\ ~stopping /\ Allowed(upgrade[u].i, upgrade[u].version)
Refuse(u) ==
  /\ Moves(u, {"prepared"}, "refused")
  /\ stopping \/ ~Allowed(upgrade[u].i, upgrade[u].version)

\* session.start: the store activates the session
Activate(u) == Moves(u, {"open"}, "active") /\ Backed(u)

\* a lease that ran out, or a store that cannot be reached: the core ends the
\* session
StoreFails(u) == Moves(u, {"open", "active"}, "closing")

\* the heartbeat looks at the installation and forgets its credential
FaultyHeartbeat(u) ==
  Moves(u, {"active"}, "closing") /\ store[upgrade[u].i].revoked

\* a heartbeat that the store refuses ends the session; one that it grants
\* changes nothing here
Heartbeat(u) == Moves(u, {"active"}, "closing") /\ ~Backed(u)

SocketCloses(u) == Moves(u, {"open", "active", "closing"}, "closed")

(***************************************************************************)
(* Promotion and revocation                                                *)
(***************************************************************************)
\* the store's part of a call, with its result on the way to the process
Commits(c, kind, i) ==
  /\ call[c].pc = "idle"
  /\ call' = [call EXCEPT ![c] = [pc |-> "committed", kind |-> kind, i |-> i,
                                  version |-> store'[i].version, waits |-> {}]]

PromoteIn(i) ==
  /\ ~store[i].revoked /\ store[i].version < MaxVersion
  /\ store' = [store EXCEPT ![i].version = @ + 1]
RevokeIn(i) ==
  /\ ~store[i].revoked
  /\ store' = [store EXCEPT ![i].revoked = TRUE]

PromoteCredential(c, i) ==
  PromoteIn(i) /\ Commits(c, "promote", i) /\ UNCHANGED <<stopping, caches, upgrade, told>>
RevokeInstallation(c, i) ==
  RevokeIn(i) /\ Commits(c, "revoke", i) /\ UNCHANGED <<stopping, caches, upgrade, told>>

\* the operator's tool or another process; or an answer that was lost
Elsewhere(i) ==
  (PromoteIn(i) \/ RevokeIn(i)) /\ UNCHANGED <<stopping, caches, upgrade, call, told>>

\* the connections a result is about
Concerns(c, u) ==
  /\ upgrade[u].i = call[c].i
  /\ call[c].kind = "promote" => upgrade[u].version < call[c].version
Affected(c) ==
  {u \in Upgrades : upgrade[u].pc \in {"open", "active", "closing"} /\ Concerns(c, u)}

\* the result reaches the process: applyPromotionResult, applyRevocationResult
Apply(c) ==
  /\ call[c].pc = "committed"
  /\ \/ /\ call[c].kind = "promote"
        /\ LearnMinimum(call[c].i, call[c].version)
        /\ told' = [told EXCEPT ![call[c].i].version =
                      IF call[c].version > @ THEN call[c].version ELSE @]
        /\ UNCHANGED revoked
     \/ /\ call[c].kind = "revoke"
        /\ LearnRevoked(call[c].i)
        /\ told' = [told EXCEPT ![call[c].i].revoked = TRUE]
        /\ UNCHANGED minimum
  /\ upgrade' = [u \in Upgrades |->
                   IF u \in Affected(c) THEN At(upgrade[u], "closing")
                   ELSE upgrade[u]]
  /\ call' = [call EXCEPT ![c].pc = "waiting", ![c].waits = Affected(c)]
  /\ UNCHANGED <<store, stopping>>

\* the sockets it waits for are closed, or are terminated after
\* SOCKET_CLOSE_WAIT_MS; then it answers
Reply(c) ==
  /\ call[c].pc = "waiting"
  /\ call' = [call EXCEPT ![c].pc = "replied", ![c].waits = {}]
  /\ upgrade' = [u \in Upgrades |->
                   IF u \in call[c].waits THEN At(upgrade[u], "closed")
                   ELSE upgrade[u]]
  /\ UNCHANGED <<store, stopping, caches, told>>

(***************************************************************************)
(* The process                                                             *)
(***************************************************************************)
\* stop: no upgrade is let in any more, every connection is closed
Stop ==
  /\ ~stopping
  /\ stopping' = TRUE
  /\ upgrade' = [u \in Upgrades |->
                   CASE upgrade[u].pc = "prepared" -> At(upgrade[u], "refused")
                     [] upgrade[u].pc \in {"open", "active"} -> At(upgrade[u], "closing")
                     [] OTHER -> upgrade[u]]
  /\ UNCHANGED <<store, caches, call, told>>

\* the process ends, in good order or not, and another starts in its place
Restart ==
  /\ stopping' = FALSE
  /\ revoked' = NothingRevoked /\ minimum' = NoMinimum /\ told' = NoNews
  /\ upgrade' = [u \in Upgrades |->
                   IF upgrade[u].pc = "idle" THEN upgrade[u]
                   ELSE At(upgrade[u], "closed")]
  /\ call' = [c \in Calls |->
                IF call[c].pc \in {"idle", "replied"} THEN call[c]
                ELSE [NoCall EXCEPT !.pc = "lost"]]
  /\ UNCHANGED store

UpgradeStep(u) ==
  \/ \E i \in Installations : Prepare(u, i)
  \/ Open(u) \/ Refuse(u)
  \/ Activate(u) \/ StoreFails(u) \/ Heartbeat(u) \/ SocketCloses(u)

CallStep(c) ==
  \/ \E i \in Installations : PromoteCredential(c, i) \/ RevokeInstallation(c, i)
  \/ Apply(c) \/ Reply(c)

Next ==
  \/ \E u \in Upgrades : UpgradeStep(u)
  \/ \E c \in Calls : CallStep(c)
  \/ \E i \in Installations : Elsewhere(i)
  \/ Stop \/ Restart

Spec == Init /\ [][Next]_vars

\* heartbeats come every HEARTBEAT_INTERVAL_MS, and a socket that is being
\* closed closes
FairSpec ==
  /\ Spec
  /\ \A u \in Upgrades : WF_vars(Heartbeat(u)) /\ WF_vars(upgrade[u].pc = "closing" /\ SocketCloses(u))

(***************************************************************************)
(* Properties                                                              *)
(***************************************************************************)
Live == {"open", "active", "closing"}
UpgradePhases ==
  {"idle", "prepared", "open", "active", "closing", "closed", "refused"}
CallPhases == {"idle", "committed", "waiting", "replied", "lost"}

\* The rows have their shape, and the caches keep to their capacity.
TypeOK ==
  /\ store \in [Installations -> [version : Versions, revoked : BOOLEAN]]
  /\ stopping \in BOOLEAN
  /\ revoked \in [known : SUBSET Installations, evicted : BOOLEAN]
  /\ minimum \in [version : [Installations -> Versions], evicted : BOOLEAN]
  /\ upgrade \in [Upgrades -> [pc : UpgradePhases, i : Installations \cup {None},
                               version : Versions]]
  /\ call \in [Calls -> [pc : CallPhases, kind : {None, "promote", "revoke"},
                         i : Installations \cup {None}, version : Versions,
                         waits : SUBSET Upgrades]]
  /\ told \in [Installations -> [version : Versions, revoked : BOOLEAN]]
  /\ Cardinality(revoked.known) =< Capacity
  /\ Cardinality(Known) =< Capacity

\* Once a promotion or revocation was answered, no connection it concerns is
\* left and none will be: not one that was being closed, and not one whose
\* lease was on its way, however many entries the caches had to forget
\* meanwhile.  (docs/adr/0003: revocation "synchronously terminates every known
\* socket/provider task before returning".)  Before the answer, none is served.
AnsweredMeansGone ==
  /\ \A c \in Calls, u \in Upgrades :
       call[c].pc = "replied" /\ Concerns(c, u)
         => upgrade[u].pc \notin Live
  /\ \A u \in Upgrades :
       upgrade[u].pc \in {"open", "active"} =>
         ~told[upgrade[u].i].revoked /\ upgrade[u].version >= told[upgrade[u].i].version

\* An upgrade is refused for a reason: the installation was promoted or revoked
\* since the store gave the lease, a cache had to forget something, or the host
\* is stopping.
RefusedForCause ==
  [][\A u \in Upgrades :
       upgrade[u].pc = "prepared" /\ upgrade'[u].pc = "refused"
         => ~Backed(u) \/ revoked.evicted \/ minimum.evicted \/ stopping']_vars

\* A promotion or revocation that this process never hears of ends the sessions
\* it concerns all the same.
TakesHold ==
  \A u \in Upgrades :
    (upgrade[u].pc = "active" /\ ~Backed(u)) ~> upgrade[u].pc = "closed"
=============================================================================
