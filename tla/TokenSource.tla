------------------------------ MODULE TokenSource ------------------------------
(* AzureManagedIdentityTokenSource (packages/azure-auth): callers share one   *)
(* cached token and one request in flight; each may withdraw by its own       *)
(* signal, the last to do so takes the request with it, and close() takes     *)
(* all.  A token is its expiry; refused options and foreign objects passed as *)
(* signals are left out.  The steps of a request are those between awaits.    *)
EXTENDS Integers, FiniteSets

CONSTANTS None,        \* "undefined"
          Callers,     \* calls of tokenProvider and of checkReadiness
          Probes,      \* those of them that are calls of checkReadiness
          Window,      \* TOKEN_REFRESH_WINDOW_MS
          Lifetimes,   \* how much longer a token the credential hands out lives
          MaxTime,     \* bound: the clock
          MaxRefreshes \* bound: requests started

ASSUME TokenAssumption == MaxRefreshes \in Nat /\ Lifetimes \subseteq Int

VARIABLES clock,     \* #now
          source,    \* #closed, #cachedToken, #refresh
          refreshes, \* RefreshState and how far its promise has come
          callers    \* what each call waits for and was answered

vars == <<clock, source, refreshes, callers>>

Refreshes == 1..MaxRefreshes

\* none, queued, asked, answered, ended (resolved or rejected), settled (finally)
Unstarted == [stage |-> "none", aborted |-> FALSE, got |-> None, token |-> None]
Idle == [state |-> "idle", on |-> 0, answer |-> None, token |-> None]

Waiters(r) == {c \in Callers : callers[c].state = "waiting" /\ callers[c].on = r}

Init ==
  /\ clock = 0
  /\ source = [closed |-> FALSE, cached |-> None, refresh |-> 0]
  /\ refreshes = [r \in Refreshes |-> Unstarted]
  /\ callers = [c \in Callers |-> Idle]

\* What a caller is told; checkReadiness only says whether it went well.
Told(c, answer) ==
  IF c \in Probes /\ answer \in {"aborted", "unavailable"} THEN "not-ready" ELSE answer

Answered(caller, c, answer, token) ==
  [caller EXCEPT !.state = "answered", !.answer = Told(c, answer), !.token = token]

Refuse(c, answer) == callers' = [callers EXCEPT ![c] = Answered(@, c, answer, None)]

Fresh(token) == token # None /\ clock < token - Window

\* #getToken
Closed(c) ==
  /\ callers[c].state = "idle" /\ source.closed
  /\ Refuse(c, "closed")
  /\ UNCHANGED <<clock, source, refreshes>>

\* The signal had fired already, or the clock cannot be read.
Refused(c) ==
  /\ callers[c].state = "idle" /\ ~source.closed
  /\ Refuse(c, "aborted") \/ Refuse(c, "unavailable")
  /\ UNCHANGED <<clock, source, refreshes>>

FromCache(c) ==
  /\ callers[c].state = "idle" /\ ~source.closed /\ Fresh(source.cached)
  /\ callers' = [callers EXCEPT ![c] = Answered(@, c, "token", source.cached)]
  /\ UNCHANGED <<clock, source, refreshes>>

Wait(c, r) == callers' = [callers EXCEPT ![c].state = "waiting", ![c].on = r]

Join(c) ==
  /\ callers[c].state = "idle" /\ ~source.closed /\ ~Fresh(source.cached)
  /\ source.refresh # 0
  /\ Wait(c, source.refresh)
  /\ UNCHANGED <<clock, source, refreshes>>

StartRefresh(c, r) ==
  /\ callers[c].state = "idle" /\ ~source.closed /\ ~Fresh(source.cached)
  /\ source.refresh = 0
  /\ refreshes[r].stage = "none"
  /\ \A q \in Refreshes : q < r => refreshes[q].stage # "none"
  /\ refreshes' = [refreshes EXCEPT ![r].stage = "queued"]
  /\ source' = [source EXCEPT !.refresh = r]
  /\ Wait(c, r)
  /\ UNCHANGED clock

---------------------------------------------------------------------------
(* #startRefresh: the promise of request r *)

GivenUp(r) == source.closed \/ refreshes[r].aborted

Ask(r) ==
  /\ refreshes[r].stage = "queued"
  /\ refreshes' = [refreshes EXCEPT
       ![r].stage = IF GivenUp(r) THEN "ended" ELSE "asked",
       ![r].got = IF GivenUp(r) THEN "given-up" ELSE @]
  /\ UNCHANGED <<clock, source, callers>>

\* The managed identity's answer; external.
CredentialAnswers(r) ==
  /\ refreshes[r].stage = "asked"
  /\ \/ refreshes' = [refreshes EXCEPT ![r].stage = "answered", ![r].got = "failed"]
     \/ \E life \in Lifetimes :
          refreshes' = [refreshes EXCEPT ![r].stage = "answered", ![r].got = "token",
                                         ![r].token = clock + life]
  /\ UNCHANGED <<clock, source, callers>>

\* #validateToken: more than the window must be left.
Valid(r) == refreshes[r].got = "token" /\ refreshes[r].token - clock > Window

EndsAs(r, got, token) ==
  refreshes' = [refreshes EXCEPT ![r].stage = "ended", ![r].got = got, ![r].token = token]

GoesOn(r) ==
  /\ refreshes[r].stage = "answered"
  /\ IF GivenUp(r)
     THEN EndsAs(r, "given-up", None) /\ UNCHANGED source
     ELSE IF Valid(r)
     THEN /\ EndsAs(r, "token", refreshes[r].token)
          /\ source' = [source EXCEPT !.cached = refreshes[r].token]
     ELSE EndsAs(r, "failed", None) /\ UNCHANGED source
  /\ UNCHANGED <<clock, callers>>

Forgets(r) == source.refresh = r

\* finally: a settled request is no longer the one to join.
Settle(r) ==
  /\ refreshes[r].stage = "ended"
  /\ refreshes' = [refreshes EXCEPT ![r].stage = "settled"]
  /\ source' = [source EXCEPT !.refresh = IF Forgets(r) THEN 0 ELSE @]
  /\ UNCHANGED <<clock, callers>>

---------------------------------------------------------------------------
(* #waitForRefresh: a caller is answered once, by the first of three *)

\* whoever leaves an unsettled request aborts it
FaultyDrops(c, r) == refreshes[r].stage # "settled"

\* The last waiter of an unsettled request aborts it.
Drops(c, r) == Waiters(r) = {c} /\ refreshes[r].stage # "settled"

CallerAborts(c) ==
  /\ callers[c].state = "waiting"
  /\ Refuse(c, "aborted")
  /\ LET r == callers[c].on IN
     IF Drops(c, r)
     THEN /\ refreshes' = [refreshes EXCEPT ![r].aborted = TRUE]
          /\ source' = [source EXCEPT !.refresh = IF Forgets(r) THEN 0 ELSE @]
     ELSE UNCHANGED <<refreshes, source>>
  /\ UNCHANGED clock

Deliver(c) ==
  /\ callers[c].state = "waiting" /\ refreshes[callers[c].on].stage = "settled"
  /\ LET r == refreshes[callers[c].on] IN
     callers' = [callers EXCEPT ![c] =
       Answered(@, c, IF r.got = "token" THEN "token" ELSE "unavailable",
                IF r.got = "token" THEN r.token ELSE None)]
  /\ UNCHANGED <<clock, source, refreshes>>

\* close(): every waiting caller is answered by the close signal.
Close ==
  /\ ~source.closed
  /\ source' = [source EXCEPT !.closed = TRUE, !.cached = None, !.refresh = 0]
  /\ callers' = [c \in Callers |->
       IF callers[c].state = "waiting" THEN Answered(callers[c], c, "closed", None)
       ELSE callers[c]]
  /\ refreshes' = [r \in Refreshes |->
       IF (Waiters(r) # {} /\ refreshes[r].stage # "settled") \/ r = source.refresh
       THEN [refreshes[r] EXCEPT !.aborted = TRUE] ELSE refreshes[r]]
  /\ UNCHANGED clock

Tick ==
  /\ clock < MaxTime /\ clock' = clock + 1
  /\ UNCHANGED <<source, refreshes, callers>>

Call(c) ==
  \/ Closed(c) \/ Refused(c) \/ FromCache(c) \/ Join(c)
  \/ \E r \in Refreshes : StartRefresh(c, r)

Next ==
  \/ \E c \in Callers : Call(c) \/ CallerAborts(c) \/ Deliver(c)
  \/ \E r \in Refreshes : Ask(r) \/ CredentialAnswers(r) \/ GoesOn(r) \/ Settle(r)
  \/ Close \/ Tick

Spec == Init /\ [][Next]_vars

---------------------------------------------------------------------------
(* Properties *)

Running == {"queued", "asked", "answered", "ended"}

\* At most one request runs that was not given up, it is the one a new caller
\* joins, somebody waits for it, and nothing is kept or joined after close().
LiveRefreshIsShared ==
  /\ \A r \in Refreshes : refreshes[r].stage \in Running /\ ~refreshes[r].aborted =>
       r = source.refresh
  /\ source.refresh # 0 =>
       /\ refreshes[source.refresh].stage \in Running
       /\ ~refreshes[source.refresh].aborted
       /\ Waiters(source.refresh) # {}
  /\ source.closed => source.cached = None /\ source.refresh = 0

\* A caller that waited is told the token is unavailable only because the
\* credential failed, never because another caller withdrew from the request;
\* and a token it is given is the one its request was answered with.
FailsAlone ==
  \A c \in Callers : callers[c].state = "answered" /\ callers[c].on # 0 =>
    LET r == refreshes[callers[c].on] IN
    /\ callers[c].answer = "unavailable" => r.got = "failed"
    /\ callers[c].answer = "token" => r.got = "token" /\ callers[c].token = r.token

\* Callers share one request, and none loses it by another's doing.
RefreshIsShared == LiveRefreshIsShared /\ FailsAlone
=============================================================================
