--------------------------- MODULE ServicesProofs ---------------------------
(***************************************************************************)
(* The services a relay leans on, for any number of callers, calls, tables,*)
(* rows and utterances:                                                    *)
(*   the token source: callers who share a refresh get its one answer;     *)
(*   the generation service: callers who share a run get its one outcome,  *)
(*     and the work goes on while somebody waits for it;                   *)
(*   the cleanup job: a pass reported exhausted has looked at every row    *)
(*     that was there all along, for pages and limits of any size;         *)
(*   the transcription session: an utterance that is over stays over,      *)
(*     whatever the provider says and whenever an answer comes back.       *)
(***************************************************************************)
EXTENDS TokenSource, GenerationService, ExpiryCleanup, Transcription, FiniteSetTheorems, TLAPS

---------------------------------------------------------------------------
(* The token source *)

Tokens == Int \cup {None}
Stages == {"none", "queued", "asked", "answered", "ended", "settled"}

RequestRecords ==
  [stage : Stages, aborted : BOOLEAN, got : {"failed", "given-up", "token", None},
   token : Tokens]
CallAnswers == {"closed", "aborted", "unavailable", "not-ready", "token", None}
Waitings ==
  [state : {"idle", "waiting", "answered"}, on : Refreshes \cup {0},
   answer : CallAnswers, token : Tokens]

SourceTypeOK ==
  /\ clock \in Int
  /\ source \in [closed : BOOLEAN, cached : Tokens, refresh : Refreshes \cup {0}]
  /\ refreshes \in [Refreshes -> RequestRecords]
  /\ callers \in [Callers -> Waitings]

\* a caller that waits does so on a request that nobody gave up
WaitsInGoodFaith ==
  \A c \in Callers :
    /\ callers[c].state = "idle" => callers[c].on = 0
    /\ callers[c].state = "waiting" =>
         /\ ~source.closed
         /\ callers[c].on \in Refreshes
         /\ refreshes[callers[c].on].stage # "none"
         /\ ~refreshes[callers[c].on].aborted

\* how far a request has come says how it went
ToldByStage ==
  \A r \in Refreshes :
    LET q == refreshes[r] IN
    /\ q.stage = "none" => ~q.aborted
    /\ q.stage = "answered" => q.got \in {"failed", "token"}
    /\ q.stage \in {"ended", "settled"} =>
         /\ q.got \in {"failed", "given-up", "token"}
         /\ q.got = "given-up" => q.aborted \/ source.closed

\* an answer that a caller waited for is the one of its settled request
AnsweredOnce ==
  \A c \in Callers :
    /\ callers[c].state = "answered" /\ callers[c].on # 0
    /\ callers[c].answer \in {"unavailable", "token"}
    => LET r == refreshes[callers[c].on] IN
       /\ r.stage = "settled"
       /\ callers[c].answer = "unavailable" => r.got = "failed"
       /\ callers[c].answer = "token" => r.got = "token" /\ callers[c].token = r.token

SourceInv ==
  SourceTypeOK /\ LiveRefreshIsShared /\ WaitsInGoodFaith /\ ToldByStage /\ AnsweredOnce

LEMMA RequestsAreNotZero == 0 \notin Refreshes
  BY DEF Refreshes

LEMMA SourceInitial == Init => SourceInv
  <1> SUFFICES ASSUME Init PROVE SourceInv
    OBVIOUS
  <1>1. SourceTypeOK
    BY DEF Init, SourceTypeOK, Unstarted, Idle, RequestRecords, Waitings, CallAnswers, Tokens, Stages
  <1>2. LiveRefreshIsShared
    BY DEF Init, LiveRefreshIsShared, Unstarted, Running
  <1>3. WaitsInGoodFaith /\ ToldByStage /\ AnsweredOnce
    BY DEF Init, WaitsInGoodFaith, ToldByStage, AnsweredOnce, Unstarted, Idle
  <1> QED
    BY <1>1, <1>2, <1>3 DEF SourceInv

LEMMA AnsweredType ==
  ASSUME NEW caller \in Waitings, NEW c \in Callers,
         NEW answer \in {"closed", "aborted", "unavailable", "token"},
         NEW token \in Tokens
  PROVE  Answered(caller, c, answer, token) \in Waitings
  <1>1. Told(c, answer) \in CallAnswers
    BY DEF Told, CallAnswers
  <1> QED
    BY <1>1 DEF Answered, Waitings

LEMMA WaitType ==
  ASSUME SourceTypeOK, NEW c \in Callers, NEW r \in Refreshes, Wait(c, r)
  PROVE  callers' \in [Callers -> Waitings]
  <1>1. [callers[c] EXCEPT !.state = "waiting", !.on = r] \in Waitings
    BY DEF SourceTypeOK, Waitings
  <1>2. callers' = [callers EXCEPT ![c] = [callers[c] EXCEPT !.state = "waiting", !.on = r]]
    BY DEF Wait, SourceTypeOK
  <1> QED
    BY <1>1, <1>2 DEF SourceTypeOK

\* A caller is told something without having waited: nothing else moves.
LEMMA RefusalStep ==
  ASSUME SourceInv, NEW c \in Callers, callers[c].state = "idle",
         NEW answer \in {"closed", "aborted", "unavailable", "token"},
         NEW token \in Tokens,
         callers' = [callers EXCEPT ![c] = Answered(@, c, answer, token)],
         UNCHANGED <<clock, source, refreshes>>
  PROVE  SourceInv'
  <1>1. SourceTypeOK'
    <2>1. Answered(callers[c], c, answer, token) \in Waitings
      BY AnsweredType DEF SourceInv, SourceTypeOK
    <2> QED
      BY <2>1 DEF SourceInv, SourceTypeOK
  <1>2. /\ callers'[c].state = "answered" /\ callers'[c].on = 0
        /\ \A d \in Callers \ {c} : callers'[d] = callers[d]
    BY DEF SourceInv, SourceTypeOK, Answered, WaitsInGoodFaith
  <1>3. \A r \in Refreshes : Waiters(r)' = Waiters(r)
    BY <1>2 DEF Waiters
  <1>4. LiveRefreshIsShared'
    BY <1>3 DEF SourceInv, SourceTypeOK, LiveRefreshIsShared
  <1>5. WaitsInGoodFaith' /\ ToldByStage' /\ AnsweredOnce'
    BY <1>2 DEF SourceInv, WaitsInGoodFaith, ToldByStage, AnsweredOnce
  <1> QED
    BY <1>1, <1>4, <1>5 DEF SourceInv

LEMMA CallStep ==
  ASSUME SourceInv, NEW c \in Callers, Call(c)
  PROVE  SourceInv'
  <1>1. CASE Closed(c)
    BY <1>1, RefusalStep DEF Closed, Refuse, Tokens
  <1>2. CASE Refused(c)
    BY <1>2, RefusalStep DEF Refused, Refuse, Tokens
  <1>3. CASE FromCache(c)
    BY <1>3, RefusalStep DEF FromCache, SourceInv, SourceTypeOK
  <1>4. CASE Join(c)
    <2>1. /\ source.refresh \in Refreshes /\ ~source.closed
          /\ callers[c].state = "idle"
          /\ UNCHANGED <<clock, source, refreshes>>
      BY <1>4 DEF Join, SourceInv, SourceTypeOK
    <2>2. /\ callers'[c].state = "waiting" /\ callers'[c].on = source.refresh
          /\ \A d \in Callers \ {c} : callers'[d] = callers[d]
      BY <1>4 DEF Join, Wait, SourceInv, SourceTypeOK
    <2>3. SourceTypeOK'
      BY <1>4, <2>1, WaitType DEF Join, SourceInv, SourceTypeOK
    <2>4. Waiters(source.refresh) \subseteq Waiters(source.refresh)'
      BY <2>1, <2>2 DEF Waiters
    <2>5. LiveRefreshIsShared'
      BY <2>1, <2>4, RequestsAreNotZero DEF SourceInv, LiveRefreshIsShared
    <2>6. WaitsInGoodFaith'
      BY <2>1, <2>2, RequestsAreNotZero
        DEF SourceInv, WaitsInGoodFaith, LiveRefreshIsShared, Running
    <2>7. ToldByStage' /\ AnsweredOnce'
      BY <2>1, <2>2 DEF SourceInv, ToldByStage, AnsweredOnce
    <2> QED
      BY <2>3, <2>5, <2>6, <2>7 DEF SourceInv
  <1>5. ASSUME NEW r \in Refreshes, StartRefresh(c, r) PROVE SourceInv'
    <2>1. /\ ~source.closed /\ source.refresh = 0
          /\ callers[c].state = "idle"
          /\ refreshes[r].stage = "none" /\ ~refreshes[r].aborted
          /\ clock' = clock
      BY <1>5 DEF StartRefresh, SourceInv, ToldByStage
    <2>2. /\ callers'[c].state = "waiting" /\ callers'[c].on = r
          /\ \A d \in Callers \ {c} : callers'[d] = callers[d]
      BY <1>5 DEF StartRefresh, Wait, SourceInv, SourceTypeOK
    <2>3. /\ source'.refresh = r /\ source'.closed = source.closed
          /\ source'.cached = source.cached
      BY <1>5 DEF StartRefresh, SourceInv, SourceTypeOK
    <2>4. /\ refreshes'[r].stage = "queued" /\ ~refreshes'[r].aborted
          /\ \A q \in Refreshes \ {r} : refreshes'[q] = refreshes[q]
      BY <1>5, <2>1 DEF StartRefresh, SourceInv, SourceTypeOK
    <2>5. SourceTypeOK'
      <3>1. [refreshes[r] EXCEPT !.stage = "queued"] \in RequestRecords
        BY DEF SourceInv, SourceTypeOK, RequestRecords, Stages
      <3> QED
        BY <1>5, <2>1, <3>1, WaitType DEF StartRefresh, SourceInv, SourceTypeOK
    <2>6. c \in Waiters(r)'
      BY <2>2 DEF Waiters
    <2>7. LiveRefreshIsShared'
      BY <2>1, <2>3, <2>4, <2>6, RequestsAreNotZero
        DEF SourceInv, LiveRefreshIsShared, Running
    <2>8. WaitsInGoodFaith'
      BY <2>1, <2>2, <2>3, <2>4 DEF SourceInv, WaitsInGoodFaith
    <2>9. ToldByStage'
      BY <2>3, <2>4 DEF SourceInv, ToldByStage
    <2>10. AnsweredOnce'
      BY <2>1, <2>2, <2>4 DEF SourceInv, AnsweredOnce, SourceTypeOK, Waitings
    <2> QED
      BY <2>5, <2>7, <2>8, <2>9, <2>10 DEF SourceInv
  <1> QED
    BY <1>1, <1>2, <1>3, <1>4, <1>5 DEF Call

\* A request under way goes on, and what it is given agrees with its stage.
LEMMA ProgressStep ==
  ASSUME SourceInv, NEW r \in Refreshes, refreshes[r].stage \in Running,
         NEW q \in RequestRecords, refreshes' = [refreshes EXCEPT ![r] = q],
         q.stage \in Running, q.aborted = refreshes[r].aborted,
         q.stage = "answered" => q.got \in {"failed", "token"},
         q.stage = "ended" => /\ q.got \in {"failed", "given-up", "token"}
                              /\ q.got = "given-up" => q.aborted \/ source.closed,
         source'.closed = source.closed, source'.refresh = source.refresh,
         source' \in [closed : BOOLEAN, cached : Tokens, refresh : Refreshes \cup {0}],
         source'.cached = source.cached \/ ~source.closed,
         UNCHANGED <<clock, callers>>
  PROVE  SourceInv'
  <1>1. /\ refreshes'[r] = q
        /\ \A p \in Refreshes \ {r} : refreshes'[p] = refreshes[p]
    BY DEF SourceInv, SourceTypeOK
  <1>2. SourceTypeOK'
    BY DEF SourceInv, SourceTypeOK
  <1>3. \A p \in Refreshes : Waiters(p)' = Waiters(p)
    BY DEF Waiters
  <1>4. LiveRefreshIsShared'
    <2>1. \A p \in Refreshes :
            refreshes'[p].stage \in Running /\ ~refreshes'[p].aborted => p = source'.refresh
      BY <1>1 DEF SourceInv, LiveRefreshIsShared
    <2>2. (source.refresh # 0 =>
             /\ refreshes[source.refresh].stage \in Running
             /\ ~refreshes[source.refresh].aborted
             /\ Waiters(source.refresh) # {})'
      BY <1>1, <1>3 DEF SourceInv, LiveRefreshIsShared, SourceTypeOK
    <2>3. source'.closed => source'.cached = None /\ source'.refresh = 0
      BY DEF SourceInv, LiveRefreshIsShared
    <2> QED
      BY <2>1, <2>2, <2>3 DEF LiveRefreshIsShared, Running
  <1>5. WaitsInGoodFaith'
    BY <1>1 DEF SourceInv, WaitsInGoodFaith, Running
  <1>6. ToldByStage'
    BY <1>1 DEF SourceInv, ToldByStage, Running
  <1>7. AnsweredOnce'
    BY <1>1 DEF SourceInv, AnsweredOnce, Running, SourceTypeOK, Waitings
  <1> QED
    BY <1>2, <1>4, <1>5, <1>6, <1>7 DEF SourceInv

LEMMA AskStep ==
  ASSUME SourceInv, NEW r \in Refreshes, Ask(r)
  PROVE  SourceInv'
  <1> DEFINE q == [refreshes[r] EXCEPT !.stage = IF GivenUp(r) THEN "ended" ELSE "asked",
                                       !.got = IF GivenUp(r) THEN "given-up" ELSE @]
  <1>1. refreshes[r] \in RequestRecords
    BY DEF SourceInv, SourceTypeOK
  <1>2. /\ q \in RequestRecords /\ q.stage \in Running /\ q.stage # "answered"
        /\ q.aborted = refreshes[r].aborted
        /\ q.stage = "ended" => q.got = "given-up" /\ GivenUp(r)
    BY <1>1 DEF RequestRecords, Stages, Running
  <1>3. refreshes' = [refreshes EXCEPT ![r] = q]
    BY DEF Ask, SourceInv, SourceTypeOK
  <1>4. /\ refreshes[r].stage \in Running
        /\ UNCHANGED <<clock, source, callers>>
    BY DEF Ask, Running
  <1>5. source \in [closed : BOOLEAN, cached : Tokens, refresh : Refreshes \cup {0}]
    BY DEF SourceInv, SourceTypeOK
  <1> HIDE DEF q
  <1> QED
    BY <1>2, <1>3, <1>4, <1>5, ProgressStep DEF GivenUp

LEMMA CredentialAnswersStep ==
  ASSUME SourceInv, NEW r \in Refreshes, CredentialAnswers(r)
  PROVE  SourceInv'
  <1>1. /\ refreshes[r] \in RequestRecords
        /\ source \in [closed : BOOLEAN, cached : Tokens, refresh : Refreshes \cup {0}]
    BY DEF SourceInv, SourceTypeOK
  <1>2. /\ refreshes[r].stage \in Running
        /\ UNCHANGED <<clock, source, callers>>
    BY DEF CredentialAnswers, Running
  <1>3. PICK q : /\ q \in RequestRecords /\ q.stage = "answered"
                 /\ q.aborted = refreshes[r].aborted /\ q.got \in {"failed", "token"}
                 /\ refreshes' = [refreshes EXCEPT ![r] = q]
    <2>1. CASE refreshes' = [refreshes EXCEPT ![r].stage = "answered", ![r].got = "failed"]
      <3> DEFINE q == [refreshes[r] EXCEPT !.stage = "answered", !.got = "failed"]
      <3>1. /\ q \in RequestRecords /\ q.stage = "answered" /\ q.got = "failed"
            /\ q.aborted = refreshes[r].aborted
        BY <1>1 DEF RequestRecords, Stages
      <3>2. refreshes' = [refreshes EXCEPT ![r] = q]
        BY <2>1 DEF SourceInv, SourceTypeOK
      <3> QED
        BY <3>1, <3>2
    <2>2. ASSUME NEW life \in Lifetimes,
                 refreshes' = [refreshes EXCEPT ![r].stage = "answered",
                                 ![r].got = "token", ![r].token = clock + life]
          PROVE  \E q : /\ q \in RequestRecords /\ q.stage = "answered"
                        /\ q.aborted = refreshes[r].aborted /\ q.got \in {"failed", "token"}
                        /\ refreshes' = [refreshes EXCEPT ![r] = q]
      <3> DEFINE q == [refreshes[r] EXCEPT !.stage = "answered", !.got = "token",
                                           !.token = clock + life]
      <3>1. clock + life \in Int
        BY TokenAssumption DEF SourceInv, SourceTypeOK
      <3>2. /\ q \in RequestRecords /\ q.stage = "answered" /\ q.got = "token"
            /\ q.aborted = refreshes[r].aborted
        BY <1>1, <3>1 DEF RequestRecords, Stages, Tokens
      <3>3. refreshes' = [refreshes EXCEPT ![r] = q]
        BY <2>2 DEF SourceInv, SourceTypeOK
      <3> QED
        BY <3>2, <3>3
    <2> QED
      BY <2>1, <2>2 DEF CredentialAnswers
  <1>4. q.stage \in Running /\ q.stage # "ended"
    BY <1>3 DEF Running
  <1> QED
    BY <1>1, <1>2, <1>3, <1>4, ProgressStep

LEMMA GoesOnStep ==
  ASSUME SourceInv, NEW r \in Refreshes, GoesOn(r)
  PROVE  SourceInv'
  <1>1. /\ refreshes[r] \in RequestRecords
        /\ source \in [closed : BOOLEAN, cached : Tokens, refresh : Refreshes \cup {0}]
        /\ refreshes[r].stage = "answered" /\ refreshes[r].stage \in Running
        /\ UNCHANGED <<clock, callers>>
    BY DEF SourceInv, SourceTypeOK, GoesOn, Running
  <1>2. ASSUME NEW got \in {"failed", "given-up", "token"}, NEW token \in Tokens,
               got = "given-up" => GivenUp(r), EndsAs(r, got, token),
               source'.closed = source.closed, source'.refresh = source.refresh,
               source' \in [closed : BOOLEAN, cached : Tokens, refresh : Refreshes \cup {0}],
               source'.cached = source.cached \/ ~source.closed
        PROVE  SourceInv'
    <2> DEFINE q == [refreshes[r] EXCEPT !.stage = "ended", !.got = got, !.token = token]
    <2>1. /\ q \in RequestRecords /\ q.stage = "ended" /\ q.stage \in Running /\ q.got = got
          /\ q.aborted = refreshes[r].aborted
      BY <1>1 DEF RequestRecords, Stages, Running
    <2>2. refreshes' = [refreshes EXCEPT ![r] = q]
      BY <1>2 DEF EndsAs, SourceInv, SourceTypeOK
    <2>3. q.got = "given-up" => q.aborted \/ source.closed
      BY <1>2, <2>1 DEF GivenUp
    <2> HIDE DEF q
    <2> QED
      BY <1>1, <1>2, <2>1, <2>2, <2>3, ProgressStep
  <1>3. CASE EndsAs(r, "given-up", None) /\ GivenUp(r) /\ UNCHANGED source
    BY <1>1, <1>2, <1>3 DEF Tokens
  <1>4. CASE EndsAs(r, "failed", None) /\ UNCHANGED source
    BY <1>1, <1>2, <1>4 DEF Tokens
  <1>5. CASE /\ EndsAs(r, "token", refreshes[r].token) /\ ~GivenUp(r)
             /\ source' = [source EXCEPT !.cached = refreshes[r].token]
    <2>1. refreshes[r].token \in Tokens
      BY <1>1 DEF RequestRecords
    <2> QED
      BY <1>1, <1>2, <1>5, <2>1 DEF GivenUp
  <1> QED
    BY <1>3, <1>4, <1>5 DEF GoesOn

\* A settled request has nobody to abort it, and is not the one to join.
LEMMA SettleStep ==
  ASSUME SourceInv, NEW r \in Refreshes, Settle(r)
  PROVE  SourceInv'
  <1>1. /\ refreshes[r].stage = "ended" /\ UNCHANGED <<clock, callers>>
        /\ refreshes'[r].stage = "settled" /\ refreshes'[r].aborted = refreshes[r].aborted
        /\ refreshes'[r].got = refreshes[r].got /\ refreshes'[r].token = refreshes[r].token
        /\ \A p \in Refreshes \ {r} : refreshes'[p] = refreshes[p]
        /\ source'.refresh = IF source.refresh = r THEN 0 ELSE source.refresh
        /\ source'.closed = source.closed /\ source'.cached = source.cached
    BY DEF Settle, Forgets, SourceInv, SourceTypeOK, RequestRecords
  <1>2. SourceTypeOK'
    <2>1. [refreshes[r] EXCEPT !.stage = "settled"] \in RequestRecords
      BY DEF SourceInv, SourceTypeOK, RequestRecords, Stages
    <2>2. source' \in [closed : BOOLEAN, cached : Tokens, refresh : Refreshes \cup {0}]
      BY DEF Settle, SourceInv, SourceTypeOK
    <2> QED
      BY <2>1, <2>2 DEF Settle, SourceInv, SourceTypeOK
  <1>3. \A p \in Refreshes : Waiters(p)' = Waiters(p)
    BY <1>1 DEF Waiters
  <1>4. LiveRefreshIsShared'
    <2>1. \A p \in Refreshes :
            refreshes'[p].stage \in Running /\ ~refreshes'[p].aborted => p = source'.refresh
      BY <1>1 DEF SourceInv, LiveRefreshIsShared, Running
    <2>2. (source.refresh # 0 =>
             /\ refreshes[source.refresh].stage \in Running
             /\ ~refreshes[source.refresh].aborted
             /\ Waiters(source.refresh) # {})'
      BY <1>1, <1>3 DEF SourceInv, LiveRefreshIsShared, SourceTypeOK
    <2>3. source'.closed => source'.cached = None /\ source'.refresh = 0
      BY <1>1 DEF SourceInv, LiveRefreshIsShared
    <2> QED
      BY <2>1, <2>2, <2>3 DEF LiveRefreshIsShared, Running
  <1>5. WaitsInGoodFaith'
    BY <1>1 DEF SourceInv, WaitsInGoodFaith
  <1>6. ToldByStage'
    BY <1>1 DEF SourceInv, ToldByStage
  <1>7. AnsweredOnce'
    BY <1>1 DEF SourceInv, AnsweredOnce, SourceTypeOK, Waitings
  <1> QED
    BY <1>2, <1>4, <1>5, <1>6, <1>7 DEF SourceInv

\* A caller that withdraws takes only a request that nobody else waits for.
LEMMA CallerAbortsStep ==
  ASSUME SourceInv, NEW c \in Callers, CallerAborts(c)
  PROVE  SourceInv'
  <1> DEFINE r == callers[c].on
  <1>1. /\ callers[c].state = "waiting" /\ ~source.closed
        /\ r \in Refreshes /\ refreshes[r].stage # "none" /\ ~refreshes[r].aborted
        /\ clock' = clock
    BY DEF CallerAborts, SourceInv, WaitsInGoodFaith
  <1>2. /\ callers' \in [Callers -> Waitings]
        /\ callers'[c].state = "answered" /\ callers'[c].on = r
        /\ callers'[c].answer \in {"aborted", "not-ready"}
        /\ \A d \in Callers \ {c} : callers'[d] = callers[d]
    <2>1. Answered(callers[c], c, "aborted", None) \in Waitings
      BY AnsweredType DEF SourceInv, SourceTypeOK, Tokens
    <2>2. callers' = [callers EXCEPT ![c] = Answered(callers[c], c, "aborted", None)]
      BY DEF CallerAborts, Refuse
    <2>3. callers[c] \in Waitings
      BY DEF SourceInv, SourceTypeOK
    <2> QED
      BY <2>1, <2>2, <2>3 DEF SourceInv, SourceTypeOK, Answered, Told, Waitings
  <1>3. \A p \in Refreshes : Waiters(p)' = Waiters(p) \ {c}
    BY <1>2 DEF Waiters
  <1>4. c \in Waiters(r) /\ \A p \in Refreshes \ {r} : c \notin Waiters(p)
    BY <1>1 DEF Waiters
  <1>5. CASE Drops(c, r)
    <2>1. /\ refreshes' = [refreshes EXCEPT ![r].aborted = TRUE]
          /\ source' = [source EXCEPT !.refresh = IF Forgets(r) THEN 0 ELSE @]
      BY <1>5 DEF CallerAborts
    <2>2. /\ Waiters(r) = {c} /\ refreshes[r].stage \in Running
          /\ source.refresh = r
      BY <1>1, <1>5 DEF Drops, SourceInv, LiveRefreshIsShared, SourceTypeOK, RequestRecords, Stages, Running
    <2>3. /\ refreshes'[r].stage = refreshes[r].stage /\ refreshes'[r].aborted
          /\ refreshes'[r].got = refreshes[r].got /\ refreshes'[r].token = refreshes[r].token
          /\ \A p \in Refreshes \ {r} : refreshes'[p] = refreshes[p]
          /\ refreshes' \in [Refreshes -> RequestRecords]
      <3>1. refreshes[r] \in RequestRecords
        BY <1>1 DEF SourceInv, SourceTypeOK
      <3>2. [refreshes[r] EXCEPT !.aborted = TRUE] \in RequestRecords
        BY <3>1 DEF RequestRecords
      <3> QED
        BY <1>1, <2>1, <3>1, <3>2 DEF SourceInv, SourceTypeOK, RequestRecords
    <2>4. /\ source'.refresh = 0 /\ source'.closed = source.closed
          /\ source'.cached = source.cached
          /\ source' \in [closed : BOOLEAN, cached : Tokens, refresh : Refreshes \cup {0}]
      BY <2>1, <2>2 DEF SourceInv, SourceTypeOK, Forgets
    <2>5. LiveRefreshIsShared'
      BY <1>1, <2>2, <2>3, <2>4 DEF SourceInv, LiveRefreshIsShared
    <2>6. \A d \in Callers \ {c} : callers[d].state = "waiting" => callers[d].on # r
      BY <2>2 DEF Waiters
    <2>7. WaitsInGoodFaith'
      BY <1>2, <2>3, <2>4, <2>6 DEF SourceInv, WaitsInGoodFaith
    <2>8. ToldByStage'
      BY <1>1, <2>3, <2>4 DEF SourceInv, ToldByStage
    <2>9. AnsweredOnce'
      BY <1>2, <2>3 DEF SourceInv, AnsweredOnce, SourceTypeOK, Waitings
    <2> QED
      BY <1>1, <1>2, <2>3, <2>4, <2>5, <2>7, <2>8, <2>9 DEF SourceInv, SourceTypeOK
  <1>6. CASE ~Drops(c, r)
    <2>1. UNCHANGED <<refreshes, source>>
      BY <1>6 DEF CallerAborts
    <2>2. source.refresh # 0 => Waiters(source.refresh) \ {c} # {}
      <3>1. CASE source.refresh = r
        BY <1>4, <1>6, <3>1 DEF Drops, SourceInv, LiveRefreshIsShared, Running
      <3>2. CASE source.refresh # r
        BY <1>4, <3>2 DEF SourceInv, LiveRefreshIsShared, SourceTypeOK
      <3> QED
        BY <3>1, <3>2
    <2>3. LiveRefreshIsShared'
      BY <1>3, <2>1, <2>2 DEF SourceInv, LiveRefreshIsShared, SourceTypeOK
    <2>4. WaitsInGoodFaith' /\ ToldByStage' /\ AnsweredOnce'
      BY <1>2, <2>1 DEF SourceInv, WaitsInGoodFaith, ToldByStage, AnsweredOnce
    <2> QED
      BY <1>1, <1>2, <2>1, <2>3, <2>4 DEF SourceInv, SourceTypeOK
  <1> QED
    BY <1>5, <1>6

LEMMA DeliverStep ==
  ASSUME SourceInv, NEW c \in Callers, Deliver(c)
  PROVE  SourceInv'
  <1> DEFINE r == callers[c].on
  <1> DEFINE answer == IF refreshes[r].got = "token" THEN "token" ELSE "unavailable"
  <1> DEFINE token == IF refreshes[r].got = "token" THEN refreshes[r].token ELSE None
  <1>1. /\ callers[c].state = "waiting" /\ ~source.closed
        /\ r \in Refreshes /\ refreshes[r].stage = "settled" /\ ~refreshes[r].aborted
        /\ UNCHANGED <<clock, source, refreshes>>
    BY DEF Deliver, SourceInv, WaitsInGoodFaith
  <1>2. refreshes[r].got \in {"failed", "token"}
    BY <1>1 DEF SourceInv, ToldByStage
  <1>3. token \in Tokens
    BY <1>1 DEF SourceInv, SourceTypeOK, RequestRecords, Tokens
  <1>4. /\ callers' \in [Callers -> Waitings]
        /\ callers'[c].state = "answered" /\ callers'[c].on = r
        /\ callers'[c].answer \in {answer, "not-ready"} /\ callers'[c].token = token
        /\ \A d \in Callers \ {c} : callers'[d] = callers[d]
    <2>1. callers' = [callers EXCEPT ![c] = Answered(callers[c], c, answer, token)]
      BY DEF Deliver
    <2>2. callers[c] \in Waitings
      BY DEF SourceInv, SourceTypeOK
    <2>3. Answered(callers[c], c, answer, token) \in Waitings
      BY <1>3, <2>2, AnsweredType
    <2> QED
      BY <2>1, <2>2, <2>3 DEF SourceInv, SourceTypeOK, Answered, Told, Waitings
  <1>5. \A p \in Refreshes : Waiters(p)' = Waiters(p) \ {c}
    BY <1>4 DEF Waiters
  <1>6. source.refresh # 0 => Waiters(source.refresh) \ {c} # {}
    BY <1>1 DEF SourceInv, LiveRefreshIsShared, Running, Waiters
  <1>7. LiveRefreshIsShared'
    BY <1>1, <1>5, <1>6 DEF SourceInv, LiveRefreshIsShared, SourceTypeOK
  <1>8. WaitsInGoodFaith' /\ ToldByStage'
    BY <1>1, <1>4 DEF SourceInv, WaitsInGoodFaith, ToldByStage
  <1>9. AnsweredOnce'
    BY <1>1, <1>2, <1>4 DEF SourceInv, AnsweredOnce
  <1> QED
    BY <1>1, <1>4, <1>7, <1>8, <1>9 DEF SourceInv, SourceTypeOK

\* close() leaves no caller waiting and no request that was not given up.
LEMMA CloseStep ==
  ASSUME SourceInv, Close
  PROVE  SourceInv'
  <1>1. /\ source'.closed /\ source'.cached = None /\ source'.refresh = 0
        /\ source' \in [closed : BOOLEAN, cached : Tokens, refresh : Refreshes \cup {0}]
        /\ clock' = clock
    BY DEF Close, SourceInv, SourceTypeOK, Tokens
  <1>2. \A c \in Callers :
          /\ callers'[c] \in Waitings
          /\ callers'[c].state # "waiting" /\ callers'[c].on = callers[c].on
          /\ callers[c].state # "waiting" => callers'[c] = callers[c]
          /\ callers[c].state = "waiting" =>
               callers'[c].state = "answered" /\ callers'[c].answer = "closed"
    <2> TAKE c \in Callers
    <2>1. callers[c] \in Waitings
      BY DEF SourceInv, SourceTypeOK
    <2>2. Answered(callers[c], c, "closed", None) \in Waitings
      BY <2>1, AnsweredType DEF Tokens
    <2> QED
      BY <2>1, <2>2 DEF Close, Answered, Told, Waitings
  <1>3. \A p \in Refreshes :
          /\ refreshes'[p] \in RequestRecords
          /\ refreshes'[p].stage = refreshes[p].stage /\ refreshes'[p].got = refreshes[p].got
          /\ refreshes'[p].token = refreshes[p].token
          /\ refreshes'[p].aborted => \/ refreshes[p].aborted
                                      \/ refreshes[p].stage \in Running \/ Waiters(p) # {}
          /\ p = source.refresh \/ refreshes[p].aborted => refreshes'[p].aborted
    <2> TAKE p \in Refreshes
    <2>1. refreshes[p] \in RequestRecords
      BY DEF SourceInv, SourceTypeOK
    <2>2. refreshes'[p] \in {refreshes[p], [refreshes[p] EXCEPT !.aborted = TRUE]}
      BY DEF Close
    <2>3. p = source.refresh => refreshes'[p] = [refreshes[p] EXCEPT !.aborted = TRUE]
      BY DEF Close
    <2>4. ~(Waiters(p) # {} \/ p = source.refresh) => refreshes'[p] = refreshes[p]
      BY DEF Close
    <2>5. p = source.refresh => refreshes[p].stage \in Running
      BY RequestsAreNotZero DEF SourceInv, LiveRefreshIsShared
    <2> QED
      BY <2>1, <2>2, <2>3, <2>4, <2>5 DEF RequestRecords
  <1>4. SourceTypeOK'
    <2>1. /\ DOMAIN callers' = Callers /\ callers' = [c \in Callers |-> callers'[c]]
          /\ DOMAIN refreshes' = Refreshes
          /\ refreshes' = [p \in Refreshes |-> refreshes'[p]]
      BY DEF Close
    <2> QED
      BY <1>1, <1>2, <1>3, <2>1 DEF SourceInv, SourceTypeOK
  <1>5. LiveRefreshIsShared'
    BY <1>1, <1>3 DEF SourceInv, LiveRefreshIsShared, Running
  <1>6. WaitsInGoodFaith'
    BY <1>2 DEF SourceInv, WaitsInGoodFaith, Waitings
  <1>7. ToldByStage'
    <2>1. \A p \in Refreshes : Waiters(p) # {} => refreshes[p].stage # "none"
      BY DEF SourceInv, WaitsInGoodFaith, Waiters
    <2> QED
      BY <1>1, <1>3, <2>1 DEF SourceInv, ToldByStage, Running
  <1>8. AnsweredOnce'
    BY <1>2, <1>3 DEF SourceInv, AnsweredOnce, SourceTypeOK, Waitings
  <1> QED
    BY <1>4, <1>5, <1>6, <1>7, <1>8 DEF SourceInv

LEMMA StandStill ==
  ASSUME SourceInv, clock' \in Int, UNCHANGED <<source, refreshes, callers>>
  PROVE  SourceInv'
  <1>1. \A p \in Refreshes : Waiters(p)' = Waiters(p)
    BY DEF Waiters
  <1>2. LiveRefreshIsShared'
    BY <1>1 DEF SourceInv, LiveRefreshIsShared, SourceTypeOK
  <1>3. SourceTypeOK' /\ WaitsInGoodFaith' /\ ToldByStage' /\ AnsweredOnce'
    BY DEF SourceInv, SourceTypeOK, WaitsInGoodFaith, ToldByStage, AnsweredOnce
  <1> QED
    BY <1>2, <1>3 DEF SourceInv

LEMMA SourceStep == SourceInv /\ [Next]_vars => SourceInv'
  <1> SUFFICES ASSUME SourceInv, [Next]_vars PROVE SourceInv'
    OBVIOUS
  <1>1. ASSUME NEW c \in Callers, Call(c) PROVE SourceInv'
    BY <1>1, CallStep
  <1>2. ASSUME NEW c \in Callers, CallerAborts(c) \/ Deliver(c) PROVE SourceInv'
    BY <1>2, CallerAbortsStep, DeliverStep
  <1>3. ASSUME NEW r \in Refreshes,
               Ask(r) \/ CredentialAnswers(r) \/ GoesOn(r) \/ Settle(r)
        PROVE  SourceInv'
    BY <1>3, AskStep, CredentialAnswersStep, GoesOnStep, SettleStep
  <1>4. CASE Close
    BY <1>4, CloseStep
  <1>5. CASE Tick
    <2>1. clock' \in Int /\ UNCHANGED <<source, refreshes, callers>>
      BY <1>5 DEF Tick, SourceInv, SourceTypeOK
    <2> QED
      BY <2>1, StandStill
  <1>6. CASE UNCHANGED vars
    <2>1. clock' \in Int /\ UNCHANGED <<source, refreshes, callers>>
      BY <1>6 DEF vars, SourceInv, SourceTypeOK
    <2> QED
      BY <2>1, StandStill
  <1> QED
    BY <1>1, <1>2, <1>3, <1>4, <1>5, <1>6 DEF Next

\* The states of the token source are of their types, and each request, its
\* waiters and the answers they got fit together.
THEOREM SourceInvariant == Spec => []SourceInv
  BY SourceInitial, SourceStep, PTL DEF Spec

\* However many callers come, withdraw or are closed upon, they share the one
\* request that is alive, and each is told "unavailable" only if the
\* credential itself failed.
THEOREM RefreshShared == Spec => []RefreshIsShared
  <1>1. SourceInv => RefreshIsShared
    BY DEF SourceInv, RefreshIsShared, FailsAlone, AnsweredOnce
  <1> QED
    BY <1>1, SourceInvariant, PTL

---------------------------------------------------------------------------
(* The generation service *)

RunPhases == {"none", "token", "fetch", "body", "answered", "checking", "raced", "ended"}
RunAnswers == {"identity", "transport", "rate_limit", "completion", "completion_json",
            "timeout", "aborted", "accepted", "rejected", "malformed", "threw",
            "timed-out", "none"}
Outcomes == {"success", "cancelled", "provider-failure", "invalid-generated-language",
             "language-validation-failure", "none"}

RunRecords == [phase : RunPhases, aborted : BOOLEAN, settled : BOOLEAN, got : RunAnswers,
               outcome : Outcomes, evidence : {"success", "cancelled", "failure", "none"}]
CallerRecords == [state : {"idle", "waiting", "answered"}, run : Runs \cup {0},
                  aborted : BOOLEAN, internal : BOOLEAN, answer : Outcomes]

\* what holds of a run by itself
RunSound(run) ==
  /\ run.phase = "none" => ~run.settled
  /\ run.aborted => run.settled
  /\ run.got = "aborted" => run.aborted
  /\ run.phase = "ended" =>
       /\ run.outcome = "cancelled" => run.aborted
       /\ run.outcome = "success" <=> run.evidence = "success"
       /\ run.outcome = "success" => run.got = "accepted"

\* what holds of a caller, the runs and the entry new callers join
CallerSound(k, rs, l) ==
  /\ k.state = "idle" => ~k.aborted
  /\ k.internal => k.aborted
  /\ k.state = "waiting" /\ k.aborted => k.internal
  /\ k.state # "idle" => k.run \in Runs /\ rs[k.run].phase # "none"
  /\ k.state = "waiting" /\ ~k.internal => l = k.run
  /\ k.state = "answered" /\ ~k.aborted =>
       /\ rs[k.run].settled /\ rs[k.run].phase = "ended"
       /\ k.answer = rs[k.run].outcome /\ rs[k.run].outcome # "cancelled"

Shapes(rs, cs, l) ==
  /\ rs \in [Runs -> RunRecords]
  /\ cs \in [Requests -> CallerRecords]
  /\ l \in Runs \cup {0}

\* a run that nobody can join any more is over or was aborted
Orphans(rs, l) ==
  \A q \in Runs : rs[q].phase \notin {"none", "ended"} /\ q # l => rs[q].aborted

\* the run that can be joined goes on, and somebody waits for it
Joinable(rs, cs, l) ==
  l # 0 =>
    /\ rs[l].phase # "none" /\ ~rs[l].settled
    /\ \E d \in Requests : cs[d].run = l /\ cs[d].state = "waiting"

ServiceSound(rs, cs, l) ==
  /\ Shapes(rs, cs, l)
  /\ \A q \in Runs : RunSound(rs[q])
  /\ Orphans(rs, l)
  /\ Joinable(rs, cs, l)
  /\ \A c \in Requests : CallerSound(cs[c], rs, l)

\* the inductive invariant
ServiceInv == ServiceSound(runs, requests, live)

\* The invariant gives the property: callers that wait, wait for the entry that
\* is joined (complete() and #joinCompletion).
LEMMA SoundShares == ASSUME MaxRuns \in Nat, ServiceInv PROVE CompletionIsShared
<1>1. CallersAgree
  BY DEF ServiceInv, ServiceSound, Shapes, CallerSound, RunSound, CallersAgree, CallerRecords, RunRecords
<1>2. ASSUME NEW c \in Requests, requests[c].state = "waiting", ~requests[c].internal
      PROVE  live = requests[c].run /\ ~runs[live].settled
  <2>1. live = requests[c].run /\ live \in Runs
    BY <1>2 DEF ServiceInv, ServiceSound, CallerSound
  <2>2. live # 0
    BY <2>1 DEF Runs
  <2>3. QED
    BY <2>1, <2>2 DEF ServiceInv, ServiceSound, Joinable
<1>3. \A r \in Runs : runs[r].phase \notin {"none", "ended"} /\ r # live => runs[r].aborted
  BY DEF ServiceInv, ServiceSound, Orphans
<1>4. live # 0 => Of(requests, live) # {}
  BY DEF ServiceInv, ServiceSound, Joinable, Of
<1>5. QED
  BY <1>1, <1>2, <1>3, <1>4 DEF CompletionIsShared, OneLiveRun

LEMMA InitSound == ASSUME MaxRuns \in Nat, ServiceInit PROVE ServiceInv
<1>1. runs = [r \in Runs |-> NotStarted] /\ requests = [c \in Requests |-> NotAsked] /\ live = 0
  BY DEF ServiceInit
<1>2. Shapes(runs, requests, live)
  BY <1>1 DEF Shapes, NotStarted, NotAsked, RunRecords, CallerRecords, RunPhases, RunAnswers, Outcomes
<1>3. \A q \in Runs : RunSound(runs[q])
  BY <1>1 DEF RunSound, NotStarted
<1>4. Orphans(runs, live) /\ Joinable(runs, requests, live)
  BY <1>1 DEF Orphans, Joinable, NotStarted
<1>5. \A c \in Requests : CallerSound(requests[c], runs, live)
  BY <1>1 DEF CallerSound, NotAsked
<1>6. QED
  BY <1>2, <1>3, <1>4, <1>5 DEF ServiceInv, ServiceSound

(***************************************************************************)
(* A run that moves, with callers its validator aborts meanwhile           *)
(***************************************************************************)
\* A step of a run that neither aborts nor settles it keeps the invariant, and
\* so do the aborts of its callers that the validator brings about.
LEMMA RunMoves ==
  ASSUME MaxRuns \in Nat, ServiceInv,
         NEW r \in Runs, NEW new \in RunRecords, RunSound(new),
         runs[r].phase \notin {"none", "ended"}, new.phase # "none",
         new.aborted = runs[r].aborted, new.settled = runs[r].settled,
         runs' = [runs EXCEPT ![r] = new], live' = live,
         requests' = requests \/ \E who \in SUBSET Abortable(r) : requests' = Internal(r, who)
  PROVE  ServiceInv'
<1>1. /\ runs \in [Runs -> RunRecords] /\ requests \in [Requests -> CallerRecords]
      /\ live \in Runs \cup {0}
  BY DEF ServiceInv, ServiceSound, Shapes
<1>2. runs'[r] = new /\ \A q \in Runs \ {r} : runs'[q] = runs[q]
  BY <1>1
<1>3. ASSUME NEW c \in Requests
      PROVE  /\ requests'[c] \in CallerRecords
             /\ requests'[c].state = requests[c].state /\ requests'[c].run = requests[c].run
             /\ \/ requests'[c] = requests[c]
                \/ /\ requests[c].state = "waiting"
                   /\ requests'[c].aborted /\ requests'[c].internal
  <2>1. CASE requests' = requests
    BY <1>1, <2>1
  <2>2. ASSUME NEW who \in SUBSET Abortable(r), requests' = Internal(r, who)
        PROVE  /\ requests'[c] \in CallerRecords
               /\ requests'[c].state = requests[c].state /\ requests'[c].run = requests[c].run
               /\ \/ requests'[c] = requests[c]
                  \/ /\ requests[c].state = "waiting"
                     /\ requests'[c].aborted /\ requests'[c].internal
    <3>1. c \in who => requests[c].state = "waiting"
      BY <2>2 DEF Abortable, Of
    <3>2. requests'[c] = IF c \in who
                        THEN [requests[c] EXCEPT !.aborted = TRUE, !.internal = TRUE]
                        ELSE requests[c]
      BY <2>2 DEF Internal
    <3>3. QED
      BY <1>1, <3>1, <3>2 DEF CallerRecords
  <2>3. QED
    BY <2>1, <2>2
<1>4. requests' \in [Requests -> CallerRecords]
  <2>1. requests' = [c \in Requests |-> requests'[c]]
    BY <1>1 DEF Internal
  <2>2. QED
    BY <1>3, <2>1
<1>5. Shapes(runs, requests, live)'
  BY <1>1, <1>4 DEF Shapes
<1>6. (\A q \in Runs : RunSound(runs[q]))'
  BY <1>2 DEF ServiceInv, ServiceSound
<1>7. Orphans(runs, live)'
  BY <1>2 DEF ServiceInv, ServiceSound, Orphans
<1>8. Joinable(runs, requests, live)'
  <2>1. SUFFICES ASSUME live # 0 PROVE Joinable(runs, requests, live)'
    BY DEF Joinable
  <2>2. live \in Runs /\ runs[live].phase # "none" /\ ~runs[live].settled
    BY <1>1, <2>1 DEF ServiceInv, ServiceSound, Joinable
  <2>3. PICK d \in Requests : requests[d].run = live /\ requests[d].state = "waiting"
    BY <2>1 DEF ServiceInv, ServiceSound, Joinable
  <2>4. requests'[d].run = live /\ requests'[d].state = "waiting"
    BY <1>3, <2>3
  <2>5. QED
    BY <1>2, <2>2, <2>4 DEF Joinable
<1>9. ASSUME NEW c \in Requests PROVE CallerSound(requests[c], runs, live)'
  <2>1. CallerSound(requests[c], runs, live)
    BY DEF ServiceInv, ServiceSound
  <2>2. CASE requests'[c] = requests[c]
    BY <1>2, <2>1, <2>2 DEF CallerSound
  <2>3. CASE requests[c].state = "waiting" /\ requests'[c].aborted /\ requests'[c].internal
    BY <1>2, <1>3, <2>1, <2>3 DEF CallerSound
  <2>4. QED
    BY <1>3, <2>2, <2>3
<1>10. QED
  BY <1>5, <1>6, <1>7, <1>8, <1>9 DEF ServiceInv, ServiceSound

(***************************************************************************)
(* A caller that leaves                                                    *)
(***************************************************************************)
\* The last caller that can leave aborts the run and closes the entry; any
\* other leaves someone who waits (#cancelCaller).
LEMMA CancelSound ==
  ASSUME MaxRuns \in Nat, NEW rs, NEW cs, NEW l, ServiceSound(rs, cs, l),
         NEW c \in Requests, cs[c].state = "waiting", ~cs[c].aborted,
         Cancel(c, rs, cs, l)
  PROVE  ServiceInv'
<1> DEFINE left == [cs EXCEPT ![c].aborted = TRUE, ![c].state = "answered",
                              ![c].answer = "cancelled"]
<1>1. rs \in [Runs -> RunRecords] /\ cs \in [Requests -> CallerRecords]
  BY DEF ServiceSound, Shapes
<1>2. ~cs[c].internal /\ l = cs[c].run /\ l \in Runs /\ rs[l].phase # "none"
  BY DEF ServiceSound, CallerSound
<1>3. l # 0 /\ ~rs[l].settled /\ ~rs[l].aborted
  <2>1. l # 0
    BY <1>2 DEF Runs
  <2>2. ~rs[l].settled
    BY <2>1 DEF ServiceSound, Joinable
  <2>3. QED
    BY <1>2, <2>1, <2>2 DEF ServiceSound, RunSound
<1>4. /\ requests' = left
      /\ runs' = IF Leaves(left, rs, l) THEN [rs EXCEPT ![l] = Abort(@)] ELSE rs
      /\ live' = IF Leaves(left, rs, l) THEN 0 ELSE l
  BY <1>2 DEF Cancel
<1>5. /\ left \in [Requests -> CallerRecords]
      /\ left[c].state = "answered" /\ left[c].aborted
      /\ left[c].run = l /\ left[c].internal = cs[c].internal
      /\ \A d \in Requests \ {c} : left[d] = cs[d]
  BY <1>1, <1>2 DEF CallerRecords, Outcomes
<1> HIDE DEF left
<1>6. CASE Leaves(left, rs, l)
  <2>1. runs' = [rs EXCEPT ![l] = Abort(rs[l])] /\ live' = 0 /\ requests' = left
    BY <1>4, <1>6
  <2>2. /\ Abort(rs[l]) \in RunRecords /\ RunSound(Abort(rs[l]))
        /\ Abort(rs[l]).aborted /\ Abort(rs[l]).phase # "none"
    <3>1. rs[l] \in RunRecords /\ RunSound(rs[l])
      BY <1>1, <1>2 DEF ServiceSound
    <3> DEFINE new == Abort(rs[l])
    <3>2. /\ new.aborted = TRUE /\ new.settled = TRUE
          /\ new.outcome = rs[l].outcome /\ new.evidence = rs[l].evidence
          /\ new.phase \in {"answered", "raced", rs[l].phase}
          /\ new.got \in {"aborted", rs[l].got}
          /\ new.phase = "ended" => rs[l].phase = "ended" /\ new.got = rs[l].got
      BY <3>1 DEF Abort, RunRecords
    <3>3. new \in RunRecords
      BY <3>1, <3>2 DEF Abort, RunRecords, RunPhases, RunAnswers
    <3>4. QED
      BY <1>2, <3>1, <3>2, <3>3 DEF RunSound
  <2>3. runs'[l] = Abort(rs[l]) /\ \A q \in Runs \ {l} : runs'[q] = rs[q]
    BY <1>1, <1>2, <2>1
  <2>4. Shapes(runs, requests, live)'
    BY <1>1, <1>2, <1>5, <2>1, <2>2 DEF Shapes
  <2>5. (\A q \in Runs : RunSound(runs[q]))'
    BY <2>2, <2>3 DEF ServiceSound
  <2>6. Orphans(runs, live)'
    BY <2>2, <2>3 DEF ServiceSound, Orphans
  <2>7. Joinable(runs, requests, live)'
    BY <2>1 DEF Joinable
  <2>8. ASSUME NEW d \in Requests PROVE CallerSound(requests[d], runs, live)'
    <3>1. CASE d = c
      BY <1>2, <1>5, <2>1, <2>2, <2>3, <3>1 DEF CallerSound
    <3>2. CASE d # c
      <4>1. CallerSound(cs[d], rs, l) /\ requests'[d] = cs[d]
        BY <1>5, <2>1, <3>2 DEF ServiceSound
      <4>2. ~(cs[d].state = "waiting" /\ ~cs[d].internal)
        <5>1. SUFFICES ASSUME cs[d].state = "waiting", ~cs[d].internal PROVE FALSE
          OBVIOUS
        <5>2. cs[d].run = l /\ ~cs[d].aborted
          BY <4>1, <5>1 DEF CallerSound
        <5>3. d \in Of(left, l)
          BY <1>5, <3>2, <5>1, <5>2 DEF Of
        <5>4. left[d].aborted
          BY <1>6, <5>3 DEF Leaves
        <5>5. QED
          BY <1>5, <3>2, <5>2, <5>4
      <4>3. cs[d].state = "answered" /\ ~cs[d].aborted => cs[d].run # l
        BY <1>3, <4>1 DEF CallerSound
      <4>4. QED
        BY <1>2, <2>2, <2>3, <4>1, <4>2, <4>3 DEF CallerSound
    <3>3. QED
      BY <3>1, <3>2
  <2>9. QED
    BY <2>4, <2>5, <2>6, <2>7, <2>8 DEF ServiceInv, ServiceSound
<1>7. CASE ~Leaves(left, rs, l)
  <2>1. runs' = rs /\ live' = l /\ requests' = left
    BY <1>4, <1>7
  <2>2. PICK d \in Of(left, l) : TRUE
    BY <1>3, <1>7 DEF Leaves
  <2>3. Joinable(runs, requests, live)'
    BY <1>2, <1>3, <2>1, <2>2 DEF Joinable, Of
  <2>4. Shapes(runs, requests, live)'
    BY <1>1, <1>2, <1>5, <2>1 DEF Shapes
  <2>5. (\A q \in Runs : RunSound(runs[q]))' /\ Orphans(runs, live)'
    BY <2>1 DEF ServiceSound, Orphans
  <2>6. ASSUME NEW e \in Requests PROVE CallerSound(requests[e], runs, live)'
    <3>1. CASE e = c
      BY <1>2, <1>5, <2>1, <3>1 DEF CallerSound
    <3>2. CASE e # c
      BY <1>5, <2>1, <3>2 DEF ServiceSound, CallerSound
    <3>3. QED
      BY <3>1, <3>2
  <2>7. QED
    BY <2>3, <2>4, <2>5, <2>6 DEF ServiceInv, ServiceSound
<1>8. QED
  BY <1>6, <1>7

\* A caller is attached to the run that goes on, or to one that starts, before
\* its own signal is looked at.
LEMMA CompleteStep ==
  ASSUME MaxRuns \in Nat, ServiceInv, NEW c \in Requests, NEW r \in Runs,
         NEW gone \in BOOLEAN, Complete(c, r, gone)
  PROVE  ServiceInv'
<1> DEFINE rs == [runs EXCEPT ![r].phase = IF live = 0 THEN "token" ELSE @]
           cs == [requests EXCEPT ![c].state = "waiting", ![c].run = r]
<1>1. /\ runs \in [Runs -> RunRecords] /\ requests \in [Requests -> CallerRecords]
      /\ live \in Runs \cup {0} /\ 0 \notin Runs
  BY DEF ServiceInv, ServiceSound, Shapes, Runs
<1>2. requests[c].state = "idle" /\ ~requests[c].aborted /\ ~requests[c].internal
  BY DEF Complete, ServiceInv, ServiceSound, CallerSound
<1>3. /\ live = 0 => runs[r].phase = "none"
      /\ live # 0 => r = live /\ runs[r].phase # "none" /\ ~runs[r].settled
  BY DEF Complete, Joins, ServiceInv, ServiceSound, Joinable
<1>4. ~runs[r].settled /\ ~runs[r].aborted /\ RunSound(runs[r])
  BY <1>3 DEF ServiceInv, ServiceSound, RunSound
<1>5. /\ rs \in [Runs -> RunRecords] /\ rs[r].phase # "none"
      /\ ~rs[r].settled /\ RunSound(rs[r])
      /\ live # 0 => rs[r].phase = runs[r].phase
      /\ rs[r].outcome = runs[r].outcome
      /\ \A q \in Runs \ {r} : rs[q] = runs[q]
  BY <1>1, <1>3, <1>4 DEF RunRecords, RunPhases, RunSound
<1>6. /\ cs \in [Requests -> CallerRecords]
      /\ cs[c].state = "waiting" /\ cs[c].run = r
      /\ ~cs[c].aborted /\ ~cs[c].internal
      /\ \A d \in Requests \ {c} : cs[d] = requests[d]
  BY <1>1, <1>2 DEF CallerRecords
<1>7. \/ gone /\ Cancel(c, rs, cs, r)
      \/ runs' = rs /\ requests' = cs /\ live' = r
  BY DEF Complete
<1> HIDE DEF rs, cs
<1>8. ServiceSound(rs, cs, r)
  <2>1. Shapes(rs, cs, r) /\ \A q \in Runs : RunSound(rs[q])
    BY <1>5, <1>6 DEF Shapes, ServiceInv, ServiceSound
  <2>2. Orphans(rs, r)
    BY <1>1, <1>3, <1>5 DEF ServiceInv, ServiceSound, Orphans
  <2>3. Joinable(rs, cs, r)
    BY <1>5, <1>6 DEF Joinable
  <2>4. ASSUME NEW d \in Requests PROVE CallerSound(cs[d], rs, r)
    <3>1. CASE d = c
      BY <1>5, <1>6, <3>1 DEF CallerSound
    <3>2. CASE d # c
      <4>1. CallerSound(requests[d], runs, live) /\ cs[d] = requests[d]
        BY <1>6, <3>2 DEF ServiceInv, ServiceSound
      <4>2. requests[d].state = "waiting" /\ ~requests[d].internal => requests[d].run = r
        BY <1>1, <1>3, <4>1 DEF CallerSound
      <4>3. requests[d].state = "answered" /\ ~requests[d].aborted => requests[d].run # r
        BY <1>4, <4>1 DEF CallerSound
      <4>4. QED
        BY <1>5, <4>1, <4>2, <4>3 DEF CallerSound
    <3>3. QED
      BY <3>1, <3>2
  <2>5. QED
    BY <2>1, <2>2, <2>3, <2>4 DEF ServiceSound
<1>9. CASE gone /\ Cancel(c, rs, cs, r)
  BY <1>6, <1>8, <1>9, CancelSound
<1>10. CASE runs' = rs /\ requests' = cs /\ live' = r
  BY <1>8, <1>10 DEF ServiceInv, ServiceSound, Shapes, Orphans, Joinable
<1>11. QED
  BY <1>7, <1>9, <1>10

(***************************************************************************)
(* The end of a run                                                        *)
(***************************************************************************)
\* Those still attached are answered, and the entry goes (#finish).
LEMMA FinishStep ==
  ASSUME MaxRuns \in Nat, ServiceInv, NEW r \in Runs, Finish(r)
  PROVE  ServiceInv'
<1>1. /\ runs \in [Runs -> RunRecords] /\ requests \in [Requests -> CallerRecords]
      /\ live \in Runs \cup {0} /\ 0 \notin Runs
  BY DEF ServiceInv, ServiceSound, Shapes, Runs
<1>2. /\ runs[r].phase = "ended" /\ ~runs[r].settled
      /\ runs' = [runs EXCEPT ![r].settled = TRUE]
      /\ live' = IF live = r THEN 0 ELSE live
  BY DEF Finish
<1>3. RunSound(runs[r]) /\ ~runs[r].aborted /\ runs[r].outcome # "cancelled"
  BY <1>2 DEF ServiceInv, ServiceSound, RunSound
<1>4. /\ runs'[r] \in RunRecords /\ RunSound(runs'[r])
      /\ runs'[r].settled /\ runs'[r].phase = "ended"
      /\ runs'[r].outcome = runs[r].outcome
      /\ \A q \in Runs \ {r} : runs'[q] = runs[q]
  BY <1>1, <1>2, <1>3 DEF RunRecords, RunSound
<1>5. ASSUME NEW c \in Requests
      PROVE  requests'[c] = IF requests[c].run = r /\ requests[c].state = "waiting"
                           THEN [requests[c] EXCEPT
                                   !.state = "answered",
                                   !.answer = Answer(requests[c], runs[r].outcome)]
                           ELSE requests[c]
  BY DEF Finish, Of
<1>6. ASSUME NEW c \in Requests PROVE requests'[c] \in CallerRecords
  <2>1. Answer(requests[c], runs[r].outcome) \in Outcomes
    BY <1>1 DEF Answer, RunRecords, Outcomes
  <2>2. QED
    BY <1>1, <1>5, <2>1 DEF CallerRecords
<1>7. Shapes(runs, requests, live)'
  <2>1. requests' \in [Requests -> CallerRecords]
    BY <1>6 DEF Finish
  <2>2. runs' \in [Runs -> RunRecords]
    BY <1>1, <1>2, <1>4
  <2>3. QED
    BY <1>1, <1>2, <2>1, <2>2 DEF Shapes
<1>8. (\A q \in Runs : RunSound(runs[q]))'
  BY <1>4 DEF ServiceInv, ServiceSound
<1>9. Orphans(runs, live)'
  BY <1>1, <1>2, <1>4 DEF ServiceInv, ServiceSound, Orphans
<1>10. Joinable(runs, requests, live)'
  <2>1. SUFFICES ASSUME live # 0, live # r PROVE Joinable(runs, requests, live)'
    BY <1>2 DEF Joinable
  <2>2. PICK d \in Requests : requests[d].run = live /\ requests[d].state = "waiting"
    BY <2>1 DEF ServiceInv, ServiceSound, Joinable
  <2>3. requests'[d] = requests[d]
    BY <1>5, <2>1, <2>2
  <2>4. QED
    BY <1>1, <1>2, <1>4, <2>1, <2>2, <2>3 DEF ServiceInv, ServiceSound, Joinable
<1>11. ASSUME NEW c \in Requests PROVE CallerSound(requests[c], runs, live)'
  <2>1. CallerSound(requests[c], runs, live) /\ requests[c] \in CallerRecords
    BY <1>1 DEF ServiceInv, ServiceSound
  <2>2. CASE requests[c].run = r /\ requests[c].state = "waiting"
    <3>1. /\ requests'[c].state = "answered" /\ requests'[c].run = r
          /\ requests'[c].aborted = requests[c].aborted
          /\ requests'[c].internal = requests[c].internal
          /\ ~requests[c].aborted => requests'[c].answer = runs[r].outcome
      BY <1>5, <2>1, <2>2 DEF CallerRecords, Answer
    <3>2. QED
      BY <1>3, <1>4, <2>1, <3>1 DEF CallerSound
  <2>3. CASE ~(requests[c].run = r /\ requests[c].state = "waiting")
    <3>1. requests'[c] = requests[c]
      BY <1>5, <2>3
    <3>2. requests[c].state = "answered" /\ ~requests[c].aborted => requests[c].run # r
      BY <1>2, <2>1 DEF CallerSound
    <3>3. QED
      BY <1>2, <1>4, <2>1, <2>3, <3>1, <3>2 DEF CallerSound
  <2>4. QED
    BY <2>2, <2>3
<1>12. QED
  BY <1>7, <1>8, <1>9, <1>10, <1>11 DEF ServiceInv, ServiceSound

(***************************************************************************)
(* The steps of a run                                                      *)
(***************************************************************************)
\* Every step of a run but the last moves it on and leaves its callers to it.
LEMMA RunStep ==
  ASSUME MaxRuns \in Nat, ServiceInv, NEW r \in Runs, Step(r)
  PROVE  ServiceInv'
<1>1. runs \in [Runs -> RunRecords] /\ RunSound(runs[r]) /\ runs[r] \in RunRecords
  BY DEF ServiceInv, ServiceSound, Shapes
<1>2. ASSUME runs[r].phase \in {"token", "fetch", "body", "checking"},
             NEW phase \in RunPhases \ {"none", "ended"}, NEW got \in RunAnswers \ {"aborted"},
             runs' = [runs EXCEPT ![r].phase = phase, ![r].got = got], live' = live,
             requests' = requests \/ \E who \in SUBSET Abortable(r) : requests' = Internal(r, who)
      PROVE  ServiceInv'
  <2> DEFINE new == [runs[r] EXCEPT !.phase = phase, !.got = got]
  <2>1. /\ new \in RunRecords /\ RunSound(new) /\ new.phase # "none"
        /\ new.aborted = runs[r].aborted /\ new.settled = runs[r].settled
    BY <1>1, <1>2 DEF RunRecords, RunSound
  <2>2. runs' = [runs EXCEPT ![r] = new]
    BY <1>1, <1>2
  <2>3. runs[r].phase \notin {"none", "ended"}
    BY <1>2
  <2> HIDE DEF new
  <2>4. QED
    BY <1>2, <2>1, <2>2, <2>3, RunMoves
<1>3. ASSUME runs[r].phase \in {"answered", "raced"}, NEW outcome \in Outcomes,
             outcome = "cancelled" => runs[r].aborted,
             outcome = "success" => runs[r].got = "accepted",
             runs' = [runs EXCEPT ![r] = Ended(runs[r], outcome)], live' = live,
             requests' = requests \/ \E who \in SUBSET Abortable(r) : requests' = Internal(r, who)
      PROVE  ServiceInv'
  <2> DEFINE new == Ended(runs[r], outcome)
  <2>1. /\ new \in RunRecords /\ RunSound(new) /\ new.phase # "none"
        /\ new.aborted = runs[r].aborted /\ new.settled = runs[r].settled
    BY <1>1, <1>3 DEF Ended, RunRecords, RunSound, Outcomes, RunPhases
  <2>2. runs' = [runs EXCEPT ![r] = new] /\ runs[r].phase \notin {"none", "ended"}
    BY <1>3
  <2> HIDE DEF new
  <2>3. QED
    BY <1>3, <2>1, <2>2, RunMoves
<1>4. CASE TokenAnswers(r)
  BY <1>2, <1>4 DEF TokenAnswers, Advance, RunPhases, RunAnswers
<1>5. CASE ResponseArrives(r)
  BY <1>2, <1>5 DEF ResponseArrives, Advance, RunPhases, RunAnswers
<1>6. CASE BodyArrives(r)
  BY <1>2, <1>6 DEF BodyArrives, Advance, RunPhases, RunAnswers
<1>7. CASE Deadline(r)
  BY <1>2, <1>7 DEF Deadline, Advance, RunPhases, RunAnswers
<1>8. CASE ValidatorAnswers(r)
  BY <1>2, <1>8 DEF ValidatorAnswers, Advance, RunPhases, RunAnswers
<1>9. CASE ValidationTimer(r)
  BY <1>2, <1>9 DEF ValidationTimer, RunPhases, RunAnswers
<1>10. CASE ProviderReturns(r)
  <2>1. CASE runs[r].aborted
    BY <1>3, <1>10, <2>1 DEF ProviderReturns, Outcomes
  <2>2. CASE ~runs[r].aborted /\ runs[r].got = "completion"
    <3> DEFINE new == [runs[r] EXCEPT !.phase = "checking", !.got = "none"]
    <3>1. /\ new \in RunRecords /\ RunSound(new) /\ new.phase # "none"
          /\ new.aborted = runs[r].aborted /\ new.settled = runs[r].settled
      BY <1>1, <2>2 DEF RunRecords, RunSound, RunPhases, RunAnswers
    <3>2. /\ runs' = [runs EXCEPT ![r] = new] /\ requests' = requests /\ live' = live
          /\ runs[r].phase \notin {"none", "ended"}
      BY <1>10, <2>2 DEF ProviderReturns
    <3> HIDE DEF new
    <3>3. QED
      BY <3>1, <3>2, RunMoves
  <2>3. CASE ~runs[r].aborted /\ runs[r].got # "completion"
    BY <1>3, <1>10, <2>3 DEF ProviderReturns, Outcomes
  <2>4. QED
    BY <2>1, <2>2, <2>3
<1>11. CASE ValidationReturns(r)
  <2>1. /\ Verdict(runs[r]) \in Outcomes
        /\ Verdict(runs[r]) = "cancelled" => runs[r].aborted
        /\ Verdict(runs[r]) = "success" => runs[r].got = "accepted"
    BY <1>1 DEF Verdict, Outcomes, RunSound
  <2>2. \E who \in SUBSET Abortable(r) : requests' = Internal(r, who)
    BY <1>11 DEF ValidationReturns
  <2>3. runs' = [runs EXCEPT ![r] = Ended(runs[r], Verdict(runs[r]))] /\ live' = live
    BY <1>11 DEF ValidationReturns
  <2>4. QED
    BY <1>3, <1>11, <2>1, <2>2, <2>3 DEF ValidationReturns
<1>12. CASE Finish(r)
  BY <1>12, FinishStep
<1>13. QED
  BY <1>4, <1>5, <1>6, <1>7, <1>8, <1>9, <1>10, <1>11, <1>12 DEF Step

\* Whatever the callers, the model and the validator do, callers of a turn wait
\* for one run, which is theirs to join or to abort, and hear its one outcome.
THEOREM ServiceInvariant == ServiceSpec => []ServiceInv
<1>1. ServiceInit => ServiceInv
  BY InitSound, ServiceAssumption
<1>2. ServiceInv /\ [ServiceNext]_serviceVars => ServiceInv'
  <2>1. SUFFICES ASSUME ServiceInv, [ServiceNext]_serviceVars PROVE ServiceInv'
    OBVIOUS
  <2>2. ASSUME NEW c \in Requests, NEW r \in Runs, NEW gone \in BOOLEAN, Complete(c, r, gone)
        PROVE  ServiceInv'
    BY <2>1, <2>2, CompleteStep, ServiceAssumption
  <2>3. ASSUME NEW c \in Requests, CallerLeaves(c) PROVE ServiceInv'
    <3>1. ServiceSound(runs, requests, live)
      BY <2>1 DEF ServiceInv
    <3>2. requests[c].state = "waiting" /\ ~requests[c].aborted /\ Cancel(c, runs, requests, live)
      BY <2>3 DEF CallerLeaves
    <3>3. QED
      BY <3>1, <3>2, CancelSound, ServiceAssumption
  <2>4. ASSUME NEW r \in Runs, Step(r) PROVE ServiceInv'
    BY <2>1, <2>4, RunStep, ServiceAssumption
  <2>5. CASE UNCHANGED serviceVars
    BY <2>1, <2>5 DEF serviceVars, ServiceInv, ServiceSound, Shapes, Orphans, Joinable, CallerSound
  <2>6. QED
    BY <2>1, <2>2, <2>3, <2>4, <2>5 DEF ServiceNext
<1>3. QED
  BY <1>1, <1>2, PTL DEF ServiceSpec

\* The callers of one turn share one run and its answer, for any number of
\* callers and runs (service.ts, #joinCompletion and #finish).
THEOREM CallersShareCompletion == ServiceSpec => []CompletionIsShared
<1>1. ServiceInv => CompletionIsShared
  BY SoundShares, ServiceAssumption
<1>2. QED
  BY <1>1, ServiceInvariant, PTL

---------------------------------------------------------------------------
(* The cleanup job *)

Keys == 1..Places

CallRecords == [open : BOOLEAN, visited : Nat, pages : Nat, removed : Nat,
                stopped : [Tables -> BOOLEAN], table : Tables, page : SUBSET Keys]
PositionRecords == [token : [Tables -> 0..Places + 1], turn : Tables,
                    exhausted : [Tables -> BOOLEAN]]
JobRecords == [state : {"running", "passed", "failed"}, calls : Nat, visited : Nat,
               removed : Nat, exhausted : BOOLEAN]
PassRecords == [steady : [Tables -> SUBSET Keys], seen : [Tables -> SUBSET Keys],
                deleted : Nat]

CleanupShapes ==
  /\ rows \in [Tables -> SUBSET Keys]
  /\ position \in PositionRecords
  /\ call \in CallRecords
  /\ job \in JobRecords
  /\ pass \in PassRecords

\* The rows of the page are rows the call may still visit, so none is dropped.
PageFits == call.visited + Cardinality(call.page) <= Limit

\* A row that was there all along has been looked at, is in the page at hand, or
\* lies where the next page of its table begins or beyond.
Covered(t) ==
  \A r \in pass.steady[t] :
    /\ r \in rows[t]
    /\ \/ r \in pass.seen[t]
       \/ ~position.exhausted[t] /\ r >= position.token[t]
       \/ call.table = t /\ r \in call.page

Counted ==
  /\ call.removed <= call.visited
  /\ job.removed <= job.visited
  /\ job.removed + call.removed <= pass.deleted

Phased ==
  /\ call.open => job.state = "running" /\ ~job.exhausted
  /\ ~call.open => call = NoCall
  /\ job.exhausted => Exhausted

CleanupInv ==
  /\ CleanupShapes /\ PageFits /\ Counted /\ Phased
  /\ job.state # "failed" => \A t \in Tables : Covered(t)

---------------------------------------------------------------------------
\* The invariant gives the property: the job ends between two calls.
LEMMA CoveredIsComplete == ASSUME CleanupInv PROVE PassIsComplete
<1>1. SUFFICES ASSUME job.state = "passed" PROVE
        /\ job.exhausted => \A t \in Tables : pass.steady[t] \subseteq pass.seen[t]
        /\ job.removed <= pass.deleted /\ job.removed <= job.visited
  BY DEF PassIsComplete
<1>2. ~call.open /\ call = NoCall
  BY <1>1 DEF CleanupInv, Phased
<1>3. call.removed = 0 /\ call.page = {}
  BY <1>2 DEF NoCall
<1>4. job.removed <= pass.deleted /\ job.removed <= job.visited
  BY <1>3 DEF CleanupInv, Counted, CleanupShapes, JobRecords, PassRecords
<1>5. ASSUME job.exhausted, NEW t \in Tables PROVE pass.steady[t] \subseteq pass.seen[t]
  BY <1>1, <1>3, <1>5 DEF CleanupInv, Phased, Exhausted, Covered
<1>6. QED
  BY <1>4, <1>5

LEMMA CleanupInitial == CleanupInit => CleanupInv
<1>1. SUFFICES ASSUME CleanupInit PROVE CleanupInv
  OBVIOUS
<1>2. CleanupShapes
  BY <1>1, CleanupAssumption DEF CleanupInit, CleanupShapes, CallRecords, PositionRecords,
       JobRecords, PassRecords, Position, NoCall, NoToken, Each, Keys, Tables
<1>3. PageFits
  BY <1>1, CleanupAssumption, FS_EmptySet DEF CleanupInit, PageFits, NoCall
<1>4. Counted /\ Phased
  BY <1>1 DEF CleanupInit, Counted, Phased, NoCall
<1>5. ASSUME NEW t \in Tables PROVE Covered(t)
  BY <1>1, <1>5, CleanupAssumption
  DEF CleanupInit, Covered, Position, NoToken, Each, Keys
<1>6. QED
  BY <1>2, <1>3, <1>4, <1>5 DEF CleanupInv

---------------------------------------------------------------------------
\* What the pages of two tables may hold together is what the call may still
\* visit (cleanupExpired, rowBudget).
LEMMA BudgetFits ==
  ASSUME CleanupShapes, MayGoOn
  PROVE  Budget \in Int /\ Budget <= Limit - call.visited
<1> DEFINE active == {t \in Tables : Available(t)}
<1>1. PICK t \in Tables : Available(t)
  BY DEF MayGoOn
<1>2. active = {t} \/ (active = {t, Other(t)} /\ Other(t) # t)
  BY <1>1 DEF Tables, Other
<1>3. Cardinality({t}) = 1
  BY FS_Singleton
<1>4. Other(t) # t => Cardinality({t, Other(t)}) = 2
  <2>1. IsFiniteSet({t}) /\ {t, Other(t)} = {t} \cup {Other(t)}
    BY FS_Singleton
  <2>2. QED
    BY <1>3, <2>1, FS_AddElement
<1>5. Cardinality(active) = 1 \/ Cardinality(active) = 2
  BY <1>2, <1>3, <1>4
<1> DEFINE left == Limit - call.visited
           share == (left + Cardinality(active) - 1) \div Cardinality(active)
<1>6. left \in Nat /\ left >= 1
  BY CleanupAssumption DEF CleanupShapes, CallRecords, MayGoOn
<1>7. share \in Int /\ share <= left
  BY <1>5, <1>6
<1> HIDE DEF left, share
<1>8. Budget = IF share < 1 THEN 1 ELSE IF share > PageCap THEN PageCap ELSE share
  BY DEF Budget, share, left
<1>9. QED
  BY <1>6, <1>7, <1>8, CleanupAssumption DEF left

---------------------------------------------------------------------------
\* A table that is available is one of the two: the turn falls on it.
LEMMA TurnAvailable ==
  ASSUME CleanupShapes, MayGoOn
  PROVE  Turn \in Tables /\ Available(Turn) /\ Other(Turn) \in Tables
BY DEF MayGoOn, Turn, Tables, Other, CleanupShapes, PositionRecords

LEMMA PageSize ==
  ASSUME NEW S \in SUBSET Keys
  PROVE  IsFiniteSet(S) /\ Cardinality(S) \in Nat
<1>1. IsFiniteSet(Keys)
  BY CleanupAssumption, FS_Interval DEF Keys
<1>2. IsFiniteSet(S)
  BY <1>1, FS_Subset
<1>3. QED
  BY <1>2, FS_CardinalityType

LEMMA CallStoreKeeps == ASSUME CleanupInv, CallStore PROVE CleanupInv'
<1>1. /\ CleanupShapes /\ call = NoCall /\ ~job.exhausted
      /\ job' = [job EXCEPT !.calls = @ + 1] /\ call' = [NoCall EXCEPT !.open = TRUE]
      /\ rows' = rows /\ job.state = "running"
  BY DEF CleanupInv, Phased, CallStore
<1>2. /\ call' \in CallRecords /\ call'.page = {} /\ call'.visited = 0
      /\ call'.removed = 0 /\ call'.open
  BY <1>1 DEF NoCall, CallRecords, Each, Tables
<1>3. /\ job' \in JobRecords /\ job'.state = job.state /\ job'.visited = job.visited
      /\ job'.removed = job.removed /\ job'.exhausted = job.exhausted
  BY <1>1 DEF CleanupShapes, JobRecords
<1>4. /\ PageFits' /\ Phased'
  BY <1>1, <1>2, <1>3, CleanupAssumption, FS_EmptySet DEF PageFits, Phased
<1>5. call.removed = 0 /\ call.page = {}
  BY <1>1 DEF NoCall
<1>6. CASE Exhausted
  <2>1. position' = Position /\ pass' = [pass EXCEPT !.steady = rows, !.seen = Each({})]
    BY <1>6 DEF CallStore
  <2>2. /\ position' \in PositionRecords
        /\ \A t \in Tables : position'.token[t] = 0 /\ ~position'.exhausted[t]
    <3>1. /\ position'.token = Each(0) /\ position'.turn = "security"
          /\ position'.exhausted = Each(FALSE)
          /\ position' = [token |-> Each(0), turn |-> "security", exhausted |-> Each(FALSE)]
      BY <2>1 DEF Position, NoToken
    <3>2. Each(0) \in [Tables -> 0..Places + 1] /\ Each(FALSE) \in [Tables -> BOOLEAN]
      BY CleanupAssumption DEF Each
    <3>3. QED
      BY <3>1, <3>2 DEF PositionRecords, Each, Tables
  <2>6. /\ pass' \in PassRecords
        /\ pass'.deleted = pass.deleted /\ pass'.steady = rows
    BY <1>1, <2>1 DEF CleanupShapes, PassRecords, Each
  <2>3. CleanupShapes' /\ Counted'
    BY <1>1, <1>2, <1>3, <1>5, <2>2, <2>6 DEF CleanupInv, CleanupShapes, Counted
  <2>4. \A t \in Tables : Covered(t)'
    BY <1>1, <2>2, <2>6, CleanupAssumption DEF Covered, CleanupShapes, Keys
  <2>5. QED
    BY <1>4, <2>3, <2>4 DEF CleanupInv
<1>7. CASE ~Exhausted
  <2>1. position' = position /\ pass' = pass
    BY <1>7 DEF CallStore
  <2>2. CleanupShapes' /\ Counted'
    BY <1>1, <1>2, <1>3, <1>5, <2>1 DEF CleanupInv, CleanupShapes, Counted
  <2>3. \A t \in Tables : Covered(t)'
    BY <1>1, <1>5, <2>1 DEF CleanupInv, Covered
  <2>4. QED
    BY <1>4, <2>2, <2>3 DEF CleanupInv
<1>8. QED
  BY <1>6, <1>7

\* A page holds every row its table has between the old token and the new one,
\* so the rows it leaves out lie where the next page begins (listPage).
LEMMA ListPageKeeps == ASSUME CleanupInv, ListPage PROVE CleanupInv'
<1> DEFINE t == Turn
           token == position.token[t]
           page(rest) == {r \in rows[t] : r >= token /\ (rest = NoToken \/ r < rest)}
           stalled(rest) == page(rest) = {} /\ token # NoToken /\ rest = token
<1>1. /\ CleanupShapes /\ call.open /\ call.page = {} /\ MayGoOn
      /\ rows' = rows /\ job' = job /\ pass' = pass
  BY DEF CleanupInv, ListPage
<1>2. PICK rest \in {NoToken} \cup (token..Places + 1) :
        /\ Cardinality(page(rest)) <= Budget
        /\ call' = [call EXCEPT !.pages = @ + 1, !.table = t, !.page = page(rest),
                                !.stopped[t] = @ \/ stalled(rest)]
        /\ position' = [position EXCEPT !.token[t] = rest, !.turn = Other(t),
                          !.exhausted[t] = @ \/ rest = NoToken]
  BY DEF ListPage
<1>3. /\ t \in Tables /\ Available(t) /\ Other(t) \in Tables
      /\ token \in 0..Places + 1 /\ rest \in 0..Places + 1
      /\ page(rest) \in SUBSET Keys
  BY <1>1, TurnAvailable, CleanupAssumption DEF CleanupShapes, PositionRecords, NoToken
<1> HIDE DEF t
<1>4. /\ call' \in CallRecords /\ call'.page = page(rest) /\ call'.table = t
      /\ call'.visited = call.visited /\ call'.removed = call.removed /\ call'.open
  <2> DEFINE s == stalled(rest)
             S == page(rest)
  <2>1. call' = [call EXCEPT !.pages = @ + 1, !.table = t, !.page = S,
                             !.stopped[t] = @ \/ s]
    BY <1>2
  <2>2. s \in BOOLEAN /\ S \in SUBSET Keys
    BY <1>3
  <2> DEFINE st == [call.stopped EXCEPT ![t] = @ \/ s]
  <2>5. st \in [Tables -> BOOLEAN]
    <3>1. call.stopped \in [Tables -> BOOLEAN] /\ (call.stopped[t] \/ s) \in BOOLEAN
      BY <1>1 DEF CleanupShapes, CallRecords
    <3> HIDE DEF s
    <3>2. QED
      BY <1>3, <3>1
  <2>6. call' = [call EXCEPT !.pages = @ + 1, !.table = t, !.page = S, !.stopped = st]
    BY <1>1, <2>1 DEF CleanupShapes, CallRecords
  <2> HIDE DEF s, S, st
  <2>3. /\ call' \in CallRecords /\ call'.page = S /\ call'.table = t
        /\ call'.visited = call.visited /\ call'.removed = call.removed /\ call'.open
    <3>1. call' = [open |-> call.open, visited |-> call.visited,
                   pages |-> call.pages + 1, removed |-> call.removed,
                   stopped |-> st, table |-> t, page |-> S]
      BY <1>1, <2>6 DEF CleanupShapes, CallRecords
    <3>2. /\ call.open \in BOOLEAN /\ call.visited \in Nat /\ call.pages + 1 \in Nat
          /\ call.removed \in Nat
      BY <1>1 DEF CleanupShapes, CallRecords
    <3>3. QED
      BY <1>1, <1>3, <2>2, <2>5, <3>1, <3>2 DEF CallRecords
  <2>4. QED
    BY <2>3 DEF S
<1>5. /\ position' \in PositionRecords
      /\ position'.token[t] = rest
      /\ position'.exhausted[t] = (position.exhausted[t] \/ rest = NoToken)
      /\ \A u \in Tables \ {t} : /\ position'.token[u] = position.token[u]
                                 /\ position'.exhausted[u] = position.exhausted[u]
  BY <1>1, <1>2, <1>3 DEF CleanupShapes, PositionRecords
<1>6. CleanupShapes'
  BY <1>1, <1>4, <1>5 DEF CleanupShapes
<1>7. PageFits'
  <2>1. Cardinality(page(rest)) <= Limit - call.visited
    <3>1. Cardinality(page(rest)) \in Nat
      BY <1>3, PageSize
    <3>2. Cardinality(page(rest)) <= Budget /\ Budget \in Int /\ Budget <= Limit - call.visited
      BY <1>1, <1>2, BudgetFits
    <3>3. QED
      BY <1>1, <3>1, <3>2, CleanupAssumption DEF CleanupShapes, CallRecords
  <2>2. Cardinality(page(rest)) \in Nat
    BY <1>3, PageSize
  <2>3. QED
    BY <1>1, <1>4, <2>1, <2>2, CleanupAssumption DEF PageFits, CleanupShapes, CallRecords
<1>8. Counted'
  BY <1>1, <1>4 DEF CleanupInv, Counted
<1>9. Phased'
  BY <1>1, <1>4 DEF CleanupInv, Phased
<1>10. ASSUME NEW u \in Tables PROVE Covered(u)'
  <2>1. job.state = "running" /\ Covered(u)
    BY <1>1 DEF CleanupInv, Phased
  <2>2. CASE u = t
    <3>1. ~position.exhausted[t]
      BY <1>3 DEF Available
    <3>2. ASSUME NEW r \in pass.steady[t], r \notin pass.seen[t]
          PROVE  r \in page(rest) \/ (rest # NoToken /\ r >= rest)
      <4>1. r \in rows[t] /\ r >= token
        BY <1>1, <2>1, <2>2, <3>2 DEF Covered
      <4>2. r \in Int
        BY <1>1, <1>3, <4>1 DEF CleanupShapes, Keys
      <4>3. QED
        BY <1>3, <4>1, <4>2
    <3>3. QED
      BY <1>1, <1>4, <1>5, <2>1, <2>2, <3>1, <3>2 DEF Covered
  <2>3. CASE u # t
    BY <1>1, <1>4, <1>5, <2>1, <2>3 DEF Covered
  <2>4. QED
    BY <2>2, <2>3
<1>11. QED
  BY <1>6, <1>7, <1>8, <1>9, <1>10 DEF CleanupInv

\* The first row of the page is looked at; the rest of the page is still to come
\* and fits what the call may visit, so the call never drops any of it.
LEMMA VisitKeeps == ASSUME CleanupInv, Visit PROVE CleanupInv'
<1> DEFINE t == call.table
<1>1. /\ CleanupShapes /\ call.open /\ call.page # {}
      /\ position' = position /\ job' = job
  BY DEF CleanupInv, Visit
<1>2. /\ t \in Tables /\ call.page \in SUBSET Keys /\ call.visited \in Nat
      /\ call.removed \in Nat /\ pass.deleted \in Nat
      /\ rows \in [Tables -> SUBSET Keys] /\ pass \in PassRecords
      /\ call \in CallRecords
  BY <1>1 DEF CleanupShapes, CallRecords, PassRecords
<1>3. ASSUME NEW r \in call.page
      PROVE  /\ call.page \ {r} \in SUBSET Keys
             /\ Cardinality(call.page \ {r}) = Cardinality(call.page) - 1
             /\ Cardinality(call.page) \in Nat /\ Cardinality(call.page \ {r}) \in Nat
  <2>1. IsFiniteSet(call.page) /\ Cardinality(call.page) \in Nat
    BY <1>2, PageSize
  <2>2. Cardinality(call.page \ {r}) = Cardinality(call.page) - 1
    BY <2>1, FS_RemoveElement
  <2>3. call.page \ {r} \in SUBSET Keys
    BY <1>2
  <2>4. QED
    BY <2>1, <2>2, <2>3, PageSize
<1>4. call.visited < Limit
  <2>1. PICK r \in call.page : TRUE
    BY <1>1
  <2>2. /\ Cardinality(call.page) \in Nat /\ Cardinality(call.page \ {r}) \in Nat
        /\ Cardinality(call.page \ {r}) = Cardinality(call.page) - 1
    BY <1>3, <2>1
  <2>3. QED
    BY <1>2, <2>2, CleanupAssumption DEF CleanupInv, PageFits
<1>5. PICK r \in call.page : VisitRow(r)
  BY <1>4 DEF Visit
<1>6. PICK deletes \in BOOLEAN, counted \in BOOLEAN :
        /\ deletes => r \in rows[t]
        /\ counted => deletes
        /\ call' = [call EXCEPT !.visited = @ + 1, !.page = @ \ {r},
                                !.removed = IF counted THEN @ + 1 ELSE @]
        /\ rows' = IF deletes THEN [rows EXCEPT ![t] = @ \ {r}] ELSE rows
        /\ pass' = [pass EXCEPT
             !.seen[t] = @ \cup {r},
             !.steady[t] = IF deletes THEN @ \ {r} ELSE @,
             !.deleted = IF deletes THEN @ + 1 ELSE @]
  BY <1>5 DEF VisitRow
<1> HIDE DEF t
<1>7. /\ call' \in CallRecords
      /\ call'.open /\ call'.table = call.table
      /\ call'.visited = call.visited + 1 /\ call'.page = call.page \ {r}
      /\ call'.removed = IF counted THEN call.removed + 1 ELSE call.removed
  <2> DEFINE rest == call.page \ {r}
             out == IF counted THEN call.removed + 1 ELSE call.removed
  <2>1. call' = [open |-> call.open, visited |-> call.visited + 1, pages |-> call.pages,
                 removed |-> out, stopped |-> call.stopped, table |-> call.table,
                 page |-> rest]
    BY <1>2, <1>6 DEF CallRecords
  <2>2. rest \in SUBSET Keys /\ out \in Nat
    BY <1>2
  <2>3. /\ call.open \in BOOLEAN /\ call.pages \in Nat /\ call.table \in Tables
        /\ call.stopped \in [Tables -> BOOLEAN]
    BY <1>2 DEF CallRecords
  <2> HIDE DEF rest, out
  <2>4. /\ call' \in CallRecords /\ call'.open /\ call'.table = call.table
        /\ call'.visited = call.visited + 1 /\ call'.page = rest /\ call'.removed = out
    BY <1>1, <1>2, <2>1, <2>2, <2>3 DEF CallRecords
  <2>5. QED
    BY <2>4 DEF rest, out
<1>8. /\ rows' \in [Tables -> SUBSET Keys]
      /\ rows'[t] = IF deletes THEN rows[t] \ {r} ELSE rows[t]
      /\ \A u \in Tables \ {t} : rows'[u] = rows[u]
  BY <1>2, <1>6
<1>9. /\ pass' \in PassRecords
      /\ pass'.deleted = IF deletes THEN pass.deleted + 1 ELSE pass.deleted
      /\ pass'.seen[t] = pass.seen[t] \cup {r}
      /\ pass'.steady[t] = IF deletes THEN pass.steady[t] \ {r} ELSE pass.steady[t]
      /\ \A u \in Tables \ {t} :
           pass'.seen[u] = pass.seen[u] /\ pass'.steady[u] = pass.steady[u]
  <2> DEFINE st == [pass.steady EXCEPT ![t] = IF deletes THEN @ \ {r} ELSE @]
             se == [pass.seen EXCEPT ![t] = @ \cup {r}]
  <2>1. /\ st \in [Tables -> SUBSET Keys] /\ se \in [Tables -> SUBSET Keys]
        /\ se[t] = pass.seen[t] \cup {r}
        /\ st[t] = IF deletes THEN pass.steady[t] \ {r} ELSE pass.steady[t]
        /\ \A u \in Tables \ {t} : se[u] = pass.seen[u] /\ st[u] = pass.steady[u]
    BY <1>2 DEF PassRecords
  <2>2. pass' = [steady |-> st, seen |-> se,
                 deleted |-> IF deletes THEN pass.deleted + 1 ELSE pass.deleted]
    BY <1>2, <1>6 DEF PassRecords
  <2> HIDE DEF st, se
  <2>3. QED
    BY <1>2, <2>1, <2>2 DEF PassRecords
<1>10. CleanupShapes'
  BY <1>1, <1>7, <1>8, <1>9 DEF CleanupShapes
<1>11. PageFits'
  BY <1>2, <1>3, <1>7, CleanupAssumption DEF CleanupInv, PageFits
<1>12. Counted'
  <2>1. job \in JobRecords /\ Counted
    BY <1>1 DEF CleanupInv, CleanupShapes
  <2>2. QED
    BY <1>1, <1>2, <1>6, <1>7, <1>9, <2>1 DEF Counted, JobRecords
<1>13. Phased'
  BY <1>1, <1>7 DEF CleanupInv, Phased, Exhausted
<1>14. ASSUME NEW u \in Tables PROVE Covered(u)'
  <2>1. Covered(u) /\ position' = position
    BY <1>1 DEF CleanupInv, Phased
  <2>2. CASE u = t
    BY <1>6, <1>7, <1>8, <1>9, <2>1, <2>2 DEF Covered
  <2>3. CASE u # t
    BY <1>7, <1>8, <1>9, <2>1, <2>3 DEF Covered, t
  <2>4. QED
    BY <2>2, <2>3
<1>15. QED
  BY <1>10, <1>11, <1>12, <1>13, <1>14 DEF CleanupInv

LEMMA ReturnKeeps == ASSUME CleanupInv, Return, Acceptable PROVE CleanupInv'
<1>1. /\ CleanupShapes /\ Covered("security") /\ Covered("rate") /\ call.page = {}
      /\ call' = NoCall /\ rows' = rows /\ position' = position /\ pass' = pass
      /\ job' = [job EXCEPT !.visited = @ + call.visited,
                            !.removed = @ + call.removed, !.exhausted = Exhausted]
      /\ job.state = "running"
  BY DEF CleanupInv, Phased, Return, Tables
<1>2. /\ call' \in CallRecords /\ call'.page = {} /\ call'.visited = 0
      /\ call'.removed = 0 /\ ~call'.open
  BY <1>1 DEF NoCall, CallRecords, Each, Tables
<1>3. Exhausted \in BOOLEAN
  BY DEF Exhausted
<1>4. /\ job' \in JobRecords /\ job'.state = "running"
      /\ job'.visited = job.visited + call.visited
      /\ job'.removed = job.removed + call.removed
      /\ (job'.exhausted <=> Exhausted)
  <2>1. /\ job \in JobRecords /\ job.visited + call.visited \in Nat
        /\ job.removed + call.removed \in Nat
    BY <1>1 DEF CleanupShapes, JobRecords, CallRecords
  <2>2. CASE Exhausted
    <3>1. job' = [job EXCEPT !.visited = @ + call.visited,
                             !.removed = @ + call.removed, !.exhausted = TRUE]
      BY <1>1, <2>2, Exhausted = TRUE
    <3>2. QED
      BY <1>1, <2>1, <2>2, <3>1 DEF JobRecords
  <2>3. CASE ~Exhausted
    <3>1. job' = [job EXCEPT !.visited = @ + call.visited,
                             !.removed = @ + call.removed, !.exhausted = FALSE]
      BY <1>1, <2>3, Exhausted = FALSE
    <3>2. QED
      BY <1>1, <2>1, <2>3, <3>1 DEF JobRecords
  <2>4. QED
    BY <2>2, <2>3
<1>5. CleanupShapes'
  BY <1>1, <1>2, <1>4 DEF CleanupShapes
<1>6. PageFits'
  BY <1>2, CleanupAssumption, FS_EmptySet DEF PageFits
<1>7. Counted'
  BY <1>1, <1>2, <1>4
  DEF CleanupInv, Counted, CleanupShapes, JobRecords, CallRecords, PassRecords
<1>8. Phased'
  BY <1>1, <1>2, <1>4 DEF Phased, Exhausted
<1>9. \A t \in Tables : Covered(t)'
  BY <1>1 DEF Covered, Tables
<1>10. QED
  BY <1>5, <1>6, <1>7, <1>8, <1>9 DEF CleanupInv

\* A job that fails reports nothing; what it had counted stands.
LEMMA FailsKeeps ==
  ASSUME CleanupInv, Fails, UNCHANGED <<rows, position, pass>>
  PROVE  CleanupInv'
<1>1. /\ CleanupShapes /\ call' = NoCall /\ job' = [job EXCEPT !.state = "failed"]
      /\ rows' = rows /\ position' = position /\ pass' = pass
  BY DEF CleanupInv, Fails
<1>2. /\ call' \in CallRecords /\ call'.page = {} /\ call'.visited = 0
      /\ call'.removed = 0 /\ ~call'.open
  BY <1>1 DEF NoCall, CallRecords, Each, Tables
<1>3. /\ job' \in JobRecords /\ job'.state = "failed" /\ job'.visited = job.visited
      /\ job'.removed = job.removed /\ job'.exhausted = job.exhausted
  BY <1>1 DEF CleanupShapes, JobRecords
<1>4. CleanupShapes' /\ PageFits'
  BY <1>1, <1>2, <1>3, CleanupAssumption, FS_EmptySet DEF CleanupShapes, PageFits
<1>5. Counted'
  BY <1>1, <1>2, <1>3
  DEF CleanupInv, Counted, CleanupShapes, JobRecords, CallRecords, PassRecords
<1>6. Phased'
  BY <1>1, <1>2, <1>3 DEF CleanupInv, Phased, Exhausted
<1>7. QED
  BY <1>3, <1>4, <1>5, <1>6 DEF CleanupInv

LEMMA SucceedKeeps == ASSUME CleanupInv, Succeed PROVE CleanupInv'
<1>1. /\ CleanupShapes /\ ~call.open /\ job.state = "running"
      /\ job' = [job EXCEPT !.state = "passed"]
      /\ rows' = rows /\ position' = position /\ pass' = pass /\ call' = call
  BY DEF CleanupInv, Succeed
<1>2. /\ job' \in JobRecords /\ job'.visited = job.visited
      /\ job'.removed = job.removed /\ job'.exhausted = job.exhausted
  BY <1>1 DEF CleanupShapes, JobRecords
<1>3. CleanupShapes' /\ PageFits' /\ Counted' /\ Phased'
  BY <1>1, <1>2 DEF CleanupInv, CleanupShapes, PageFits, Counted, Phased, Exhausted
<1>4. \A t \in Tables : Covered(t)'
  BY <1>1 DEF CleanupInv, Covered
<1>5. QED
  BY <1>3, <1>4 DEF CleanupInv

\* A row that another writer inserts or deletes was not there all along.
LEMMA WriteKeeps ==
  ASSUME CleanupInv, NEW t \in Tables, NEW r \in 1..Places, Write(t, r)
  PROVE  CleanupInv'
<1>1. /\ CleanupShapes /\ job.state = "running"
      /\ rows' = [rows EXCEPT ![t] = IF r \in @ THEN @ \ {r} ELSE @ \cup {r}]
      /\ pass' = [pass EXCEPT !.steady[t] = @ \ {r}]
      /\ position' = position /\ call' = call /\ job' = job
  BY DEF CleanupInv, Write
<1>2. /\ rows' \in [Tables -> SUBSET Keys]
      /\ \A u \in Tables, q \in Keys : q # r \/ u # t => (q \in rows'[u] <=> q \in rows[u])
  BY <1>1 DEF CleanupShapes, Keys
<1>3. /\ pass' \in PassRecords /\ pass'.seen = pass.seen /\ pass'.deleted = pass.deleted
      /\ \A u \in Tables :
           pass'.steady[u] = IF u = t THEN pass.steady[u] \ {r} ELSE pass.steady[u]
  BY <1>1 DEF CleanupShapes, PassRecords
<1>4. CleanupShapes' /\ PageFits' /\ Counted' /\ Phased'
  BY <1>1, <1>2, <1>3
  DEF CleanupInv, CleanupShapes, PageFits, Counted, Phased, Exhausted
<1>5. ASSUME NEW u \in Tables PROVE Covered(u)'
  <2>1. Covered(u) /\ pass.steady[u] \subseteq Keys
    BY <1>1 DEF CleanupInv, CleanupShapes, PassRecords
  <2>2. QED
    BY <1>1, <1>2, <1>3, <2>1 DEF Covered
<1>6. QED
  BY <1>4, <1>5 DEF CleanupInv

---------------------------------------------------------------------------
\* While the job runs, a row of a table that was there since the pass began has
\* been looked at or is still ahead, however the pages and the calls fall
\* (cleanupExpired and runExpiryCleanup).
THEOREM CleanupInvariant == CleanupSpec => []CleanupInv
<1>1. CleanupInv /\ [CleanupNext]_cleanupVars => CleanupInv'
  <2>1. SUFFICES ASSUME CleanupInv, [CleanupNext]_cleanupVars PROVE CleanupInv'
    OBVIOUS
  <2>2. CASE CallStore
    BY <2>1, <2>2, CallStoreKeeps
  <2>3. CASE ListPage
    BY <2>1, <2>3, ListPageKeeps
  <2>4. CASE Visit
    BY <2>1, <2>4, VisitKeeps
  <2>5. CASE CallFails
    BY <2>1, <2>5, FailsKeeps DEF CallFails
  <2>6. CASE Return
    BY <2>1, <2>6, FailsKeeps, ReturnKeeps DEF Return
  <2>7. CASE Succeed
    BY <2>1, <2>7, SucceedKeeps
  <2>8. CASE Watchdog
    BY <2>1, <2>8, FailsKeeps DEF Watchdog
  <2>9. ASSUME NEW t \in Tables, NEW r \in 1..Places, Write(t, r) PROVE CleanupInv'
    BY <2>1, <2>9, WriteKeeps
  <2>10. CASE UNCHANGED cleanupVars
    BY <2>1, <2>10
    DEF cleanupVars, CleanupInv, CleanupShapes, PageFits, Counted, Phased, Exhausted, Covered
  <2>11. QED
    BY <2>1, <2>2, <2>3, <2>4, <2>5, <2>6, <2>7, <2>8, <2>9, <2>10 DEF CleanupNext
<1>2. QED
  BY <1>1, CleanupInitial, PTL DEF CleanupSpec

\* An exhausted pass has looked at every row that was there all along, and the
\* job never reports more removals than it made, for tables, limits and pages of
\* any size and any number of writes by others (cleanupExpired).
THEOREM PassesAreComplete == CleanupSpec => []PassIsComplete
<1>1. CleanupInv => PassIsComplete
  BY CoveredIsComplete
<1>2. QED
  BY <1>1, CleanupInvariant, PTL

---------------------------------------------------------------------------
(* The transcription session *)

(***************************************************************************)
(* A session that is one attempt's and of no other                         *)
(***************************************************************************)
Owned == {"closed", "active", "terminal", "attempts", "current", "socket", "flight"}

Proper(a) ==
  /\ Owned \subseteq DOMAIN a /\ {"n", "open"} \subseteq DOMAIN a.socket
  /\ a.attempts \in Nat
  /\ a.active # Unset => a.current # 0 /\ a.terminal[a.active] = Unset
  /\ a.current # 0 => a.current = a.attempts /\ a.active # Unset /\ ~a.closed
  /\ a.socket.n # 0 => a.socket.n = a.current
  /\ a.socket.open => a.socket.n # 0
  /\ a.flight # Unset => a.current # 0

\* b is what becomes of a: still the same attempt's, or nobody's.
After(a, b) ==
  /\ Proper(b) /\ b.attempts = a.attempts /\ b.closed = a.closed
  /\ b.current \in {0, a.current}

\* b differs from a in what does not say whose it is.
Aside(a, b) ==
  /\ DOMAIN b = DOMAIN a /\ b.closed = a.closed /\ b.active = a.active
  /\ b.terminal = a.terminal /\ b.attempts = a.attempts /\ b.current = a.current
  /\ b.socket = a.socket /\ b.flight = a.flight

\* Calls on their way are known for what they are.
TranscriptionInv ==
  Proper(session) /\ (session.flight # Unset => session.current \in calls)

---------------------------------------------------------------------------
LEMMA AsideIsAfter ==
  ASSUME NEW a, NEW b, Proper(a), Aside(a, b) PROVE Proper(b) /\ After(a, b)
BY DEF Proper, After, Aside

LEMMA AfterAfter ==
  ASSUME NEW a, NEW b, NEW c, After(a, b), After(b, c) PROVE After(a, c)
BY DEF After

LEMMA CleanedIsProper ==
  ASSUME NEW a, a.attempts \in Nat, a.active = Unset
  PROVE  /\ Proper(Cleaned(a)) /\ Cleaned(a).current = 0 /\ Cleaned(a).active = Unset
         /\ Cleaned(a).attempts = a.attempts /\ Cleaned(a).closed = a.closed
<1>1. /\ Owned \subseteq DOMAIN Init0 /\ Init0.current = 0 /\ Init0.socket = NoSocket
      /\ Init0.flight = Unset
  BY DEF Init0, Owned
<1>2. {"n", "open"} \subseteq DOMAIN NoSocket /\ NoSocket.n = 0 /\ NoSocket.open = FALSE
  BY DEF NoSocket
<1>3. /\ Owned \subseteq DOMAIN Cleaned(a) /\ Cleaned(a).current = 0
      /\ Cleaned(a).socket = NoSocket /\ Cleaned(a).flight = Unset
      /\ Cleaned(a).active = Unset /\ Cleaned(a).attempts = a.attempts
      /\ Cleaned(a).closed = a.closed
  BY <1>1 DEF Cleaned, Owned
<1> QED  BY <1>2, <1>3 DEF Proper

LEMMA FailAfter ==
  ASSUME NEW a, Proper(a), NEW reason
  PROVE  After(a, Fail(a, reason)) /\ (Fail(a, reason) = a \/ Fail(a, reason).current = 0)
<1> DEFINE b == [a EXCEPT !.failed = reason, !.state = "failed", !.active = Unset,
                          !.terminal = IF a.active = Unset THEN @
                                       ELSE [@ EXCEPT ![a.active] = "failed"]]
<1>1. b.active = Unset /\ b.attempts = a.attempts /\ b.closed = a.closed
  BY DEF Proper, Owned
<1>2. Fail(a, reason) \in {a, Cleaned(b)}
  BY DEF Fail
<1> HIDE DEF b
<1> QED  BY <1>1, <1>2, CleanedIsProper DEF After, Proper

LEMMA PumpAfter == ASSUME NEW a, Proper(a) PROVE After(a, Pump(a))
<1> DEFINE m == Head(a.queue)
           b == [a EXCEPT !.queue = Tail(@), !.flight = m,
                 !.updateSent = @ \/ m.kind = "update",
                 !.sent = @ + m.halves,
                 !.manual = [i \in DOMAIN @ |->
                    IF m.kind = "commit" /\ @[i].offset = m.offset
                    THEN [@[i] EXCEPT !.status = "sending"] ELSE @[i]],
                 !.socket.up = Append(@, m)]
<1>1. CASE Pump(a) \in {a, Fail(a, "configuration"), Fail(a, "backpressure")}
  BY <1>1, FailAfter DEF After
<1>2. CASE Pump(a) = b /\ a.socket.open
  BY <1>2 DEF Proper, Owned, After
<1> QED  BY <1>1, <1>2 DEF Pump

LEMMA EnqueueAfter == ASSUME NEW a, Proper(a), NEW m PROVE After(a, Enqueue(a, m))
<1> DEFINE b == [a EXCEPT !.queue = IF m.kind = "update" THEN <<m>> \o @ ELSE Append(@, m),
                          !.lastCommit = IF m.kind = "commit" THEN m.offset ELSE @]
<1>1. CASE Enqueue(a, m) \in {a, Fail(a, "backpressure")}
  BY <1>1, FailAfter DEF After
<1>2. CASE Enqueue(a, m) = Pump(b)
  <2>1. Aside(a, b)
    BY DEF Aside, Proper, Owned
  <2> HIDE DEF b
  <2>2. After(a, b) /\ Proper(b)
    BY <2>1, AsideIsAfter
  <2> QED  BY <1>2, <2>2, PumpAfter, AfterAfter
<1> QED  BY <1>1, <1>2 DEF Enqueue

LEMMA BookedAside == ASSUME NEW a, Proper(a) PROVE After(a, Booked(a))
<1>1. Aside(a, Booked(a))
  BY DEF Aside, Booked, Proper, Owned
<1> QED  BY <1>1, AsideIsAfter

LEMMA CommitAfter ==
  ASSUME NEW a, Proper(a), NEW offset, NEW isFinal
  PROVE  After(a, Commit(a, offset, isFinal))
<1> DEFINE c == [offset |-> offset, at |-> a.provided, prev |-> LastItem(a),
                 status |-> "queued", final |-> isFinal]
           q == [a EXCEPT !.manual = Append(@, c)]
           b == Enqueue(q, Message("commit", 0, offset))
           d == [b EXCEPT !.booked = Greater(@, c.at)]
<1>1. Aside(a, q)
  BY DEF Aside, Proper, Owned
<1> HIDE DEF q
<1>2. After(a, b) /\ Proper(b)
  BY <1>1, AsideIsAfter, EnqueueAfter, AfterAfter DEF After
<1>3. CASE Commit(a, offset, isFinal) \in {a, Fail(a, "protocol"), b}
  BY <1>2, <1>3, FailAfter DEF After
<1>4. CASE Commit(a, offset, isFinal) = d
  <2> HIDE DEF b, c
  <2>1. Aside(b, d)
    BY <1>2 DEF Aside, Proper, Owned
  <2> HIDE DEF d
  <2> QED  BY <1>2, <1>4, <2>1, AsideIsAfter, AfterAfter
<1> QED  BY <1>3, <1>4 DEF Commit, q

LEMMA CommitDueAfter == ASSUME NEW a, Proper(a) PROVE After(a, CommitDue(a))
<1> DEFINE b == [a EXCEPT !.due = Tail(@)]
           c == Commit(b, Head(a.due), FALSE)
<1>1. Aside(a, b)
  BY DEF Aside, Proper, Owned
<1> HIDE DEF b
<1>2. After(a, c) /\ Proper(c)
  <2>1. After(a, b) /\ Proper(b)
    BY <1>1, AsideIsAfter
  <2>2. After(b, c)
    BY <2>1, CommitAfter, Zenon
  <2> QED  BY <2>1, <2>2, AfterAfter DEF After
<1>3. CommitDue(a) \in {a, Booked(c)}
  BY DEF CommitDue, b
<1> HIDE DEF c
<1> QED  BY <1>2, <1>3, BookedAside, AfterAfter DEF After

LEMMA ProvideAfter == ASSUME NEW a, Proper(a), NEW upTo PROVE After(a, Provide(a, upTo))
<1>1. ASSUME NEW b, Proper(b) PROVE After(b, ProvidePart(b, upTo))
  <2> DEFINE gap == IF ~b.vad /\ b.due # <<>> THEN Cadence - (b.provided - b.booked) ELSE 2
             size == Lesser(Lesser(2, upTo - b.provided), Greater(1, gap))
             c == [b EXCEPT !.provided = @ + size]
             d == Enqueue(c, Message("append", size, 0))
  <2>1. ProvidePart(b, upTo) \in {b, CommitDue(d)}
    BY DEF ProvidePart
  <2> HIDE DEF size
  <2>2. Aside(b, c)
    BY <1>1 DEF Aside, Proper, Owned
  <2> HIDE DEF c
  <2>3. After(b, d) /\ Proper(d)
    BY <1>1, <2>2, AsideIsAfter, EnqueueAfter, AfterAfter DEF After
  <2> HIDE DEF d
  <2> QED  BY <1>1, <2>1, <2>3, CommitDueAfter, AfterAfter DEF After
<1> QED  BY <1>1, AfterAfter DEF Provide, After

LEMMA MaybeFinishAfter == ASSUME NEW a, Proper(a) PROVE After(a, MaybeFinish(a))
<1> DEFINE b == [a EXCEPT
         !.final = [utterance |-> a.active, offset |-> a.accepted, words |-> Words(a)],
         !.terminal[a.active] = "finalized", !.active = Unset, !.state = "idle"]
<1>1. b.active = Unset /\ b.attempts = a.attempts /\ b.closed = a.closed
  BY DEF Proper, Owned
<1>2. MaybeFinish(a) \in {a, Fail(a, "provider"), Cleaned(b)}
  BY DEF MaybeFinish
<1> HIDE DEF b
<1> QED  BY <1>1, <1>2, CleanedIsProper, FailAfter DEF After, Proper

LEMMA FinalCommitAfter == ASSUME NEW a, Proper(a) PROVE After(a, FinalCommit(a))
<1> DEFINE b == [a EXCEPT !.settlement = "outstanding"]
           c == [a EXCEPT !.settlement = "settled"]
<1>1. Aside(a, b) /\ Aside(a, c)
  BY DEF Aside, Proper, Owned
<1> DEFINE d == Commit(b, a.accepted, TRUE)
<1>2. FinalCommit(a) \in {a, d, c}
  BY DEF FinalCommit
<1> HIDE DEF b, c
<1>3. After(a, b) /\ Proper(b)
  BY <1>1, AsideIsAfter
<1>4. After(b, d)
  BY <1>3, CommitAfter, Zenon
<1> HIDE DEF d
<1> QED  BY <1>1, <1>2, <1>3, <1>4, AsideIsAfter, AfterAfter DEF After

LEMMA AwaitedAfter == ASSUME NEW a, Proper(a) PROVE After(a, Awaited(a))
<1> DEFINE b == [a EXCEPT !.finalTimer = TRUE]
<1>1. Aside(a, b)
  BY DEF Aside, Proper, Owned
<1>2. Awaited(a) \in {a, MaybeFinish(b)}
  BY DEF Awaited
<1> HIDE DEF b
<1> QED  BY <1>1, <1>2, AsideIsAfter, MaybeFinishAfter, AfterAfter DEF After

---------------------------------------------------------------------------
(* What the provider says *)

LEMMA AppendItemAside ==
  ASSUME NEW a, Proper(a), NEW offset PROVE Aside(a, AppendItem(a, offset))
BY DEF AppendItem, Aside, Proper, Owned

LEMMA AppendedAfter ==
  ASSUME NEW a, Proper(a), NEW b, Aside(a, b), NEW offset
  PROVE  After(a, MaybeFinish(AppendItem(b, offset)))
<1>1. After(a, b) /\ Proper(b)
  BY AsideIsAfter
<1>2. After(b, AppendItem(b, offset)) /\ Proper(AppendItem(b, offset))
  BY <1>1, AppendItemAside, AsideIsAfter
<1> QED  BY <1>1, <1>2, MaybeFinishAfter, AfterAfter

LEMMA VadCommittedAfter ==
  ASSUME NEW a, Proper(a), NEW stop PROVE After(a, VadCommitted(a, stop))
<1> DEFINE seen == IF stop = Unset THEN a.sent ELSE stop
           cut == Lesser(a.provided, seen)
           covered == Greater(a.covered, cut)
           before == IF a.items = <<>> THEN 0 ELSE a.items[Len(a.items)].offset
           offset == Greater(before, Lesser(a.accepted, covered \div 2))
           b == [a EXCEPT !.vadItems = @ + 1, !.covered = covered]
<1>1. VadCommitted(a, stop) \in {Fail(a, "protocol"), MaybeFinish(AppendItem(b, offset))}
  BY DEF VadCommitted
<1> HIDE DEF covered, offset
<1>2. Aside(a, b)
  BY DEF Aside, Proper, Owned
<1> HIDE DEF b
<1> QED  BY <1>1, <1>2, FailAfter, AppendedAfter

LEMMA ManualCommittedAfter ==
  ASSUME NEW a, Proper(a), NEW prev PROVE After(a, ManualCommitted(a, prev))
<1> DEFINE c == Head(a.manual)
           at == Lesser(a.provided, c.at)
           b == [a EXCEPT !.manual = Tail(@), !.covered = Greater(@, at),
                          !.settlement = IF c.final THEN "settled" ELSE @]
<1>1. ManualCommitted(a, prev) \in
        {Fail(a, "protocol"), MaybeFinish(AppendItem(b, c.offset))}
  BY DEF ManualCommitted
<1> HIDE DEF c, at
<1>2. Aside(a, b)
  BY DEF Aside, Proper, Owned
<1> HIDE DEF b
<1> QED  BY <1>1, <1>2, FailAfter, AppendedAfter

LEMMA CommittedAfter ==
  ASSUME NEW a, Proper(a), NEW item, NEW prev PROVE After(a, Committed(a, item, prev))
<1> DEFINE stop == IF a.stops = <<>> THEN Unset ELSE Head(a.stops)
           b == [a EXCEPT !.stops = IF @ = <<>> THEN @ ELSE Tail(@)]
<1>1. Committed(a, item, prev) \in
        {Fail(a, "protocol"), VadCommitted(b, stop), ManualCommitted(b, prev)}
  BY DEF Committed
<1> HIDE DEF stop
<1>2. Aside(a, b)
  BY DEF Aside, Proper, Owned
<1> HIDE DEF b
<1>3. After(a, b) /\ Proper(b)
  BY <1>2, AsideIsAfter
<1> QED  BY <1>1, <1>3, FailAfter, VadCommittedAfter, ManualCommittedAfter, AfterAfter

LEMMA EmptyCommitAfter == ASSUME NEW a, Proper(a) PROVE After(a, EmptyCommit(a))
<1> DEFINE at == Lesser(a.provided, Head(a.manual).at)
           b == [a EXCEPT !.manual = <<>>, !.settlement = "settled",
                          !.covered = Greater(@, at)]
<1>1. EmptyCommit(a) \in {Fail(a, "protocol"), MaybeFinish(b)}
  BY DEF EmptyCommit
<1> HIDE DEF at
<1>2. Aside(a, b)
  BY DEF Aside, Proper, Owned
<1> HIDE DEF b
<1>3. After(a, b) /\ Proper(b)
  BY <1>2, AsideIsAfter
<1> QED  BY <1>1, <1>3, FailAfter, MaybeFinishAfter, AfterAfter

\* Whatever the event, and however it is taken.
LEMMA HandleAfter == ASSUME NEW a, Proper(a), NEW e PROVE After(a, Handle(a, e))
<1> DEFINE created == [a EXCEPT !.created = TRUE]
           configured == [a EXCEPT !.configured = TRUE, !.readyTimer = FALSE,
                            !.state = IF a.finalizing THEN "finalizing" ELSE "ready"]
           stopped == [a EXCEPT !.stops = Append(@, a.sent)]
           added == [a EXCEPT !.items[e.item].created = TRUE]
           done == [a EXCEPT !.items[e.item].done = TRUE]
           delta == [a EXCEPT !.items[e.item].text = TRUE]
           completed == [a EXCEPT !.items[e.item].text = e.text,
                                  !.items[e.item].completed = TRUE]
<1>1. \A b \in {created, configured, stopped, added, done, delta, completed} : Aside(a, b)
  <2>1. Aside(a, created) /\ Aside(a, configured) /\ Aside(a, stopped)
    BY DEF Aside, Proper, Owned
  <2>2. Aside(a, added) /\ Aside(a, done) /\ Aside(a, delta)
    BY DEF Aside, Proper, Owned
  <2>3. Aside(a, completed)
    BY DEF Aside, Proper, Owned
  <2> HIDE DEF created, configured, stopped, added, done, delta, completed
  <2>4. QED
    BY <2>1, <2>2, <2>3
<1>2. \/ \E r \in {"protocol", "configuration", "provider"} : Handle(a, e) = Fail(a, r)
      \/ Handle(a, e) \in {created, stopped, added, done, delta}
      \/ Handle(a, e) \in {Pump(configured), MaybeFinish(completed)}
      \/ Handle(a, e) \in {Committed(a, e.item, e.prev), EmptyCommit(a)}
  BY DEF Handle
<1> HIDE DEF created, configured, stopped, added, done, delta, completed
<1>3. \A b \in {created, configured, stopped, added, done, delta, completed} :
        After(a, b) /\ Proper(b)
  BY <1>1, AsideIsAfter
<1>4. After(a, Pump(configured)) /\ After(a, MaybeFinish(completed))
  BY <1>3, PumpAfter, MaybeFinishAfter, AfterAfter
<1> QED  BY <1>2, <1>3, <1>4, FailAfter, CommittedAfter, EmptyCommitAfter

---------------------------------------------------------------------------
(* The steps *)

\* A step that leaves a session which is proper, and the same attempt's or
\* nobody's, keeps the invariant.
LEMMA SettlesKeeps ==
  ASSUME TranscriptionInv, NEW a, Proper(a), a.current \in {0, session.current}, Settles(a)
  PROVE  TranscriptionInv'
<1>1. session' = a
  BY DEF Settles
<1>2. ASSUME a.flight # Unset PROVE a.current \in calls'
  <2>1. a.current = session.current
    BY <1>2 DEF Proper
  <2>2. CASE a.flight = session.flight
    BY <1>2, <2>1, <2>2 DEF TranscriptionInv, Settles
  <2>3. CASE a.flight # session.flight
    BY <1>2, <2>3 DEF Settles
  <2> QED  BY <2>2, <2>3
<1> QED  BY <1>1, <1>2 DEF TranscriptionInv

LEMMA AfterKeeps ==
  ASSUME TranscriptionInv, NEW a, After(session, a), Settles(a) PROVE TranscriptionInv'
BY SettlesKeeps DEF After

\* An attempt begins with nothing of an earlier one.
LEMMA StartKeeps ==
  ASSUME TranscriptionInv, NEW u \in Utterances, Start(u) PROVE TranscriptionInv'
<1> DEFINE n == session.attempts + 1
           c == Cleaned(session)
           b == [c EXCEPT !.failed = Unset, !.final = Unset,
                      !.active = u, !.state = "acquiring-token", !.attempts = n,
                      !.current = n, !.readyTimer = TRUE]
<1>1. /\ session' = b /\ ~session.closed /\ session.terminal[u] = Unset
      /\ session.active = Unset
  BY DEF Start
<1>2. /\ Proper(c) /\ c.closed = session.closed /\ session.attempts \in Nat
      /\ c.current = 0
  BY <1>1, CleanedIsProper DEF TranscriptionInv, Proper
<1>3. c.terminal = session.terminal
  <2>1. "terminal" \in DOMAIN Init0
    BY DEF Init0
  <2> QED  BY <2>1 DEF Cleaned
<1>4. c.socket.n = 0 /\ c.flight = Unset
  BY <1>2 DEF Proper
<1>5. n \in Nat \ {0} /\ u # Unset
  BY <1>2, UtterancesAssumption
<1> HIDE DEF c, n
<1>6. /\ b.active = u /\ b.current = n /\ b.attempts = n /\ b.closed = c.closed
      /\ b.terminal = c.terminal /\ b.socket = c.socket /\ b.flight = c.flight
      /\ DOMAIN b = DOMAIN c
  BY <1>2 DEF Proper, Owned
<1> HIDE DEF b
<1>7. Proper(b) /\ b.flight = Unset
  BY <1>1, <1>2, <1>3, <1>4, <1>5, <1>6 DEF Proper
<1> QED  BY <1>1, <1>7 DEF TranscriptionInv

LEMMA PushAudioKeeps == ASSUME TranscriptionInv, PushAudio PROVE TranscriptionInv'
<1> DEFINE due == IF ~session.vad /\ (session.accepted + 1) % CadenceFrames = 0
                  THEN Append(session.due, session.accepted + 1) ELSE session.due
           a == [session EXCEPT !.accepted = @ + 1, !.due = due]
           b == Provide(a, 2 * a.accepted - 1)
<1>1. Settles(b)
  BY DEF PushAudio
<1> HIDE DEF due
<1>2. Aside(session, a)
  BY DEF TranscriptionInv, Aside, Proper, Owned
<1> HIDE DEF a
<1>3. After(session, b)
  BY <1>2, AsideIsAfter, ProvideAfter, AfterAfter DEF TranscriptionInv
<1> QED  BY <1>1, <1>3, AfterKeeps DEF b

LEMMA FinalizeKeeps == ASSUME TranscriptionInv, Finalize PROVE TranscriptionInv'
<1> DEFINE a == [session EXCEPT !.finalizing = TRUE, !.state = "finalizing"]
           b == Provide(a, 2 * a.accepted)
           c == FinalCommit(b)
<1>1. Settles(Awaited(c))
  BY DEF Finalize
<1>2. Aside(session, a)
  BY DEF TranscriptionInv, Aside, Proper, Owned
<1> HIDE DEF a
<1>3. After(session, b) /\ Proper(b)
  BY <1>2, AsideIsAfter, ProvideAfter, AfterAfter DEF TranscriptionInv, After
<1> HIDE DEF b
<1>4. After(session, c) /\ Proper(c)
  BY <1>3, FinalCommitAfter, AfterAfter DEF After
<1> HIDE DEF c
<1>5. After(session, Awaited(c))
  BY <1>4, AwaitedAfter, AfterAfter
<1> QED  BY <1>1, <1>5, AfterKeeps

LEMMA CancelKeeps == ASSUME TranscriptionInv, CancelUtterance PROVE TranscriptionInv'
<1> DEFINE b == [session EXCEPT !.terminal[session.active] = "cancelled",
                                !.active = Unset, !.state = "closed"]
<1>1. Settles(Cleaned(b))
  BY DEF CancelUtterance
<1>2. b.active = Unset /\ b.attempts \in Nat
  BY DEF TranscriptionInv, Proper, Owned
<1> HIDE DEF b
<1> QED  BY <1>1, <1>2, CleanedIsProper, SettlesKeeps

LEMMA CloseKeeps == ASSUME TranscriptionInv, CloseSession PROVE TranscriptionInv'
<1> DEFINE b == [session EXCEPT !.closed = TRUE, !.active = Unset,
                       !.terminal = [u \in Utterances |-> Unset],
                       !.final = Unset, !.state = "closed"]
<1>1. Settles(Cleaned(b))
  BY DEF CloseSession
<1>2. b.active = Unset /\ b.attempts \in Nat
  BY DEF TranscriptionInv, Proper, Owned
<1> HIDE DEF b
<1> QED  BY <1>1, <1>2, CleanedIsProper, SettlesKeeps

\* A token of an attempt that was given up makes no socket.
LEMMA TokenKeeps ==
  ASSUME TranscriptionInv, NEW n \in asked, NEW good \in BOOLEAN, TokenRequestAnswers(n, good)
  PROVE  TranscriptionInv'
<1> DEFINE socket == [NoSocket EXCEPT !.n = n]
           b == [session EXCEPT !.socket = socket, !.state = "connecting"]
<1>1. calls' = calls
  BY DEF TokenRequestAnswers
<1>2. CASE session' \in {session, Fail(session, "authentication")}
  <2>1. After(session, session') /\ Proper(session')
    BY <1>2, FailAfter DEF TranscriptionInv, After
  <2>2. session'.flight # Unset => session'.current = session.current
    BY <2>1 DEF After, Proper
  <2>3. session'.flight # Unset => session' = session
    BY <1>2, <2>1, FailAfter DEF TranscriptionInv, Proper
  <2> QED  BY <1>1, <2>1, <2>2, <2>3 DEF TranscriptionInv
<1>3. CASE IsCurrent(session, n) /\ session' = b
  <2>1. socket.n = n /\ socket.open = FALSE /\ {"n", "open"} \subseteq DOMAIN socket
    BY DEF NoSocket
  <2>2. n = session.current /\ ~session.closed
    BY <1>3 DEF IsCurrent
  <2> HIDE DEF socket
  <2>3. /\ DOMAIN b = DOMAIN session /\ b.socket = socket /\ b.closed = session.closed
        /\ b.active = session.active /\ b.terminal = session.terminal
        /\ b.attempts = session.attempts /\ b.current = session.current
        /\ b.flight = session.flight
    BY DEF TranscriptionInv, Proper, Owned
  <2> HIDE DEF b
  <2> QED  BY <1>1, <1>3, <2>1, <2>2, <2>3 DEF TranscriptionInv, Proper
<1> QED  BY <1>2, <1>3 DEF TokenRequestAnswers

LEMMA SocketOpensKeeps == ASSUME TranscriptionInv, SocketOpens PROVE TranscriptionInv'
<1> DEFINE a == [session EXCEPT !.socket.open = TRUE, !.state = "configuring"]
           b == Enqueue(a, Message("update", 0, 0))
<1>1. Settles(Pump(b)) /\ session.socket.n # 0
  BY DEF SocketOpens
<1>2. After(session, a) /\ Proper(a)
  BY <1>1 DEF TranscriptionInv, After, Proper, Owned
<1> HIDE DEF a
<1>3. After(session, b) /\ Proper(b)
  BY <1>2, EnqueueAfter, AfterAfter DEF After
<1> HIDE DEF b
<1>4. After(session, Pump(b))
  BY <1>3, PumpAfter, AfterAfter
<1> QED  BY <1>1, <1>4, AfterKeeps

LEMMA ClogsKeeps == ASSUME TranscriptionInv, Clogs PROVE TranscriptionInv'
<1> DEFINE a == [session EXCEPT !.socket.clogged = ~@]
<1>1. Settles(a)
  BY DEF Clogs
<1>2. After(session, a)
  BY DEF TranscriptionInv, After, Proper, Owned
<1> HIDE DEF a
<1> QED  BY <1>1, <1>2, AfterKeeps

\* A callback of an earlier attempt finds another attempt current, or none.
LEMMA SendAnswersKeeps ==
  ASSUME TranscriptionInv, NEW n \in calls, NEW good \in BOOLEAN, SendAnswers(n, good)
  PROVE  TranscriptionInv'
<1> DEFINE manual == [i \in DOMAIN session.manual |->
                    IF session.flight.kind = "commit" /\ session.manual[i].status = "sending"
                    THEN [session.manual[i] EXCEPT !.status = "sent"] ELSE session.manual[i]]
           a == [session EXCEPT !.flight = Unset, !.manual = manual]
           c == [session EXCEPT !.flight = Unset]
           f == Fail(c, "socket")
<1>1. /\ calls' = IF session'.flight # Unset /\ IsCurrent(session, n) THEN calls
                  ELSE calls \ {n}
      /\ session' = IF ~IsCurrent(session, n) THEN session
                    ELSE IF ~good THEN f ELSE Pump(a)
  BY DEF SendAnswers
<1> HIDE DEF manual
<1>2. Proper(a) /\ a.attempts = session.attempts /\ a.current = session.current
  BY DEF TranscriptionInv, Proper, Owned
<1>3. Proper(c) /\ c.attempts = session.attempts /\ c.current = session.current
  BY DEF TranscriptionInv, Proper, Owned
<1> HIDE DEF a, c
<1>4. CASE ~IsCurrent(session, n)
  <2>1. session' = session /\ calls' = calls \ {n}
    BY <1>1, <1>4
  <2>2. session.flight # Unset => session.current # n
    BY <1>4 DEF IsCurrent, TranscriptionInv, Proper
  <2> QED  BY <2>1, <2>2 DEF TranscriptionInv
<1>5. CASE IsCurrent(session, n)
  <2>1. session.current = n
    BY <1>5 DEF IsCurrent
  <2>2. Proper(session') /\ session'.current \in {0, n}
    BY <1>1, <1>2, <1>3, <1>5, <2>1, FailAfter, PumpAfter DEF After
  <2>3. session'.flight # Unset => session'.current = n /\ calls' = calls
    BY <1>1, <1>5, <2>2 DEF Proper
  <2> QED  BY <2>2, <2>3 DEF TranscriptionInv
<1> QED  BY <1>4, <1>5

LEMMA FailKeeps ==
  ASSUME TranscriptionInv, NEW reason, Settles(Fail(session, reason)) PROVE TranscriptionInv'
BY FailAfter, AfterKeeps DEF TranscriptionInv

LEMMA ReceiveKeeps == ASSUME TranscriptionInv, Receive PROVE TranscriptionInv'
<1> DEFINE a == Handle(session, Head(provider.down))
<1>1. /\ session' = a
      /\ calls' = IF a.flight = Unset \/ a.flight = session.flight THEN calls
                  ELSE calls \cup {a.current}
  BY DEF Receive
<1>2. After(session, a)
  BY HandleAfter DEF TranscriptionInv
<1> HIDE DEF a
<1>3. ASSUME a.flight # Unset PROVE a.current \in calls'
  <2>1. a.current = session.current
    BY <1>2, <1>3 DEF After, Proper
  <2> QED  BY <1>1, <1>3, <2>1 DEF TranscriptionInv
<1> QED  BY <1>1, <1>2, <1>3 DEF TranscriptionInv, After

LEMMA HearsKeeps == ASSUME TranscriptionInv, Hears PROVE TranscriptionInv'
<1> DEFINE a == [session EXCEPT !.socket.up = Tail(@)]
<1>1. session' = a /\ calls' = calls
  BY DEF Hears, Says
<1>2. After(session, a) /\ a.flight = session.flight /\ a.current = session.current
  BY DEF TranscriptionInv, After, Proper, Owned
<1> HIDE DEF a
<1> QED  BY <1>1, <1>2 DEF TranscriptionInv, After

LEMMA TranscriptionInvariantHolds ==
  /\ TranscriptionInit => TranscriptionInv
  /\ TranscriptionInv /\ [TranscriptionNext]_transcriptionVars => TranscriptionInv'
<1>1. ASSUME TranscriptionInit PROVE TranscriptionInv
  <2> PICK m \in Modes : session = [Init0 EXCEPT !.vad = m]
    BY <1>1 DEF TranscriptionInit
  <2>1. /\ Owned \subseteq DOMAIN Init0 /\ Init0.current = 0 /\ Init0.socket = NoSocket
        /\ Init0.flight = Unset /\ Init0.active = Unset /\ Init0.attempts = 0
    BY DEF Init0, Owned
  <2>2. /\ {"n", "open"} \subseteq DOMAIN NoSocket /\ NoSocket.n = 0
        /\ NoSocket.open = FALSE
    BY DEF NoSocket
  <2>3. Aside(Init0, session)
    BY <2>1 DEF Aside, Owned
  <2>4. Proper(Init0)
    BY <2>1, <2>2 DEF Proper
  <2> QED  BY <2>1, <2>3, <2>4, AsideIsAfter DEF TranscriptionInv, Aside
<1>2. ASSUME TranscriptionInv, TranscriptionNext PROVE TranscriptionInv'
  <2>1. CASE \E u \in Utterances : Start(u)
    BY <1>2, <2>1, StartKeeps
  <2>2. CASE PushAudio \/ Finalize \/ CancelUtterance \/ CloseSession
    BY <1>2, <2>2, PushAudioKeeps, FinalizeKeeps, CancelKeeps, CloseKeeps
  <2>3. CASE \E n \in asked, good \in BOOLEAN : TokenRequestAnswers(n, good)
    BY <1>2, <2>3, TokenKeeps
  <2>4. CASE SocketOpens \/ Clogs \/ Receive \/ Hears
    BY <1>2, <2>4, SocketOpensKeeps, ClogsKeeps, ReceiveKeeps, HearsKeeps
  <2>5. CASE \E n \in calls, good \in BOOLEAN : SendAnswers(n, good)
    BY <1>2, <2>5, SendAnswersKeeps
  <2>6. CASE SocketFails \/ ReadyTimer \/ FinalTimer
    BY <1>2, <2>6, FailKeeps DEF SocketFails, ReadyTimer, FinalTimer
  <2>7. CASE \/ Greets \/ Cuts \/ (\E i \in DOMAIN provider.items : Tells(i))
             \/ (\E e \in OddEvents : Errs(e))
    <3>1. session' = session /\ calls' = calls
      BY <2>7 DEF Greets, Cuts, Tells, Errs, Says
    <3> QED  BY <1>2, <3>1 DEF TranscriptionInv
  <2> QED  BY <1>2, <2>1, <2>2, <2>3, <2>4, <2>5, <2>6, <2>7 DEF TranscriptionNext
<1>3. ASSUME TranscriptionInv, UNCHANGED transcriptionVars PROVE TranscriptionInv'
  BY <1>3 DEF TranscriptionInv, transcriptionVars
<1> QED  BY <1>1, <1>2, <1>3

\* Whose the socket, the message in flight and the utterance are, in every
\* state: for any utterances, audio, limits and provider.
THEOREM AttemptsInvariant == TranscriptionSpec => []TranscriptionInv
<1>1. TranscriptionInit => TranscriptionInv
  BY TranscriptionInvariantHolds
<1>2. TranscriptionInv /\ [TranscriptionNext]_transcriptionVars => TranscriptionInv'
  BY TranscriptionInvariantHolds
<1> QED  BY <1>1, <1>2, PTL DEF TranscriptionSpec

\* An utterance that is over stays over: what comes back of an earlier
\* attempt moves neither the socket nor the state of a later one.
THEOREM StaleStaysSilent == TranscriptionSpec => []StaleIsSilent
<1>1. TranscriptionInv => StaleIsSilent
  BY DEF TranscriptionInv, Proper, StaleIsSilent
<1> QED  BY <1>1, AttemptsInvariant, PTL
=============================================================================
