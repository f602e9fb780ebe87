------------------------- MODULE GenerationService -------------------------
(* The completion of one accepted turn by packages/generation: service.ts    *)
(* shares a run among the callers of the same turn, azure-openai.ts asks the *)
(* model in three awaited steps under a deadline, and the answer is released *)
(* only when the language validator accepts it before its own timer.  Calls  *)
(* for other turns share nothing with these and are left out; so are the     *)
(* shape checks on inputs, whose failure is one of the answers.              *)
EXTENDS Naturals

CONSTANTS Requests, \* calls of complete() for the turn, each with its own signal
          Plain,    \* those of them that pass no signal
          MaxRuns   \* bound: runs started

ASSUME ServiceAssumption == MaxRuns \in Nat

VARIABLES runs,     \* runs of #executeComplete with their CompletionEntry
          live,     \* the entry in #completionPromises, 0 when there is none
          requests  \* what each call of complete() waits for and was answered

serviceVars == <<runs, live, requests>>

Runs == 1..MaxRuns
NotStarted == [phase |-> "none", aborted |-> FALSE, settled |-> FALSE,
               got |-> "none", outcome |-> "none", evidence |-> "none"]
NotAsked == [state |-> "idle", run |-> 0, aborted |-> FALSE, internal |-> FALSE,
             answer |-> "none"]

Of(cs, r) == {c \in Requests : cs[c].run = r /\ cs[c].state = "waiting"}

ServiceInit ==
  /\ runs = [r \in Runs |-> NotStarted]
  /\ live = 0
  /\ requests = [c \in Requests |-> NotAsked]

---------------------------------------------------------------------------
(* Callers *)

\* The operation's signal: the provider stops waiting, the validation gives way.
Abort(run) ==
  [run EXCEPT !.aborted = TRUE, !.settled = TRUE,
              !.phase = CASE @ \in {"token", "fetch", "body"} -> "answered"
                          [] @ = "checking" -> "raced"
                          [] OTHER -> @,
              !.got = IF run.phase \in {"token", "fetch", "body", "checking"}
                      THEN "aborted" ELSE @]

\* any caller that leaves takes the run with it
FaultyLeaves(left, rs, r) == ~rs[r].aborted /\ ~rs[r].settled

\* whether nobody who waits for run r still wants it
Leaves(left, rs, r) ==
  /\ \A d \in Of(left, r) : d \notin Plain /\ left[d].aborted
  /\ ~rs[r].aborted /\ ~rs[r].settled

\* #cancelCaller: the last caller to leave takes the run with it.
Cancel(c, rs, cs, l) ==
  LET r == cs[c].run
      left == [cs EXCEPT ![c].aborted = TRUE, ![c].state = "answered",
                         ![c].answer = "cancelled"]
      last == Leaves(left, rs, r)
  IN  /\ requests' = left
      /\ runs' = IF last THEN [rs EXCEPT ![r] = Abort(@)] ELSE rs
      /\ live' = IF last /\ l = r THEN 0 ELSE l

\* the run a call of complete() joins: the live one, else one that it starts
Joins(r) ==
  IF live # 0 THEN r = live
  ELSE /\ runs[r].phase = "none"
       /\ \A q \in Runs : q < r => runs[q].phase # "none"

\* complete() and #joinCompletion, the caller's signal aborted already or not.
Complete(c, r, gone) ==
  /\ requests[c].state = "idle" /\ (gone => c \notin Plain) /\ Joins(r)
  /\ LET rs == [runs EXCEPT ![r].phase = IF live = 0 THEN "token" ELSE @]
         cs == [requests EXCEPT ![c].state = "waiting", ![c].run = r]
     IN  IF gone THEN Cancel(c, rs, cs, r)
         ELSE runs' = rs /\ requests' = cs /\ live' = r

CallerLeaves(c) ==
  /\ requests[c].state = "waiting" /\ c \notin Plain /\ ~requests[c].aborted
  /\ Cancel(c, runs, requests, live)

---------------------------------------------------------------------------
(* The provider: token, request, body *)

Advance(r, phase, got) ==
  /\ runs' = [runs EXCEPT ![r].phase = phase, ![r].got = got]
  /\ UNCHANGED <<live, requests>>

TokenAnswers(r) ==
  /\ runs[r].phase = "token"
  /\ Advance(r, "fetch", "none") \/ Advance(r, "answered", "identity")

ResponseArrives(r) ==
  /\ runs[r].phase = "fetch"
  /\ \/ Advance(r, "body", "none")
     \/ \E stage \in {"transport", "rate_limit"} : Advance(r, "answered", stage)

BodyArrives(r) ==
  /\ runs[r].phase = "body"
  /\ \/ Advance(r, "answered", "completion")
     \/ Advance(r, "answered", "completion_json")

\* The deadline's timer aborts whatever is awaited.
Deadline(r) ==
  /\ runs[r].phase \in {"token", "fetch", "body"}
  /\ Advance(r, "answered", "timeout")

---------------------------------------------------------------------------
(* The run *)

\* The run's promise is settled and its one evidence record written.
Ended(run, outcome) ==
  [run EXCEPT !.phase = "ended", !.outcome = outcome,
              !.evidence = IF outcome \in {"success", "cancelled"} THEN outcome
                           ELSE "failure"]

\* The run goes on after the provider's answer.
ProviderReturns(r) ==
  /\ runs[r].phase = "answered"
  /\ runs' = [runs EXCEPT ![r] =
       IF @.aborted THEN Ended(@, "cancelled")
       ELSE IF @.got = "completion" THEN [@ EXCEPT !.phase = "checking", !.got = "none"]
       ELSE Ended(@, "provider-failure")]
  /\ UNCHANGED <<live, requests>>

\* #abortValidationController: a validator may, as it is aborted, abort signals
\* of callers of this very run; those are answered when the run ends.
Internal(r, who) ==
  [c \in Requests |-> IF c \in who
                     THEN [requests[c] EXCEPT !.aborted = TRUE, !.internal = TRUE]
                     ELSE requests[c]]

Abortable(r) == {c \in Of(requests, r) \ Plain : ~requests[c].aborted}

ValidatorAnswers(r) ==
  /\ runs[r].phase = "checking"
  /\ \E v \in {"accepted", "rejected", "malformed", "threw"} : Advance(r, "raced", v)

ValidationTimer(r) ==
  /\ runs[r].phase = "checking"
  /\ runs' = [runs EXCEPT ![r].phase = "raced", ![r].got = "timed-out"]
  /\ \E who \in SUBSET Abortable(r) : requests' = Internal(r, who)
  /\ UNCHANGED live

\* What the run makes of the race it awaited.
Verdict(run) ==
  CASE run.got \in {"threw", "timed-out"} -> "language-validation-failure"
    [] run.aborted \/ run.got = "aborted" -> "cancelled"
    [] run.got = "accepted" -> "success"
    [] run.got = "rejected" -> "invalid-generated-language"
    [] OTHER -> "language-validation-failure"

ValidationReturns(r) ==
  /\ runs[r].phase = "raced"
  /\ runs' = [runs EXCEPT ![r] = Ended(@, Verdict(@))]
  /\ \E who \in IF runs[r].got \in {"timed-out", "aborted"} THEN {{}}
                ELSE SUBSET Abortable(r) :
       requests' = Internal(r, who)
  /\ UNCHANGED live

\* #finish: every caller still attached is answered, and the entry is removed.
Answer(caller, outcome) ==
  IF ~caller.aborted THEN outcome
  ELSE IF caller.internal /\ outcome = "language-validation-failure" THEN outcome
  ELSE "cancelled"

Finish(r) ==
  /\ runs[r].phase = "ended" /\ ~runs[r].settled
  /\ requests' = [c \in Requests |->
       IF c \in Of(requests, r)
       THEN [requests[c] EXCEPT !.state = "answered",
                               !.answer = Answer(requests[c], runs[r].outcome)]
       ELSE requests[c]]
  /\ runs' = [runs EXCEPT ![r].settled = TRUE]
  /\ live' = IF live = r THEN 0 ELSE live

Step(r) ==
  \/ TokenAnswers(r) \/ ResponseArrives(r) \/ BodyArrives(r) \/ Deadline(r)
  \/ ProviderReturns(r) \/ ValidatorAnswers(r) \/ ValidationTimer(r)
  \/ ValidationReturns(r) \/ Finish(r)

ServiceNext ==
  \/ \E c \in Requests, r \in Runs, gone \in BOOLEAN : Complete(c, r, gone)
  \/ \E c \in Requests : CallerLeaves(c)
  \/ \E r \in Runs : Step(r)

ServiceSpec == ServiceInit /\ [][ServiceNext]_serviceVars

---------------------------------------------------------------------------
(* Properties *)

\* A caller that did not withdraw is answered what the run's one evidence
\* record says: another caller's abort never fails it, and a completion is
\* handed out only when the validator accepted it first.
CallersAgree ==
  \A c \in Requests :
    requests[c].state = "answered" /\ ~requests[c].aborted =>
      LET run == runs[requests[c].run] IN
      /\ requests[c].answer = run.outcome /\ run.outcome # "cancelled"
      /\ run.evidence = "success" <=> requests[c].answer = "success"
      /\ requests[c].answer = "success" => run.got = "accepted"

\* At most one run for the turn has callers to answer, it is the one a new
\* caller joins, and a run nobody waits for is aborted; no caller is left on an
\* entry that was removed, save one the validator's own abort withdrew.
OneLiveRun ==
  /\ \A c \in Requests : requests[c].state = "waiting" /\ ~requests[c].internal =>
       live = requests[c].run /\ ~runs[live].settled
  /\ \A r \in Runs : runs[r].phase \notin {"none", "ended"} /\ r # live => runs[r].aborted
  /\ live # 0 => Of(requests, live) # {}

\* The callers of one turn share one run and its answer.
CompletionIsShared == CallersAgree /\ OneLiveRun
=============================================================================
