---------------------------- MODULE ClientState ----------------------------
(***************************************************************************)
(* The G2 client's reducer (state/index.ts): a pure function of the state  *)
(* and an event to the next state and the effects the runtime must run.    *)
(*                                                                         *)
(* A session is a number, and its epoch is that number; 0 is none.  A      *)
(* state keeps the session it names: the live one, or the one a recovery   *)
(* replaces.  An utterance has one segment, whose transcript is its last   *)
(* revision.  One target language is selected for good: the wording of     *)
(* messages and the swipes that move a highlight are left out.             *)
(***************************************************************************)
EXTENDS Naturals, Sequences

Starting ==
  [at |-> "Starting", sub |-> "", auth |-> 0, session |-> 0, utt |-> 0,
   rev |-> 0, final |-> 0, english |-> FALSE]

At(st, at, sub) ==
  [Starting EXCEPT !.at = at, !.sub = sub, !.auth = st.auth]
Ready(st, sub, session) == [At(st, "Ready", sub) EXCEPT !.session = session]
ErrorState == [Starting EXCEPT !.at = "Error"]

\* authenticationReadyState with the message authUnavailable is "unavailable"
Authenticating(st) == Ready([st EXCEPT !.auth = @ + 1], "authentication", 0)

Listening(st, utt) ==
  [At(st, "Listening", "") EXCEPT !.session = st.session, !.utt = utt]

Live(st) == st.at = "Ready" /\ st.sub = "live"
RecoveryPending(st) == st.at = "Ready" /\ st.sub = "recovery"
ActiveTurn(st) == st.at \in {"Listening", "Finalizing", "Translating", "Results"}
Pipeline(st) == st.at \in {"Finalizing", "Translating"}
Established(st) == Live(st) \/ ActiveTurn(st)
Authenticated(st) == st.at = "Ready" \/ ActiveTurn(st)

(***************************************************************************)
(* Events and effects                                                      *)
(***************************************************************************)
Event(type) ==
  [type |-> type, session |-> 0, utt |-> 0, rev |-> 0, auth |-> 0,
   word |-> ""]
SessionEvent(type, session) == [Event(type) EXCEPT !.session = session]

Effect(do, st) ==
  [do |-> do, session |-> st.session, utt |-> st.utt, auth |-> st.auth]

StaysAs(st) == [state |-> st, effects |-> << >>]
Becomes(st, effects) == [state |-> st, effects |-> effects]

StopAudio(st) ==
  IF st.at = "Listening" THEN <<Effect("stop-audio", st)>> ELSE << >>
EndSession(st) ==
  IF st.session # 0 THEN <<Effect("end-session", st)>> ELSE << >>

CleanupEffects(st) == StopAudio(st) \o EndSession(st)
BoundaryCleanup(st) ==
  <<Effect("cancel-session-boundary", st)>> \o CleanupEffects(st)

(***************************************************************************)
(* Credentials and enrolment                                               *)
(***************************************************************************)
LeavesSession(st, at, sub) ==
  IF Authenticated(st) THEN Becomes(At(st, at, sub), BoundaryCleanup(st))
  ELSE StaysAs(st)

RevocationStarted(st) ==
  IF st.at = "TargetSelection"
    THEN Becomes(At(st, "EnrollmentChecking", "revoking"), BoundaryCleanup(st))
  ELSE LeavesSession(st, "EnrollmentChecking", "revoking")

Checks(st, do) ==
  Becomes(At(st, "EnrollmentChecking", "checking"), <<Effect(do, st)>>)

IsAt(st, at, sub) == st.at = at /\ st.sub = sub
Checking(st) == IsAt(st, "EnrollmentChecking", "checking")

\* an answer counts for the authentication attempt it was asked for
MatchesAuthAttempt(st, e) ==
  /\ IsAt(st, "Ready", "authentication")
  /\ st.auth = e.auth

Authentication(st, e) ==
  IF ~MatchesAuthAttempt(st, e) THEN StaysAs(st)
  ELSE CASE e.type = "session.authenticated" ->
              Becomes(Ready(st, "initial", 0), <<Effect("start-session", st)>>)
         [] e.type = "session.auth-required" ->
              Becomes(At(st, "EnrollmentRequired", ""),
                      <<Effect("cancel-session-boundary", st)>>)
         [] e.type = "session.auth-storage-error" ->
              Becomes(At(st, "StorageError", ""),
                      <<Effect("cancel-session-boundary", st)>>)
         [] OTHER -> StaysAs(Ready(st, "unavailable", 0))

Enrolment(st, e) ==
  CASE e.type = "enrollment.ready" /\ (Checking(st) \/ st.at = "Enrolling") ->
         StaysAs(At(st, "TargetSelection", ""))
    [] \/ e.type = "enrollment.required" /\ Checking(st)
       \/ e.type \in {"enrollment.failed", "enrollment.unavailable"}
            /\ st.at = "Enrolling"
       \/ e.type = "revocation.completed"
            /\ IsAt(st, "EnrollmentChecking", "revoking") ->
         StaysAs(At(st, "EnrollmentRequired", ""))
    [] e.type = "enrollment.started" /\ st.at = "EnrollmentRequired" ->
         StaysAs(At(st, "Enrolling", ""))
    [] /\ e.type = "enrollment.storage-error"
       /\ st.at \in {"EnrollmentChecking", "EnrollmentRequired", "Enrolling"} ->
         StaysAs(At(st, "StorageError", ""))
    [] e.type = "enrollment.retry" /\ st.at = "StorageError" ->
         Checks(st, "check-enrollment")
    [] e.type = "enrollment.reset" /\ st.at = "StorageError" ->
         Checks(st, "reset-enrollment")
    [] OTHER -> StaysAs(st)

(***************************************************************************)
(* The session                                                             *)
(***************************************************************************)
EndsWith(session) ==
  IF session = 0 THEN << >>
  ELSE <<Effect("end-session", [Starting EXCEPT !.session = session])>>

SessionReady(st, e) ==
  CASE IsAt(st, "Ready", "initial") -> StaysAs(Ready(st, "live", e.session))
    [] RecoveryPending(st) /\ e.session > st.session ->
         StaysAs(Ready(st, "live", e.session))
    [] RecoveryPending(st) /\ e.session <= st.session ->
         Becomes(ErrorState,
                 EndsWith(IF e.session = st.session THEN 0 ELSE e.session))
    [] Live(st) /\ e.session # st.session ->
         Becomes(ErrorState, EndsWith(st.session))
    [] OTHER -> StaysAs(st)

SameSession(st, e) == st.session # 0 /\ st.session = e.session

TransportLost(st, e) ==
  IF SameSession(st, e) /\ Established(st)
    THEN Becomes(Ready(st, "recovery", st.session),
                 (IF ActiveTurn(st) THEN <<Effect("stop-audio", st)>>
                  ELSE << >>) \o <<Effect("start-fresh-session", st)>>)
  ELSE StaysAs(st)

RecoveryFailed(st, e) ==
  IF RecoveryPending(st) /\ SameSession(st, e) THEN StaysAs(ErrorState)
  ELSE StaysAs(st)

Ends(st) ==
  IF st.at = "Error" THEN StaysAs(st)
  ELSE Becomes(ErrorState, CleanupEffects(st))

(***************************************************************************)
(* A turn                                                                  *)
(***************************************************************************)
TurnStarted(st) ==
  Becomes(st, <<Effect("start-utterance", st), Effect("start-audio", st)>>)

Press(st, e) ==
  CASE st.at = "TargetSelection" ->
         LET to == Authenticating(st)
         IN Becomes(to, <<Effect("persist-target", to),
                          Effect("prepare-session-auth", to)>>)
    [] IsAt(st, "Ready", "unavailable") ->
         LET to == Authenticating(st)
         IN Becomes(to, <<Effect("prepare-session-auth", to)>>)
    [] e.utt # 0 /\ (Live(st) \/ (st.at = "Results" /\ e.utt # st.utt)) ->
         TurnStarted(Listening(st, e.utt))
    [] st.at = "Listening" ->
         Becomes([st EXCEPT !.at = "Finalizing"],
                 <<Effect("stop-audio", st), Effect("commit-utterance", st)>>)
    [] OTHER -> StaysAs(st)

OfTurn(st, e) == SameSession(st, e) /\ e.utt = st.utt

Segment(st, e) ==
  IF /\ OfTurn(st, e)
     /\ e.rev > st.rev
     /\ \/ st.at = "Listening" /\ e.type = "transcript.partial"
        \/ st.at = "Finalizing"
     /\ ~(e.type = "transcript.partial" /\ st.final # 0)
    THEN CASE e.word = "overflow" -> Becomes(ErrorState, CleanupEffects(st))
           [] e.type = "transcript.final" ->
                StaysAs([st EXCEPT !.rev = e.rev, !.final = e.rev])
           [] OTHER -> StaysAs([st EXCEPT !.rev = e.rev])
  ELSE StaysAs(st)

AcceptedFinal(st, e) == OfTurn(st, e) /\ st.final # 0 /\ e.rev = st.final

LanguageDecision(st, e) ==
  CASE ~(st.at = "Finalizing" /\ AcceptedFinal(st, e)) -> StaysAs(st)
    [] e.word # "target" -> StaysAs(Ready(st, "live", st.session))
    [] OTHER -> Becomes([st EXCEPT !.at = "Translating"],
                        <<Effect("request-translation", st)>>)

Awaiting(st, e, english) ==
  st.at = "Translating" /\ AcceptedFinal(st, e) /\ st.english = english

Malformed(st) == Becomes(ErrorState, CleanupEffects(st))

TranslationReady(st, e) ==
  CASE ~Awaiting(st, e, FALSE) -> StaysAs(st)
    [] e.word = "malformed" -> Malformed(st)
    [] OTHER -> Becomes([st EXCEPT !.english = TRUE],
                        <<Effect("request-suggestions", st)>>)

SuggestionsReady(st, e) ==
  CASE ~Awaiting(st, e, TRUE) -> StaysAs(st)
    [] e.word = "malformed" -> Malformed(st)
    [] OTHER -> StaysAs([st EXCEPT !.at = "Results"])

UtteranceAborted(st, e) ==
  IF ActiveTurn(st) /\ OfTurn(st, e)
    THEN Becomes(Ready(st, "live", st.session), StopAudio(st))
  ELSE StaysAs(st)

(***************************************************************************)
(* reduceClientState                                                       *)
(***************************************************************************)
AuthenticationEvents ==
  {"session.authenticated", "session.auth-required",
   "session.auth-storage-error", "session.auth-unavailable"}

Reduce(st, e) ==
  CASE e.type = "startup.ready" ->
         IF st.at = "Starting" THEN Checks(st, "check-enrollment")
         ELSE StaysAs(st)
    [] e.type \in AuthenticationEvents -> Authentication(st, e)
    [] e.type = "credential.rejected" ->
         LeavesSession(st, "EnrollmentRequired", "")
    [] e.type = "credential.storage-error" ->
         LeavesSession(st, "StorageError", "")
    [] e.type = "revocation.started" -> RevocationStarted(st)
    [] e.type = "press" -> Press(st, e)
    [] e.type = "session.ready" -> SessionReady(st, e)
    [] e.type \in {"transcript.partial", "transcript.final"} -> Segment(st, e)
    [] e.type = "language.decision" -> LanguageDecision(st, e)
    [] e.type = "translation.ready" -> TranslationReady(st, e)
    [] e.type = "suggestions.ready" -> SuggestionsReady(st, e)
    [] e.type = "transport.lost" -> TransportLost(st, e)
    [] e.type = "recovery.failed" -> RecoveryFailed(st, e)
    [] e.type = "utterance.aborted" -> UtteranceAborted(st, e)
    [] e.type \in {"fatal", "shutdown"} -> Ends(st)
    [] OTHER -> Enrolment(st, e)
=============================================================================
