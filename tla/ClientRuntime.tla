--------------------------- MODULE ClientRuntime ---------------------------
(***************************************************************************)
(* The G2 client's bridge runtime (bridge/runtime.ts): gestures of the     *)
(* glasses, calls from the phone, callbacks of the transport, answers of   *)
(* the authentication controller and timers reach the reducer through one  *)
(* queue; an operation runs its effects in order and may await the         *)
(* microphone or the host in between, while the losses and the failures of *)
(* a transport act at once.                                                *)
(*                                                                         *)
(* rt is the runtime, world is what it talks to.  A link is a transport,   *)
(* which speaks only while it is the runtime's own (ClientTransport).  The *)
(* program runs one callback to its end before the next: nothing of the    *)
(* world moves while an operation can.  A generation a callback compares   *)
(* is modelled by voiding what an older one left in the queue, which keeps *)
(* its place there and does nothing.                                       *)
(***************************************************************************)
EXTENDS ClientState

CONSTANTS
  None,
  Capacity,     \* MAX_QUEUED_EVENTS
  MaxTries,     \* RECOVERY_MAX_CONSECUTIVE_ATTEMPTS
  MaxRecent,    \* RECOVERY_MAX_ATTEMPTS_PER_WINDOW
  Calls,        \* what the wearer and the phone may do
  Outcomes,     \* what the authentication controller may answer
  Speech,       \* what the relay may say of an utterance
  Answers,      \* what the glasses may answer: TRUE, FALSE
  Faults,       \* {"lost", "retry", "stop"}: how a link may end
  MaxCalls,     \* bound: gestures and calls
  MaxLosses,    \* bound: established transports that are lost
  MaxRevision   \* bound: revisions of a transcript

VARIABLES rt, world

vars == <<rt, world>>

Op(op) ==
  [op |-> op, event |-> Event("none"), link |-> 0, attempt |-> 0,
   word |-> ""]
EventOp(event) == [Op("event") EXCEPT !.event = event]
Void == Op("void")

NoRecovery ==
  [on |-> FALSE, session |-> 0, tries |-> 0, recent |-> 0, timer |-> FALSE,
   active |-> 0, link |-> 0, deadline |-> FALSE]

ClosedMicrophone ==
  [open |-> FALSE, uncertain |-> FALSE, required |-> FALSE, pcm |-> FALSE,
   held |-> FALSE, opening |-> None, late |-> FALSE, closing |-> FALSE]

Inactive(r) == r.clean # "no"

(***************************************************************************)
(* The serialized queue                                                    *)
(***************************************************************************)
Voided(r, ops) ==
  [r EXCEPT !.queue = [i \in DOMAIN @ |-> IF @[i].op \in ops THEN Void ELSE @[i]]]

Occupied(r) == Len(r.queue) + (IF r.run = None THEN 0 ELSE 1)

(***************************************************************************)
(* The watchdog of a turn's results                                        *)
(***************************************************************************)
CancelWatchdog(r) ==
  [Voided(r, {"watchdog"}) EXCEPT !.armed = FALSE, !.dog = FALSE]

\* the deadline of the previous wait is left to run
FaultyArmWatchdog(r) == [r EXCEPT !.armed = TRUE]

ArmWatchdog(r) == [CancelWatchdog(r) EXCEPT !.armed = TRUE, !.dog = TRUE]

Progress(before, after) ==
  /\ Pipeline(before) /\ Pipeline(after)
  /\ \/ before.rev # after.rev
     \/ before.at # after.at
     \/ before.english # after.english

SyncWatchdog(r, before) ==
  CASE ~Pipeline(r.st) -> CancelWatchdog(r)
    [] Progress(before, r.st) /\ r.armed -> ArmWatchdog(r)
    [] OTHER -> r

(***************************************************************************)
(* The reducer                                                             *)
(***************************************************************************)
Dispatched(r, event) ==
  SyncWatchdog([r EXCEPT !.st = Reduce(r.st, event).state], r.st)

Running(r, todo) ==
  [r EXCEPT !.run = IF todo = << >> THEN None
                    ELSE [todo |-> todo, at |-> "go", why |-> ""]]

Then(do, link) == [Effect(do, Starting) EXCEPT !.session = link]

(***************************************************************************)
(* Transports and authentication                                           *)
(***************************************************************************)
IsCurrent(r, link) == r.link # None /\ r.link.n = link

Retired(r) == [r EXCEPT !.link = None, !.mic.pcm = FALSE]

Invalidated(r) == [Voided(r, {"auth"}) EXCEPT !.auth = None]

Launched(r, for, attempt) ==
  [Invalidated(r) EXCEPT !.auth = [for |-> for, attempt |-> attempt]]

StartsSession(r, attempt) ==
  [Retired(r) EXCEPT
     !.links = @ + 1,
     !.link = [n |-> r.links + 1, attempt |-> attempt, stage |-> "starting",
               session |-> 0, utt |-> 0, phase |-> "none", rev |-> 0]]

CancelTimers(r) == [r EXCEPT !.rec.timer = FALSE, !.rec.deadline = FALSE]

NoContext(r) ==
  [Voided(r, {"attempt", "failed"}) EXCEPT
     !.rec = NoRecovery, !.loss = FALSE]

RequestCleanup(r) ==
  IF r.clean \in {"no", "idle"}
    THEN [NoContext(CancelWatchdog(Invalidated(r))) EXCEPT
            !.clean = "start", !.link = None, !.queue = << >>, !.run = None,
            !.mic.pcm = IF r.link = None THEN @ ELSE FALSE]
  ELSE r

Shuts(r) == RequestCleanup(Retired(Dispatched(r, Event("fatal"))))

EffectFailure(r) == IF Inactive(r) THEN r ELSE Shuts(CancelTimers(r))

Enqueued(r, op) ==
  CASE Inactive(r) -> r
    [] Occupied(r) >= Capacity -> Shuts(r)
    [] OTHER -> [r EXCEPT !.queue = Append(@, op)]

(***************************************************************************)
(* Recovery                                                                *)
(***************************************************************************)
FailRecovery(r) ==
  LET quiet == NoContext(CancelWatchdog(CancelTimers(r)))
  IN IF RecoveryPending(r.st)
       THEN Dispatched(quiet, SessionEvent("recovery.failed", r.st.session))
     ELSE quiet

BudgetAvailable(r) == r.rec.tries < MaxTries /\ r.rec.recent < MaxRecent

ScheduleAttempt(r) ==
  CASE Inactive(r) \/ ~r.rec.on \/ ~RecoveryPending(r.st) -> r
    [] BudgetAvailable(r) -> [r EXCEPT !.rec.timer = TRUE]
    [] OTHER -> FailRecovery(r)

StartAttempt(r) ==
  CASE Inactive(r) \/ ~RecoveryPending(r.st) -> r
    [] ~BudgetAvailable(r) -> FailRecovery(r)
    [] OTHER ->
         Launched([r EXCEPT !.rec.tries = @ + 1, !.rec.recent = @ + 1,
                            !.rec.active = r.rec.tries + 1, !.rec.link = 0,
                            !.rec.deadline = FALSE],
                  "recovery", r.rec.tries + 1)

FinishFailure(r, word) ==
  LET ended == [r EXCEPT !.rec.active = 0, !.rec.link = 0,
                         !.rec.deadline = FALSE]
  IN IF word = "stop" \/ ~BudgetAvailable(ended) THEN FailRecovery(ended)
     ELSE ScheduleAttempt(ended)

AttemptFails(r, link, attempt, word) ==
  IF r.rec.on /\ r.rec.active = attempt /\ r.rec.link \in {0, link}
    THEN Enqueued(IF IsCurrent(r, link) THEN Retired(r) ELSE r,
                  [Op("failed") EXCEPT !.attempt = attempt, !.word = word])
  ELSE r

AttemptCompleted(r, op) ==
  IF /\ r.rec.on /\ r.rec.active # 0
     /\ r.rec.active = op.attempt /\ r.rec.link = op.link
    THEN [r EXCEPT !.rec.active = 0, !.rec.link = 0, !.rec.tries = 0,
                   !.rec.timer = FALSE, !.rec.deadline = FALSE]
  ELSE r

\* no deadline watches the attempt
FaultyWatched(r) == [r EXCEPT !.rec.link = r.links]

Watched(r) == [r EXCEPT !.rec.link = r.links, !.rec.deadline = TRUE]

RecoveryOutcome(r, word) ==
  LET given == [r EXCEPT !.rec.active = 0]
      event == Event(IF word = "required" THEN "credential.rejected"
                     ELSE "credential.storage-error")
  IN CASE r.rec.active = 0 \/ ~RecoveryPending(r.st) -> r
       [] word = "unavailable" -> FinishFailure(r, "retry")
       [] word = "ready" -> Watched(StartsSession(r, r.rec.active))
       [] OTHER -> Running(Dispatched(given, event),
                           Reduce(r.st, event).effects)

BeginRecovery(r, session) ==
  [NoContext(CancelTimers(r)) EXCEPT
     !.rec = [NoRecovery EXCEPT !.on = TRUE, !.session = session,
                                !.recent = r.rec.recent],
     !.loss = r.loss]

(***************************************************************************)
(* Results of an effect: it continues, it awaits, or it throws             *)
(***************************************************************************)
Continues(r) == Running(r, IF r.run = None THEN << >> ELSE r.run.todo)
Awaits(r, at, why) == [r EXCEPT !.run.at = at, !.run.why = why]
Throws(r) ==
  LET stopped == [r EXCEPT !.run = None]
  IN IF RecoveryPending(r.st) THEN FailRecovery(stopped)
     ELSE EffectFailure(stopped)

(***************************************************************************)
(* The microphone                                                          *)
(***************************************************************************)
\* every close passes through the one that is pending
CloseAudio(r) == [r EXCEPT !.mic.closing = TRUE]

OwnsTurn(r, turn) ==
  /\ IsCurrent(r, turn.link)
  /\ r.st.at = "Listening"
  /\ r.st.session = turn.session /\ r.st.utt = turn.utt

NeedsClosing(m) == m.open \/ m.uncertain \/ m.required

OpensAudio(r, asked) ==
  LET turn == [link |-> IF r.link = None THEN 0 ELSE r.link.n,
               session |-> asked.session, utt |-> asked.utt]
  IN IF r.mic.open \/ ~OwnsTurn(r, turn) THEN Continues(r)
     ELSE Awaits([r EXCEPT !.mic.required = TRUE, !.mic.opening = turn,
                           !.mic.held = TRUE],
                 "open-start", "")

StartAudio(r, effect) ==
  IF r.mic.closing THEN Awaits(r, "close-start", effect)
  ELSE OpensAudio(r, effect)

ShutDone(r, why) ==
  IF why = "stop" THEN Continues(r)
  ELSE ScheduleAttempt([Continues(r) EXCEPT !.loss = FALSE])

ShutFails(r, why) ==
  IF why = "stop" THEN Throws(r)
  ELSE FailRecovery([Continues(r) EXCEPT !.loss = FALSE])

LastClose(r, why) ==
  IF NeedsClosing(r.mic) THEN Awaits(CloseAudio(r), "mic-last", why)
  ELSE ShutDone(r, why)

AfterOpening(r, why) ==
  IF r.mic.closing THEN Awaits(r, "mic-close", why) ELSE LastClose(r, why)

ShutsMicrophone(r, why) ==
  LET muted == [r EXCEPT !.mic.pcm = FALSE]
  IN IF r.mic.held THEN Awaits(muted, "mic-open", why)
     ELSE AfterOpening(muted, why)

\* frames flow until the glasses have closed
FaultyMuted(r) == [r EXCEPT !.mic.required = TRUE]

Muted(r) == [r EXCEPT !.mic.pcm = FALSE, !.mic.required = TRUE]

StopsAudio(r) ==
  LET m == r.mic
  IN CASE ~m.open /\ m.closing -> Awaits(r, "close-stop", "")
       [] ~m.held /\ ~NeedsClosing(m) -> Continues(r)
       [] ~m.open /\ m.held -> ShutsMicrophone(Muted(r), "stop")
       [] OTHER -> Awaits(CloseAudio(Muted(r)), "close-stop", "")

OpenWaits == {"open-start", "mic-open"}
CloseWaits == {"close-start", "close-stop", "mic-close", "mic-last", "mic-fail"}

\* an await ends with an answer, with a refusal, or at its deadline
Resumed(r, ok) ==
  LET at == r.run.at
      why == r.run.why
  IN CASE at \in {"exit", "open-start", "close-stop"} /\ ok -> Continues(r)
       [] at = "exit" /\ ~ok -> Continues(r)
       [] at = "open-start" /\ ~ok ->
            IF r.mic.held /\ r.loss
              THEN Continues([r EXCEPT !.mic.uncertain = TRUE])
            ELSE Throws([r EXCEPT !.mic.uncertain = @ \/ r.mic.held,
                                  !.mic.held = FALSE])
       [] at = "close-start" /\ ok -> OpensAudio(r, why)
       [] at = "mic-open" /\ ok -> AfterOpening(r, why)
       [] at = "mic-open" /\ ~ok ->
            IF NeedsClosing(r.mic) THEN Awaits(CloseAudio(r), "mic-fail", why)
            ELSE ShutFails(r, why)
       [] at = "mic-close" /\ ok -> LastClose(r, why)
       [] at = "mic-last" /\ ok -> ShutDone(r, why)
       [] at \in {"mic-fail", "mic-close", "mic-last"} -> ShutFails(r, why)
       [] OTHER -> Throws(r)

Waiting(r, waits) == r.run # None /\ r.run.at \in waits

(***************************************************************************)
(* runEffects                                                              *)
(***************************************************************************)
Commits(r, e) ==
  LET told == IF r.link.phase = "speaking"
                THEN [r EXCEPT !.link.phase = "committed"] ELSE r
  IN IF Pipeline(r.st) /\ r.st.session = e.session /\ r.st.utt = e.utt
       THEN ArmWatchdog(told)
     ELSE told

CancelBoundary(r) ==
  NoContext(CancelWatchdog(CancelTimers(Invalidated(Retired(r)))))

Runs(r, e) ==
  LET d == e.do
  IN CASE d \in {"check-enrollment", "reset-enrollment"} ->
            Continues(Launched(r, "enrollment", 0))
       [] d = "prepare-session-auth" ->
            Continues(Launched(r, "session", e.auth))
       [] d = "launch-enroll" /\ r.st.at = "Enrolling" ->
            Continues(Launched(r, "pairing", 0))
       [] d = "launch-revoke" /\ IsAt(r.st, "EnrollmentChecking", "revoking") ->
            Continues(Launched(r, "revocation", 0))
       [] d = "cancel-session-boundary" -> StopsAudio(CancelBoundary(r))
       [] d = "start-session" -> Continues(StartsSession(r, 0))
       [] d = "start-fresh-session" /\ RecoveryPending(r.st) ->
            ShutsMicrophone(BeginRecovery(r, e.session), "recover")
       [] d = "start-utterance" /\ r.link # None ->
            Continues([r EXCEPT !.link.utt = e.utt, !.link.rev = 0,
                                !.link.phase = "speaking"])
       [] d = "start-audio" -> StartAudio(r, e)
       [] d = "stop-audio" -> StopsAudio(r)
       [] d = "commit-utterance" /\ r.link # None -> Continues(Commits(r, e))
       [] d = "end-session" /\ r.link # None ->
            Continues([r EXCEPT !.link.stage = "ended"])
       [] d = "close-after-fatal" /\ IsCurrent(r, e.session) ->
            RequestCleanup(Retired(r))
       [] OTHER -> Continues(r)

EffectStep ==
  /\ rt.run # None /\ rt.run.at = "go"
  /\ rt' = Runs([rt EXCEPT !.run.todo = Tail(@)], Head(rt.run.todo))
  /\ UNCHANGED world

(***************************************************************************)
(* Operations of the queue                                                 *)
(***************************************************************************)
Handles(r, event, op) ==
  LET red == Reduce(r.st, event)
      r1 == Dispatched(r, event)
      r2 == CASE op.attempt # 0 /\ event.type = "session.ready" /\ Live(r1.st) ->
                   AttemptCompleted(r1, op)
              [] op.attempt # 0 /\ r1.st.at = "Error" -> CancelTimers(r1)
              [] OTHER -> r1
  IN Running(r2, red.effects \o
                   IF event.type = "fatal" /\ op.link # 0
                     THEN <<Then("close-after-fatal", op.link)>> ELSE << >>)

\* an event is for the transport that sent it, while it is still the current
FaultyForCurrent(r, op) == TRUE

ForCurrent(r, op) == op.link = 0 \/ IsCurrent(r, op.link)

PressEvent(r) ==
  [Event("press") EXCEPT
     !.utt = IF Live(r.st) \/ r.st.at = "Results" THEN r.utts + 1 ELSE 0]

Lost(r, op) ==
  LET r1 == Dispatched(r, op.event)
  IN IF RecoveryPending(r1.st)
       THEN Running(r1, Reduce(r.st, op.event).effects)
     ELSE [r1 EXCEPT !.loss = FALSE]

WatchdogBarks(r) ==
  LET event == [Event("utterance.aborted") EXCEPT
                  !.session = r.st.session, !.utt = r.st.utt]
      quiet == [r EXCEPT !.armed = FALSE,
                         !.link = IF @ = None THEN @
                                  ELSE [@ EXCEPT !.phase = "done"]]
  IN IF Pipeline(r.st) THEN Handles(quiet, event, Void) ELSE r

Enrolls(r) ==
  IF r.st.at = "EnrollmentRequired"
    THEN Running(Dispatched(r, Event("enrollment.started")),
                 <<Then("launch-enroll", 0)>>)
  ELSE r

Revokes(r) ==
  LET red == RevocationStarted(r.st)
  IN IF red.state = r.st THEN r
     ELSE Running(Dispatched(r, Event("revocation.started")),
                  red.effects \o <<Then("launch-revoke", 0)>>)

Performs(r, op) ==
  CASE op.op = "event" -> IF ForCurrent(r, op) THEN Handles(r, op.event, op)
                          ELSE r
    [] op.op = "press" ->
         LET event == PressEvent(r)
         IN Handles([r EXCEPT !.utts = IF event.utt = 0 THEN @ ELSE @ + 1],
                    event, op)
    [] op.op = "exit" ->
         [r EXCEPT !.run = [todo |-> << >>, at |-> "exit", why |-> ""]]
    [] op.op = "lost" -> Lost(r, op)
    [] op.op = "auth" -> Handles(r, op.event, op)
    [] op.op = "recovery" -> RecoveryOutcome(r, op.word)
    [] op.op = "attempt" -> StartAttempt(r)
    [] op.op = "failed" -> IF r.rec.active = op.attempt
                             THEN FinishFailure(r, op.word) ELSE r
    [] op.op = "watchdog" -> WatchdogBarks(r)
    [] op.op = "enroll" -> Enrolls(r)
    [] op.op = "revoke" -> Revokes(r)
    [] op.op \in {"retry", "reset"} ->
         Handles(r, Event(IF op.op = "retry" THEN "enrollment.retry"
                          ELSE "enrollment.reset"), op)
    [] OTHER -> r

TakeStep ==
  /\ rt.run = None /\ rt.queue # << >>
  /\ rt' = Performs([rt EXCEPT !.queue = Tail(@)], Head(rt.queue))
  /\ UNCHANGED world

(***************************************************************************)
(* Cleanup: the microphone first, then the page of the glasses             *)
(***************************************************************************)
CleanEnd(r) ==
  LET m == r.mic
      uncertainWork == m.uncertain /\ (m.open \/ m.required \/ m.held)
      work == ~m.uncertain /\ (r.page \/ m.open \/ m.required \/ m.held)
  IN CASE (r.failed \/ uncertainWork) /\ r.again ->
            [r EXCEPT !.clean = "start", !.again = FALSE]
       [] (r.failed \/ uncertainWork) /\ ~r.again -> [r EXCEPT !.clean = "idle"]
       [] work -> [r EXCEPT !.clean = "start"]
       [] OTHER -> [r EXCEPT !.clean = "cleaned", !.again = FALSE]

CleanPage(r, failed) ==
  LET r1 == [r EXCEPT !.failed = failed]
  IN IF r.page THEN [r1 EXCEPT !.clean = "page"] ELSE CleanEnd(r1)

CleanAudio(r, missed) ==
  IF ~missed /\ ~NeedsClosing(r.mic) THEN CleanPage(r, FALSE)
  ELSE [CloseAudio(r) EXCEPT !.mic.pcm = FALSE, !.missed = missed,
                             !.clean = "close"]

CleanResumed(r, ok) ==
  CASE r.clean = "open" ->
         CleanAudio([r EXCEPT !.mic.uncertain = @ \/ r.mic.held,
                              !.mic.held = FALSE], ~ok)
    [] r.clean = "close" ->
         CleanPage([r EXCEPT !.mic.required = @ \/ (ok /\ r.missed)],
                   ~ok \/ r.missed)
    [] OTHER -> CleanEnd([r EXCEPT !.page = @ /\ ~ok,
                                   !.failed = @ \/ ~ok])

CleanStep ==
  /\ rt.clean = "start"
  /\ rt' = IF rt.mic.held THEN [rt EXCEPT !.clean = "open"]
           ELSE CleanAudio(rt, FALSE)
  /\ UNCHANGED world

Internal == EffectStep \/ TakeStep \/ CleanStep

(***************************************************************************)
(* The world moves when the program waits for it                           *)
(***************************************************************************)
Idle ==
  /\ IF rt.run = None THEN rt.queue = << >> ELSE rt.run.at # "go"
  /\ rt.clean # "start"

Call(call) ==
  /\ Idle /\ world.calls < MaxCalls
  /\ world' = [world EXCEPT !.calls = @ + 1]
  /\ rt' = IF call = "leave"
             THEN RequestCleanup(CancelWatchdog(CancelTimers(rt)))
           ELSE Enqueued(rt, Op(call))

EnrolmentEvent(word) ==
  Event(CASE word = "ready" -> "enrollment.ready"
          [] word = "required" -> "enrollment.required"
          [] word = "storage-error" -> "enrollment.storage-error"
          [] OTHER -> "enrollment.unavailable")

SessionAuthEvent(word, attempt) ==
  [Event(CASE word = "ready" -> "session.authenticated"
           [] word = "required" -> "session.auth-required"
           [] word = "storage-error" -> "session.auth-storage-error"
           [] OTHER -> "session.auth-unavailable")
   EXCEPT !.auth = attempt]

OutcomeEvent(asked, word) ==
  CASE asked.for = "session" -> SessionAuthEvent(word, asked.attempt)
    [] asked.for = "pairing" /\ word = "required" -> Event("enrollment.failed")
    [] asked.for = "revocation" ->
         Event(IF word = "storage-error" THEN "enrollment.storage-error"
               ELSE "revocation.completed")
    [] OTHER -> EnrolmentEvent(word)

AuthAnswers(word) ==
  /\ Idle /\ rt.auth # None
  /\ LET quiet == [rt EXCEPT !.auth = None]
     IN rt' = Enqueued(quiet,
                IF rt.auth.for = "recovery"
                  THEN [Op("recovery") EXCEPT !.word = word]
                ELSE [Op("auth") EXCEPT
                        !.event = OutcomeEvent(rt.auth, word)])
  /\ UNCHANGED world

FromLink(event) ==
  [EventOp(event) EXCEPT !.link = rt.link.n, !.attempt = rt.link.attempt]

LinkIs(stages) == Idle /\ rt.link # None /\ rt.link.stage \in stages

LinkReady ==
  /\ LinkIs({"starting"})
  /\ LET n == world.session + 1
     IN /\ world' = [world EXCEPT !.session = n]
        /\ rt' = Enqueued([rt EXCEPT !.link.stage = "live", !.link.session = n],
                          FromLink(SessionEvent("session.ready", n)))

Abrupt(link, event) ==
  IF link.attempt # 0 /\ RecoveryPending(rt.st)
    THEN AttemptFails(rt, link.n, link.attempt, "retry")
  ELSE Enqueued([Retired(CancelWatchdog(CancelTimers(rt))) EXCEPT !.loss = TRUE],
                [Op("lost") EXCEPT !.event = event])

Refused(link, word) ==
  IF link.attempt # 0 /\ RecoveryPending(rt.st)
    THEN AttemptFails(rt, link.n, link.attempt, word)
  ELSE Enqueued([rt EXCEPT !.link.stage = "dead"],
                [FromLink(Event("fatal")) EXCEPT !.attempt = 0])

LinkEnds(fault) ==
  /\ LinkIs(IF fault = "lost" THEN {"live"} ELSE {"starting", "live"})
  /\ rt' = CASE fault = "lost" ->
                  Abrupt(rt.link, SessionEvent("transport.lost", rt.link.session))
             [] fault = "rejected" ->
                  Enqueued([rt EXCEPT !.link.stage = "dead"],
                           FromLink(Event("credential.rejected")))
             [] OTHER -> Refused(rt.link, fault)
  /\ fault = "lost" => world.losses < MaxLosses
  /\ world' = [world EXCEPT !.losses = IF fault = "lost" THEN @ + 1 ELSE @]

SpeechEvent(type, word) ==
  [Event(type) EXCEPT !.session = rt.link.session, !.utt = rt.link.utt,
                      !.word = word, !.rev = rt.link.rev]

Says(type, word, from, to, more) ==
  /\ type \in Speech /\ LinkIs({"live"})
  /\ rt.link.phase \in from /\ rt.link.rev + more <= MaxRevision
  /\ rt' = Enqueued([rt EXCEPT !.link.phase = to, !.link.rev = @ + more],
                    FromLink([SpeechEvent(type, word) EXCEPT !.rev = @ + more]))
  /\ UNCHANGED world

Transcribes ==
  \/ Says("transcript.partial", "", {"speaking"}, "speaking", 1)
  \/ Says("transcript.partial", "", {"committed"}, "committed", 1)
  \/ Says("transcript.final", "", {"committed", "final"}, "final", 1)
Decides ==
  \/ Says("language.decision", "target", {"final"}, "decided", 0)
  \/ Says("language.decision", "other", {"final"}, "done", 0)
Answered ==
  \/ Says("translation.ready", "", {"decided"}, "translated", 0)
  \/ Says("suggestions.ready", "", {"translated"}, "done", 0)
Aborts ==
  Says("utterance.aborted", "",
       {"speaking", "committed", "final", "decided", "translated"}, "done", 0)

(***************************************************************************)
(* Timers                                                                  *)
(***************************************************************************)
AttemptTimer ==
  /\ Idle /\ rt.rec.timer
  /\ rt' = Enqueued([rt EXCEPT !.rec.timer = FALSE], Op("attempt"))
  /\ UNCHANGED world

ReadyDeadline ==
  /\ Idle /\ rt.rec.deadline /\ rt.rec.active # 0
  /\ rt' = AttemptFails([rt EXCEPT !.rec.deadline = FALSE],
                        rt.rec.link, rt.rec.active, "retry")
  /\ UNCHANGED world

WatchdogTimer ==
  /\ Idle /\ rt.dog
  /\ rt' = Enqueued([rt EXCEPT !.dog = FALSE], Op("watchdog"))
  /\ UNCHANGED world

WindowPasses ==
  /\ Idle /\ rt.rec.recent > 0
  /\ rt' = [rt EXCEPT !.rec.recent = @ - 1]
  /\ UNCHANGED world

RunTimeout ==
  /\ rt.run # None /\ rt.run.at # "go"
  /\ rt' = Resumed(rt, FALSE)
  /\ UNCHANGED world

CleanTimeout ==
  /\ rt.clean \in {"open", "close", "page"}
  /\ rt' = CleanResumed(rt, FALSE)
  /\ UNCHANGED world

(***************************************************************************)
(* Answers of the glasses                                                  *)
(***************************************************************************)
Settled(r, waits, cleaning, ok) ==
  CASE Waiting(r, waits) -> Resumed(r, ok)
    [] r.clean \in cleaning -> CleanResumed(r, ok)
    [] OTHER -> r

Opened(r) ==
  [r EXCEPT !.mic.opening = None, !.mic.held = FALSE, !.mic.late = FALSE,
            !.mic.uncertain = FALSE]

RetryCleanup(r) ==
  IF r.clean \in {"idle", "cleaned"} THEN [r EXCEPT !.clean = "start"]
  ELSE [r EXCEPT !.again = Inactive(r)]

OpenAnswers(word) ==
  /\ Idle /\ rt.mic.opening # None /\ ~rt.mic.late
  /\ LET m == rt.mic
         owns == OwnsTurn(rt, m.opening) /\ ~Inactive(rt)
         on == [rt EXCEPT !.mic.open = TRUE, !.mic.required = TRUE,
                          !.mic.uncertain = FALSE, !.mic.pcm = owns]
         off == [rt EXCEPT !.mic.required = m.open /\ @]
         torn == [rt EXCEPT !.mic.required = TRUE]
     IN rt' = CASE word = "yes" /\ owns ->
                     Settled(Opened(on), OpenWaits, {"open"}, TRUE)
                [] word = "yes" /\ ~owns ->
                     [CloseAudio(on) EXCEPT !.mic.late = TRUE]
                [] word = "no" -> Settled(Opened(off), OpenWaits, {"open"}, FALSE)
                [] OTHER -> Settled(RetryCleanup(Opened(torn)),
                                    OpenWaits, {"open"}, FALSE)
  /\ world' = [world EXCEPT !.device = @ \/ word = "yes"]

CloseAnswers(word) ==
  /\ Idle /\ rt.mic.closing
  /\ LET ok == word = "yes"
         known == rt.clean # "cleaned"
         shut == [rt EXCEPT !.mic.closing = FALSE,
                            !.mic.open = @ /\ ~(ok /\ known),
                            !.mic.pcm = @ /\ ~(ok /\ known),
                            !.mic.required =
                              (@ /\ ~(ok /\ known)) \/ (word = "throws" /\ known)]
         late == IF rt.mic.late THEN Opened(shut) ELSE shut
         retried == IF rt.clean = "idle" THEN RequestCleanup(late) ELSE late
     IN rt' = Settled(retried,
                      CloseWaits \cup IF rt.mic.late THEN OpenWaits ELSE {},
                      {"close"} \cup IF rt.mic.late THEN {"open"} ELSE {}, ok)
  /\ world' = [world EXCEPT !.device = @ /\ word # "yes",
                            !.refused = word # "yes"]

PageAnswers(word) ==
  /\ Idle
  /\ \/ Waiting(rt, {"exit"}) /\ rt' = Resumed(rt, TRUE)
     \/ rt.clean = "page" /\ rt' = CleanResumed(rt, word = "yes")
  /\ UNCHANGED world

(***************************************************************************)
(* Specification                                                           *)
(***************************************************************************)
Booted ==
  [st |-> Starting, link |-> None, links |-> 0, utts |-> 0,
   queue |-> << >>, run |-> None, auth |-> None, rec |-> NoRecovery,
   loss |-> FALSE, armed |-> FALSE, dog |-> FALSE, mic |-> ClosedMicrophone,
   clean |-> "no", page |-> TRUE, failed |-> FALSE, missed |-> FALSE,
   again |-> FALSE]

Outside ==
  [calls |-> 0, session |-> 0, losses |-> 0, device |-> FALSE,
   refused |-> FALSE]

Init ==
  /\ rt = Handles(Booted, Event("startup.ready"), Void)
  /\ world = Outside

Glasses ==
  \E word \in Answers : OpenAnswers(word) \/ CloseAnswers(word) \/ PageAnswers(word)

Relay ==
  \/ LinkReady
  \/ \E fault \in Faults : LinkEnds(fault)
  \/ Transcribes \/ Decides \/ Answered \/ Aborts

Timers ==
  \/ AttemptTimer \/ ReadyDeadline \/ WatchdogTimer \/ WindowPasses
  \/ RunTimeout \/ CleanTimeout

Next ==
  \/ Internal
  \/ \E call \in Calls : Call(call)
  \/ \E word \in Outcomes : AuthAnswers(word)
  \/ Relay \/ Timers \/ Glasses

\* the program runs, its timers fire, a start of a transport settles, and so
\* does an operation of the controller; the glasses may never answer
Fairness ==
  /\ WF_vars(Internal)
  /\ WF_vars(AttemptTimer) /\ WF_vars(ReadyDeadline) /\ WF_vars(WatchdogTimer)
  /\ WF_vars(RunTimeout) /\ WF_vars(CleanTimeout)
  /\ WF_vars(\E word \in Outcomes : AuthAnswers(word))

Spec == Init /\ [][Next]_vars /\ Fairness

(***************************************************************************)
(* Properties                                                              *)
(***************************************************************************)
\* An established session has the transport that carries it, or what ends it
\* is in the queue (handleTransportLostSynchronously, queueTransportEvent).
SessionIsCarried ==
  Established(rt.st) /\ ~Inactive(rt) =>
    \/ rt.link # None /\ rt.link.session = rt.st.session
    \/ \E i \in DOMAIN rt.queue :
         rt.queue[i].op = "lost" /\ rt.queue[i].event.session = rt.st.session

\* The microphone feeds a transport only in the turn it was opened for.
HeardOnlyInTurn ==
  Idle /\ rt.mic.open /\ rt.mic.pcm /\ rt.link # None /\ ~Inactive(rt) =>
    /\ rt.st.at = "Listening"
    /\ rt.link.session = rt.st.session /\ rt.link.utt = rt.st.utt

\* A runtime that calls itself cleaned has left no microphone on, unless the
\* glasses still owe an answer or refused the last close (cleanupOnce).
CleanedIsSilent ==
  /\ rt.clean = "cleaned"
  /\ rt.mic.opening = None \/ rt.mic.late
  /\ ~rt.mic.closing
  => ~world.device \/ world.refused

\* The microphone is on only for a turn: what it hears goes to the transport
\* that turn began on, and the end of the runtime turns it off.
MicrophoneInTurn == HeardOnlyInTurn /\ CleanedIsSilent

\* A turn that was committed leaves its pipeline: with results, an abort, a
\* loss, or at its deadline (armResultPipelineWatchdog).
PipelineSettles == Pipeline(rt.st) ~> (~Pipeline(rt.st) \/ Inactive(rt))

\* A recovery ends: with a session, at its budget, or with the credential.
RecoverySettles ==
  RecoveryPending(rt.st) ~> (~RecoveryPending(rt.st) \/ Inactive(rt))
=============================================================================
