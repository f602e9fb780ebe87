--------------------------- MODULE Transcription ---------------------------
(* The Azure Realtime transcription session of packages/transcription        *)
(* (azure-adapter.ts): one utterance at a time is streamed over a socket of  *)
(* its own to the provider, which cuts the audio into items (by its own      *)
(* voice detection, or at the commits the session sends) and transcribes     *)
(* them; the final transcript is released once every item is complete.       *)
(*                                                                           *)
(* Audio is counted in half frames: a pushed frame is two of them, and the   *)
(* resampler holds the last one back until it is flushed.  A text is only    *)
(* its items' order and whether each is empty.  Serialised bytes are queue   *)
(* places.  What a failing step of the code still writes after its clean-up  *)
(* is left out: no utterance is active then, and start() clears it again.    *)
EXTENDS Integers, Sequences

CONSTANTS Unset,        \* "undefined"
          Utterances,   \* utterance identifiers the relay may use, once each
          Modes,        \* the values serverVadMode = 'enabled' may have
          CadenceFrames,\* frames between two automatic commits without VAD
          MaxFrames,    \* the utterance limit, in frames
          QueuePlaces,  \* the queue limit, in messages
          MaxOdd,       \* bound: events a misbehaving provider may send
          MaxWire       \* bound: events on their way to the session

ASSUME UtterancesAssumption == Unset \notin Utterances

VARIABLES session,  \* AzureRealtimeTranscriptionSession
          asked,    \* attempts whose token request is outstanding
          calls,    \* attempts whose last send() has not called back
          provider, \* the provider's end of the current socket
          odd       \* events the provider sent out of protocol

transcriptionVars == <<session, asked, calls, provider, odd>>

Lesser(a, b) == IF a < b THEN a ELSE b
Greater(a, b) == IF a > b THEN a ELSE b

---------------------------------------------------------------------------
(* State *)

NoSocket == [n |-> 0, open |-> FALSE, clogged |-> FALSE, up |-> <<>>]

Init0 == [vad |-> FALSE, closed |-> FALSE, active |-> Unset, state |-> "idle",
          terminal |-> [u \in Utterances |-> Unset], attempts |-> 0,
          failed |-> Unset, final |-> Unset,
          current |-> 0, socket |-> NoSocket, updateSent |-> FALSE,
          created |-> FALSE, configured |-> FALSE, flight |-> Unset,
          accepted |-> 0, provided |-> 0, sent |-> 0, covered |-> 0,
          booked |-> 0, due |-> <<>>, manual |-> <<>>,
          settlement |-> "not-required", lastCommit |-> 0, stops |-> <<>>,
          vadItems |-> 0, items |-> <<>>, queue |-> <<>>,
          finalizing |-> FALSE, readyTimer |-> FALSE, finalTimer |-> FALSE]

Silent == [n |-> 0, greeted |-> FALSE, heard |-> 0, cut |-> 0, items |-> <<>>,
           down |-> <<>>]

\* #invalidateAndCleanup clears everything that belongs to one utterance.
Cleaned(a) ==
  [Init0 EXCEPT !.vad = a.vad, !.closed = a.closed, !.active = a.active,
                !.state = a.state, !.terminal = a.terminal, !.attempts = a.attempts,
                !.failed = a.failed, !.final = a.final]

\* any callback of a live utterance is taken for its own
FaultyIsCurrent(a, n) == ~a.closed /\ a.current # 0
IsCurrent(a, n) == ~a.closed /\ a.current = n

\* #fail: reported once per utterance, never after its final.
Fail(a, reason) ==
  IF a.closed \/ a.failed # Unset \/ a.final # Unset THEN a
  ELSE Cleaned([a EXCEPT !.failed = reason, !.state = "failed", !.active = Unset,
                         !.terminal = IF a.active = Unset THEN @
                                      ELSE [@ EXCEPT ![a.active] = "failed"]])

---------------------------------------------------------------------------
(* Sending *)

\* #pump: hands the head of the queue to the socket, one message at a time.
Pump(a) ==
  IF ~a.socket.open \/ a.flight # Unset \/ a.queue = <<>>
     \/ (a.updateSent /\ ~a.configured) THEN a
  ELSE IF ~a.updateSent /\ Head(a.queue).kind # "update" THEN Fail(a, "configuration")
  ELSE IF a.socket.clogged THEN Fail(a, "backpressure")
  ELSE LET m == Head(a.queue) IN
       [a EXCEPT !.queue = Tail(@), !.flight = m,
                 !.updateSent = @ \/ m.kind = "update",
                 !.sent = @ + m.halves,
                 !.manual = [i \in DOMAIN @ |->
                    IF m.kind = "commit" /\ @[i].offset = m.offset
                    THEN [@[i] EXCEPT !.status = "sending"] ELSE @[i]],
                 !.socket.up = Append(@, m)]

Message(kind, halves, offset) == [kind |-> kind, halves |-> halves, offset |-> offset]

\* #enqueueMessage, the session update going to the front.
Enqueue(a, m) ==
  IF a.failed # Unset THEN a
  ELSE IF Len(a.queue) >= QueuePlaces THEN Fail(a, "backpressure")
  ELSE Pump([a EXCEPT !.queue = IF m.kind = "update" THEN <<m>> \o @
                                ELSE Append(@, m),
                      !.lastCommit = IF m.kind = "commit" THEN m.offset ELSE @])

LastItem(a) == Len(a.items)    \* an item is known by its place; 0 is "null"

\* #enqueueCommit: a commit of everything provided so far.
Commit(a, offset, isFinal) ==
  IF a.failed # Unset THEN a
  ELSE IF offset < 1 \/ offset <= a.lastCommit THEN Fail(a, "protocol")
  ELSE LET c == [offset |-> offset, at |-> a.provided, prev |-> LastItem(a),
                 status |-> "queued", final |-> isFinal]
           b == Enqueue([a EXCEPT !.manual = Append(@, c)],
                        Message("commit", 0, offset))
       IN  IF b.failed # Unset THEN b
           ELSE [b EXCEPT !.booked = Greater(@, c.at)]

Cadence == 2 * CadenceFrames

Booked(a) == IF a.failed # Unset THEN a ELSE [a EXCEPT !.booked = a.provided]

\* the automatic commit that is due once its audio has been provided
CommitDue(a) ==
  IF a.failed # Unset \/ a.due = <<>> \/ a.provided - a.booked # Cadence THEN a
  ELSE Booked(Commit([a EXCEPT !.due = Tail(@)], Head(a.due), FALSE))

\* #enqueueProviderAudio, up to the point where so much has been provided:
\* in two parts at most, split where an automatic commit is due.
ProvidePart(a, upTo) ==
  LET gap == IF ~a.vad /\ a.due # <<>> THEN Cadence - (a.provided - a.booked) ELSE 2
      size == Lesser(Lesser(2, upTo - a.provided), Greater(1, gap))
  IN  IF a.failed # Unset \/ a.provided = upTo THEN a
      ELSE CommitDue(Enqueue([a EXCEPT !.provided = @ + size],
                             Message("append", size, 0)))

Provide(a, upTo) == ProvidePart(ProvidePart(a, upTo), upTo)

---------------------------------------------------------------------------
(* Finishing *)

Words(a) == SelectSeq([i \in DOMAIN a.items |-> i], LAMBDA i : a.items[i].text)

\* final as soon as every item known is complete
FaultySettled(a) == \A i \in DOMAIN a.items : a.items[i].completed

\* nothing is due, under way or uncovered any more
Settled(a) ==
  /\ a.due = <<>> /\ a.stops = <<>> /\ a.manual = <<>>
  /\ a.settlement = "settled" /\ a.provided = a.covered
  /\ \A i \in DOMAIN a.items : a.items[i].completed

\* #maybeFinish and #finish.
MaybeFinish(a) ==
  IF ~a.finalizing \/ a.final # Unset \/ a.active = Unset \/ ~Settled(a) THEN a
  ELSE IF Words(a) = <<>> THEN Fail(a, "provider")
  ELSE Cleaned([a EXCEPT
         !.final = [utterance |-> a.active, offset |-> a.accepted, words |-> Words(a)],
         !.terminal[a.active] = "finalized", !.active = Unset, !.state = "idle"])

---------------------------------------------------------------------------
(* Operations the relay calls *)

Start(u) ==
  /\ ~session.closed /\ session.active = Unset /\ session.terminal[u] = Unset
  /\ LET n == session.attempts + 1 IN
     /\ session' = [Cleaned(session) EXCEPT !.failed = Unset, !.final = Unset,
                      !.active = u, !.state = "acquiring-token", !.attempts = n,
                      !.current = n, !.readyTimer = TRUE]
     /\ asked' = asked \cup {n}
  /\ provider' = Silent
  /\ UNCHANGED <<calls, odd>>

\* The provider's end of a socket the session let go of is of no more interest.
Settles(a) ==
  /\ session' = a
  /\ provider' = IF a.socket.n = 0 THEN Silent ELSE provider
  /\ calls' = IF a.flight = Unset \/ a.flight = session.flight THEN calls
              ELSE calls \cup {a.current}
  /\ UNCHANGED <<asked, odd>>

PushAudio ==
  /\ ~session.closed /\ session.active # Unset /\ ~session.finalizing
  /\ session.accepted < MaxFrames
  /\ LET a == [session EXCEPT !.accepted = @ + 1,
                 !.due = IF ~session.vad /\ (session.accepted + 1) % CadenceFrames = 0
                         THEN Append(@, session.accepted + 1) ELSE @]
     IN  Settles(Provide(a, 2 * a.accepted - 1))

\* the final commit, unless everything provided is cut already
FinalCommit(a) ==
  IF a.failed # Unset THEN a
  ELSE IF a.provided > (IF a.vad THEN a.covered ELSE Greater(a.covered, a.booked))
  THEN Commit([a EXCEPT !.settlement = "outstanding"], a.accepted, TRUE)
  ELSE [a EXCEPT !.settlement = "settled"]

\* the timer of the final transcript, which may be there already
Awaited(a) ==
  IF a.failed # Unset THEN a ELSE MaybeFinish([a EXCEPT !.finalTimer = TRUE])

\* finalize(): the resampler's tail, the final commit, the timer.
Finalize ==
  /\ ~session.closed /\ session.active # Unset /\ ~session.finalizing
  /\ LET a == [session EXCEPT !.finalizing = TRUE, !.state = "finalizing"]
     IN  Settles(Awaited(FinalCommit(Provide(a, 2 * a.accepted))))

CancelUtterance ==
  /\ ~session.closed /\ session.active # Unset
  /\ Settles(Cleaned([session EXCEPT !.terminal[session.active] = "cancelled",
                                    !.active = Unset, !.state = "closed"]))

CloseSession ==
  /\ ~session.closed
  /\ Settles(Cleaned([session EXCEPT !.closed = TRUE, !.active = Unset,
                       !.terminal = [u \in Utterances |-> Unset],
                       !.final = Unset, !.state = "closed"]))

---------------------------------------------------------------------------
(* Connecting *)

\* The token request of attempt n is answered, well or not; a socket that is
\* made after the attempt was given up is terminated at once.
TokenRequestAnswers(n, good) ==
  /\ n \in asked
  /\ asked' = asked \ {n}
  /\ session' = IF ~IsCurrent(session, n) THEN session
                ELSE IF ~good THEN Fail(session, "authentication")
                ELSE [session EXCEPT !.socket = [NoSocket EXCEPT !.n = n],
                                     !.state = "connecting"]
  /\ provider' = IF IsCurrent(session, n) /\ good THEN [Silent EXCEPT !.n = n]
                 ELSE IF IsCurrent(session, n) THEN Silent ELSE provider
  /\ UNCHANGED <<calls, odd>>

SocketOpens ==
  /\ session.socket.n # 0 /\ ~session.socket.open /\ ~session.updateSent
  /\ Settles(Pump(Enqueue([session EXCEPT !.socket.open = TRUE,
                                         !.state = "configuring"],
                         Message("update", 0, 0))))

SocketFails == session.socket.n # 0 /\ Settles(Fail(session, "socket"))

\* bufferedAmount above the high water mark, or below it again.
Clogs ==
  /\ session.socket.open
  /\ Settles([session EXCEPT !.socket.clogged = ~@])

\* The callback of the send of attempt n; one of an earlier attempt does nothing.
SendAnswers(n, good) ==
  /\ n \in calls
  /\ LET a == [session EXCEPT !.flight = Unset,
                 !.manual = [i \in DOMAIN @ |->
                    IF session.flight.kind = "commit" /\ @[i].status = "sending"
                    THEN [@[i] EXCEPT !.status = "sent"] ELSE @[i]]]
         b == IF ~IsCurrent(session, n) THEN session
              ELSE IF ~good THEN Fail([session EXCEPT !.flight = Unset], "socket")
              ELSE Pump(a)
     IN  /\ session' = b
         /\ provider' = IF b.socket.n = 0 THEN Silent ELSE provider
         /\ calls' = IF b.flight # Unset /\ IsCurrent(session, n) THEN calls
                     ELSE calls \ {n}
  /\ UNCHANGED <<asked, odd>>

ReadyTimer ==
  /\ session.readyTimer /\ ~session.configured
  /\ Settles(Fail(session, "connect-timeout"))

FinalTimer ==
  /\ session.finalTimer /\ session.finalizing
  /\ Settles(Fail(session, "finalization-timeout"))

---------------------------------------------------------------------------
(* What the provider says *)

Event(kind, item, prev, text) ==
  [kind |-> kind, item |-> item, prev |-> prev, text |-> text]

\* parseObjectEvent: what an event tells of, the session or one of its items
SessionKinds == {"session.created", "session.updated", "stopped", "empty", "error"}
ItemKinds == {"added", "done", "delta", "completed", "failed"}

\* #isServerEventAllowed: the states each kind of event is admitted in.
Allowed(a, kind) ==
  /\ a.socket.open
  /\ CASE kind \in {"session.created", "session.updated"} -> a.state = "configuring"
       [] kind \in {"empty", "error"} -> a.state \in {"configuring", "ready", "finalizing"}
       [] OTHER -> a.state \in {"ready", "finalizing"} /\ a.configured

Known(a, i) == i \in DOMAIN a.items
Prev(i) == IF i > 0 THEN i - 1 ELSE 0

\* #appendCommittedItem
AppendItem(a, offset) ==
  LET id == Len(a.items) + 1 IN
  [a EXCEPT !.items = Append(@, [offset |-> offset, created |-> FALSE,
                                 done |-> FALSE, text |-> FALSE, completed |-> FALSE]),
            !.manual = [i \in DOMAIN @ |-> [@[i] EXCEPT !.prev = id]]]

Frames(halves) == (halves + 1) \div 2

\* An item the provider cut by its own voice detection.
VadCommitted(a, stop) ==
  LET seen == IF stop = Unset THEN a.sent ELSE stop
      cut == Lesser(a.provided, seen)
      covered == Greater(a.covered, cut)
      before == IF a.items = <<>> THEN 0 ELSE a.items[Len(a.items)].offset
      offset == Greater(before, Lesser(a.accepted, covered \div 2))
  IN  IF a.sent < 1 \/ cut < 1
         \/ a.vadItems >= Lesser(Greater(1, Frames(seen)), MaxFrames)
      THEN Fail(a, "protocol")
      ELSE MaybeFinish(AppendItem([a EXCEPT !.vadItems = @ + 1, !.covered = covered],
                                  offset))

\* An item cut at the oldest commit of the session itself.
ManualCommitted(a, prev) ==
  IF a.manual = <<>> THEN Fail(a, "protocol")
  ELSE LET c == Head(a.manual) IN
       IF ~(c.status = "sent" \/ (a.vad /\ c.status = "sending")) \/ c.prev # prev
       THEN Fail(a, "protocol")
       ELSE MaybeFinish(AppendItem(
              [a EXCEPT !.manual = Tail(@), !.covered = Greater(@, Lesser(a.provided, c.at)),
                        !.settlement = IF c.final THEN "settled" ELSE @],
              c.offset))

\* a commit of the session's own goes before what voice detection cut
FaultyByVoice(a) == a.vad /\ (a.manual = <<>> \/ Head(a.manual).status = "queued")

\* a stop that waits, or no commit under way, makes the item voice detection's
ByVoice(a) ==
  a.vad /\ (a.stops # <<>> \/ a.manual = <<>> \/ Head(a.manual).status = "queued")

\* #handleCommitted
Committed(a, item, prev) ==
  IF Known(a, item) \/ prev # LastItem(a) THEN Fail(a, "protocol")
  ELSE LET stop == IF a.stops = <<>> THEN Unset ELSE Head(a.stops)
           b == [a EXCEPT !.stops = IF @ = <<>> THEN @ ELSE Tail(@)]
       IN  IF ByVoice(a) THEN VadCommitted(b, stop)
           ELSE ManualCommitted(b, prev)

\* #handleBenignFinalCommitError: the final commit found nothing left to cut.
Benign(a) ==
  /\ a.vad /\ a.finalizing /\ Len(a.manual) = 1
  /\ Head(a.manual).final /\ Head(a.manual).status # "queued"

EmptyCommit(a) ==
  IF ~Benign(a) THEN Fail(a, "protocol")
  ELSE MaybeFinish([a EXCEPT !.manual = <<>>, !.settlement = "settled",
                      !.covered = Greater(@, Lesser(a.provided, Head(a.manual).at))])

\* #handleServerMessage
Handle(a, e) ==
  IF ~Allowed(a, e.kind)
  THEN Fail(a, IF e.kind = "session.updated" THEN "configuration" ELSE "protocol")
  ELSE CASE e.kind = "session.created" ->
              IF a.created \/ a.configured \/ ~a.updateSent THEN Fail(a, "protocol")
              ELSE [a EXCEPT !.created = TRUE]
         [] e.kind = "session.updated" ->
              IF a.configured \/ ~a.updateSent \/ ~a.created THEN Fail(a, "configuration")
              ELSE Pump([a EXCEPT !.configured = TRUE, !.readyTimer = FALSE,
                           !.state = IF a.finalizing THEN "finalizing" ELSE "ready"])
         [] e.kind = "committed" -> Committed(a, e.item, e.prev)
         [] e.kind = "stopped" ->
              IF ~a.vad THEN Fail(a, "protocol")
              ELSE [a EXCEPT !.stops = Append(@, a.sent)]
         [] e.kind = "added" ->
              IF ~Known(a, e.item) \/ e.prev # Prev(e.item) THEN Fail(a, "protocol")
              ELSE IF a.items[e.item].created \/ a.items[e.item].completed
              THEN Fail(a, "protocol")
              ELSE [a EXCEPT !.items[e.item].created = TRUE]
         [] e.kind = "done" ->
              IF ~Known(a, e.item) \/ e.prev # Prev(e.item) THEN Fail(a, "protocol")
              ELSE IF ~a.items[e.item].created \/ a.items[e.item].done
              THEN Fail(a, "protocol")
              ELSE [a EXCEPT !.items[e.item].done = TRUE]
         [] e.kind \in {"delta", "completed", "failed"} ->
              IF ~Known(a, e.item) THEN Fail(a, "protocol")
              ELSE IF a.items[e.item].completed THEN Fail(a, "protocol")
              ELSE IF e.kind = "failed" THEN Fail(a, "provider")
              ELSE IF e.kind = "delta" THEN [a EXCEPT !.items[e.item].text = TRUE]
              ELSE MaybeFinish([a EXCEPT !.items[e.item].text = e.text,
                                         !.items[e.item].completed = TRUE])
         [] e.kind = "empty" -> EmptyCommit(a)
         [] OTHER -> Fail(a, "protocol")    \* "error"

Receive ==
  /\ session.socket.n # 0 /\ session.socket.open /\ provider.down # <<>>
  /\ LET a == Handle(session, Head(provider.down)) IN
     /\ session' = a
     /\ provider' = IF a.socket.n = 0 THEN Silent
                    ELSE [provider EXCEPT !.down = Tail(@)]
     /\ calls' = IF a.flight = Unset \/ a.flight = session.flight THEN calls
                 ELSE calls \cup {a.current}
     /\ UNCHANGED <<asked, odd>>

---------------------------------------------------------------------------
(* The provider: what the code expects of the service *)

Says(p, events) ==
  /\ Len(p.down) + Len(events) <= MaxWire
  /\ provider' = [p EXCEPT !.down = @ \o events]
  /\ UNCHANGED <<asked, calls, odd>>

Greets ==
  /\ session.socket.open /\ ~provider.greeted
  /\ Says([provider EXCEPT !.greeted = TRUE],
          <<Event("session.created", 0, 0, FALSE)>>)
  /\ UNCHANGED session

NewItem(p) == [p EXCEPT !.items = Append(@, [told |-> "committed", text |-> FALSE]),
                        !.cut = p.heard]
CutEvent(p) == Event("committed", Len(p.items) + 1, Len(p.items), FALSE)

\* The next message of the session reaches the provider.  A commit of no more
\* than the resampler's last half frame may be refused as empty.
Hears ==
  /\ session.socket.open /\ provider.greeted /\ session.socket.up # <<>>
  /\ LET m == Head(session.socket.up)
         p == [provider EXCEPT !.heard = @ + m.halves]
         rest == p.heard - p.cut
     IN  \/ m.kind = "update" /\ Says(p, <<Event("session.updated", 0, 0, FALSE)>>)
         \/ m.kind = "append" /\ Says(p, <<>>)
         \/ m.kind = "commit" /\ rest > 0 /\ Says(NewItem(p), <<CutEvent(p)>>)
         \/ m.kind = "commit" /\ rest < 2 /\ Says(p, <<Event("empty", 0, 0, FALSE)>>)
  /\ session' = [session EXCEPT !.socket.up = Tail(@)]

\* Voice detection ends an item, at least a frame long.
Cuts ==
  /\ session.vad /\ session.socket.open
  /\ provider.heard - provider.cut >= IF provider.cut = 0 THEN 1 ELSE 2
  /\ Says(NewItem(provider), <<Event("stopped", 0, 0, FALSE), CutEvent(provider)>>)
  /\ UNCHANGED session

\* An item's life: added, perhaps heard of, then transcribed.
Tells(i) ==
  /\ session.socket.open /\ i \in DOMAIN provider.items
  /\ LET item == provider.items[i]
         tell(kind, text) ==
           Says([provider EXCEPT !.items[i] = [told |-> kind, text |-> text]],
                <<Event(kind, i, i - 1, text)>>)
     IN  \/ item.told = "committed" /\ tell("added", FALSE)
         \/ item.told = "added" /\ tell("delta", FALSE)
         \/ item.told \in {"added", "delta"} /\ \E t \in BOOLEAN : tell("completed", t)
         \/ item.told = "completed" /\ tell("done", item.text)
  /\ UNCHANGED session

\* An event out of the protocol, or a failure the provider reports.
Errs(e) ==
  /\ session.socket.open /\ odd < MaxOdd
  /\ Len(provider.down) < MaxWire
  /\ provider' = [provider EXCEPT !.down = Append(@, e)]
  /\ odd' = odd + 1
  /\ UNCHANGED <<session, asked, calls>>

OddEvents ==
  {Event(k, 0, 0, FALSE) : k \in SessionKinds}
  \cup {Event("committed", i, p, FALSE) : i \in 1..2, p \in 0..1}
  \cup {Event(k, i, i - 1, TRUE) : k \in ItemKinds, i \in 1..2}

---------------------------------------------------------------------------
TranscriptionInit ==
  /\ session \in {[Init0 EXCEPT !.vad = m] : m \in Modes} /\ provider = Silent
  /\ asked = {} /\ calls = {} /\ odd = 0

TranscriptionNext ==
  \/ \E u \in Utterances : Start(u)
  \/ PushAudio \/ Finalize \/ CancelUtterance \/ CloseSession
  \/ \E n \in asked, good \in BOOLEAN : TokenRequestAnswers(n, good)
  \/ SocketOpens \/ SocketFails \/ Clogs
  \/ \E n \in calls, good \in BOOLEAN : SendAnswers(n, good)
  \/ ReadyTimer \/ FinalTimer \/ Receive
  \/ Greets \/ Hears \/ Cuts
  \/ \E i \in DOMAIN provider.items : Tells(i)
  \/ \E e \in OddEvents : Errs(e)

TranscriptionSpec == TranscriptionInit /\ [][TranscriptionNext]_transcriptionVars

---------------------------------------------------------------------------
(* Properties *)

\* A final transcript stands for all the audio the utterance pushed: whatever
\* voice detection cut meanwhile, the provider was made to cut the rest before
\* the session called the transcript final (only the resampler's last half
\* frame, refused as too short, may be missing), and the words are those of
\* every item, in order, as the provider completed them.
FinalIsWhole ==
  [][ (session'.final # Unset /\ session.final = Unset /\ odd = 0) =>
        /\ session'.final.utterance = session.active
        /\ session'.final.offset = session.accepted
        /\ provider.cut >= 2 * session.accepted - 1
        /\ session'.final.words =
              SelectSeq([i \in DOMAIN provider.items |-> i],
                        LAMBDA i : provider.items[i].text) ]_transcriptionVars

\* A provider that keeps to the protocol is not failed for breaking it, however
\* its own cuts cross the session's final commit, save that an utterance which
\* is finalized during the handshake is lost: finalize() leaves the state that
\* admits session.created and session.updated (isServerEventAllowed).
HonestIsHeard ==
  (session.vad /\ odd' = 0 /\ session.failed = Unset
    /\ session'.failed \in {"protocol", "configuration"}) =>
    (session.finalizing /\ ~session.configured)

HonestOnceReady == [][HonestIsHeard]_transcriptionVars

\* An utterance that is over stays over: an answer, a callback or a timer of
\* an earlier attempt moves neither the socket nor the state of a later one.
StaleIsSilent ==
  /\ session.socket.n # 0 => (session.active # Unset /\ session.socket.n = session.attempts)
  /\ session.flight # Unset => session.current \in calls
  /\ session.active # Unset => session.terminal[session.active] = Unset
=============================================================================
