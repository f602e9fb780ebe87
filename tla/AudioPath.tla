------------------------------ MODULE AudioPath ------------------------------
(***************************************************************************)
(* The path of a sample from the microphone to the transcription provider: *)
(* the client transport's active utterance (g2-client/src/transport), its  *)
(* queue, the WebSocket both ways, the metering in the host's message      *)
(* handler (apps/relay/src/host.ts) and the session core                   *)
(* (apps/relay/src/session.ts).                                            *)
(*                                                                         *)
(* The host runs the handler of one message at a time, so hearing one      *)
(* message is one action; what else may happen while it waits is in        *)
(* RelaySession.  What becomes of a committed utterance is there too: here *)
(* it comes to an end at some point.  Once either end gives the session    *)
(* up, nothing happens any more.  The relay of this repository only ever   *)
(* asks for the flow state "normal"; it may ask for "pause" here as the    *)
(* protocol allows, for the sake of the client's half.  "abort" it never   *)
(* asks for, here either.                                                  *)
(***************************************************************************)
EXTENDS AudioFraming, FiniteSets

CONSTANTS
  Utterances, None,
  Clients,           \* kinds of client: "honest", the one of this repository,
                     \* one "repeating" its utterance.start, "any"
  PushBytes,         \* sizes of the microphone's callbacks
  Flows,             \* flow states the relay may ask for
  AckSamples,        \* 16 samples for each of ackIntervalMs
  GrantSamples,      \* MAX_AUDIO_GRANT_SAMPLES
  ResolvedCapacity,  \* RECENTLY_RESOLVED_UTTERANCE_CAPACITY
  RetiredCapacity,   \* RETIRED_UTTERANCE_CAPACITY
  MaxWire            \* bound on messages on their way, in each direction

VARIABLES
  kind,        \* the kind of client
  mic,         \* the transport's #active
  q,           \* its queue
  used,        \* utterances the client has started
  retired,     \* #retiredUtterances
  up, down,    \* messages on their way
  meter,       \* connection.audio: utterance, acceptor and grant
  core,        \* the core's #active
  resolved,    \* #recentlyResolvedUtteranceIds
  open,        \* whether the session is still up
  paid,        \* history: samples reserved in the durable store
  heard,       \* history: the frames the provider was given, of the last utterance
  quarrel      \* history: why an end gave up or aborted

clientVars == <<mic, q, used, retired>>
relayVars == <<meter, core, resolved>>
vars == <<kind, clientVars, up, down, relayVars, open, paid, heard, quarrel>>

Silent == [u |-> None, phase |-> "idle", paused |-> FALSE, commit |-> FALSE,
           frames |-> <<>>]
Unmetered == [u |-> None, acceptor |-> NewAcceptor(None), through |-> 0,
              at |-> 0, fresh |-> FALSE]
NoTurn == [u |-> None, acceptor |-> NewAcceptor(None), ackedAt |-> 0,
           committed |-> FALSE, final |-> 0]

Init ==
  /\ kind \in Clients
  /\ mic = Silent /\ q = NewQueue /\ used = {} /\ retired = <<>>
  /\ up = <<>> /\ down = <<>>
  /\ meter = Unmetered /\ core = NoTurn /\ resolved = <<>>
  /\ open = TRUE
  /\ paid = [u \in Utterances |-> {}]
  /\ heard = [u |-> None, frames |-> <<>>]
  /\ quarrel = None

Control(k, u, at) == [kind |-> k, u |-> u, at |-> at, flow |-> "normal"]
Audio(f) == [kind |-> "audio", frame |-> f]
AudioOf(fs) == [i \in DOMAIN fs |-> Audio(fs[i])]

\* a set bounded in size that forgets its oldest member, as a sequence
Remember(s, u, capacity) ==
  LET all == Append(SelectSeq(s, LAMBDA x : x # u), u) IN
  IF Len(all) > capacity THEN Tail(all) ELSE all
Remembers(s, u) == \E i \in DOMAIN s : s[i] = u

Sends(ms) == up' = up \o ms /\ Len(up') =< MaxWire

(***************************************************************************)
(* The client                                                              *)
(***************************************************************************)
Client == open /\ kind # "any" /\ UNCHANGED <<kind, down, relayVars, open, paid, heard>>

StartUtterance(u) ==
  /\ Client
  /\ mic.u = None /\ u \notin used
  /\ mic' = [Silent EXCEPT !.u = u, !.phase = "streaming"]
  /\ q' = NewQueue
  /\ used' = used \cup {u}
  /\ Sends(<<Control("start", u, 0)>>)
  /\ UNCHANGED <<retired, quarrel>>

\* #isTerminalUtterance
Committed == mic.phase = "committing" /\ ~mic.commit
IsTerminal == mic.phase = "cancelling" \/ Committed

Cancellation(qq) == <<Control("cancel", mic.u, qq.captured)>>

\* #sendUtteranceCancel, behind frames that were sent, with the queue at qq
SendCancel(frames, qq, retire) ==
  /\ mic.phase \in {"streaming", "committing"}
  /\ Sends(AudioOf(frames) \o Cancellation(qq))
  /\ IF Committed \/ (retire /\ mic.phase = "committing")
     THEN /\ mic' = Silent
          /\ q' = NewQueue
          /\ retired' = Remember(retired, mic.u, RetiredCapacity)
     ELSE /\ mic' = [mic EXCEPT !.phase = "cancelling", !.commit = FALSE,
                                !.frames = <<>>]
          /\ q' = qq
          /\ UNCHANGED retired

\* abortActive
Abort(frames, qq, why) == SendCancel(frames, qq, FALSE) /\ quarrel' = why

\* commitActive, with frames to drain first; half a sample left over aborts
CommitActive(frames, qq) ==
  LET sent == frames \o FlushFrames(mic.u, qq)
      rest == Flushed(mic.u, qq) IN
  \/ qq.odd = 1 /\ Abort(sent, rest, "incomplete")
  \/ /\ qq.odd = 0
     /\ Sends(AudioOf(sent) \o <<Control("commit", mic.u, rest.captured)>>)
     /\ q' = rest
     /\ mic' = [mic EXCEPT !.phase = "committing", !.commit = FALSE,
                           !.paused = FALSE, !.frames = <<>>]
     /\ UNCHANGED <<retired, quarrel>>

PushPcm(bytes) ==
  /\ Client
  /\ mic.phase = "streaming"
  /\ \/ Overflows(q, bytes) /\ Abort(<<>>, q, "overflow")
     \/ /\ ~Overflows(q, bytes)
        /\ LET fs == mic.frames \o PushFrames(mic.u, q, bytes) IN
           /\ q' = Pushed(mic.u, q, bytes)
           /\ mic' = [mic EXCEPT !.frames = IF mic.paused THEN fs ELSE <<>>]
           /\ Sends(IF mic.paused THEN <<>> ELSE AudioOf(fs))
        /\ UNCHANGED <<retired, quarrel>>
  /\ UNCHANGED used

CommitUtterance ==
  /\ Client
  /\ mic.phase = "streaming"
  /\ \/ /\ mic.paused
        /\ mic' = [mic EXCEPT !.phase = "committing", !.commit = TRUE]
        /\ UNCHANGED <<q, up, retired, quarrel>>
     \/ ~mic.paused /\ CommitActive(mic.frames, q)
  /\ UNCHANGED used

CancelUtterance(retire) ==
  /\ Client
  /\ mic.u # None
  /\ SendCancel(<<>>, q, retire)
  /\ UNCHANGED <<used, quarrel>>

\* the session.end of the client, or its socket lost
Hangs ==
  /\ open
  /\ open' = FALSE
  /\ UNCHANGED <<kind, clientVars, up, down, relayVars, paid, heard, quarrel>>

(***************************************************************************)
(* The client hears the relay                                              *)
(***************************************************************************)
Hearing(m) ==
  /\ open /\ kind # "any" /\ down # <<>> /\ m = Head(down)
  /\ down' = Tail(down)
  /\ UNCHANGED <<kind, used, relayVars, open, paid, heard>>

\* forgets the utterances it retired
FaultyStrayAck(m) ==
  /\ m.u # mic.u
  /\ IF mic.u = None \/ IsTerminal
     THEN UNCHANGED <<mic, q, retired, up, quarrel>>
     ELSE Abort(<<>>, q, "stray ack")

\* an ack of another utterance than the active one
StrayAck(m) ==
  /\ m.u # mic.u
  /\ IF mic.u = None \/ IsTerminal \/ Remembers(retired, m.u)
     THEN UNCHANGED <<mic, q, retired, up, quarrel>>
     ELSE Abort(<<>>, q, "stray ack")

\* what an ack that applies does: to hold back or to go on
Flow(m, qq) ==
  \/ /\ m.flow = "pause"
     /\ mic' = [mic EXCEPT !.paused = TRUE]
     /\ q' = qq
     /\ UNCHANGED <<up, retired, quarrel>>
  \/ /\ m.flow = "normal" /\ ~mic.commit
     /\ mic' = [mic EXCEPT !.paused = FALSE, !.frames = <<>>]
     /\ q' = qq
     /\ Sends(AudioOf(mic.frames))
     /\ UNCHANGED <<retired, quarrel>>
  \/ m.flow = "normal" /\ mic.commit /\ CommitActive(mic.frames, qq)

\* handleAcknowledgement
HearAck ==
  \E m \in {down[i] : i \in DOMAIN down} :
    /\ Hearing(m) /\ m.kind = "ack"
    /\ \/ StrayAck(m)
       \/ m.u = mic.u /\ IsTerminal /\ UNCHANGED <<mic, q, retired, up, quarrel>>
       \/ /\ m.u = mic.u /\ ~IsTerminal
          /\ IF Stale(q, m.at) THEN Flow(m, q)
             ELSE IF Boundary(q, m.at) THEN Flow(m, Acknowledged(q, m.at))
             ELSE Abort(<<>>, q, "invalid ack")

\* an event that ends an utterance: handleMessage, retireActiveForEvent
HearEnd ==
  \E m \in {down[i] : i \in DOMAIN down} :
    /\ Hearing(m) /\ m.kind = "ended"
    /\ retired' = IF Remembers(retired, m.u) THEN retired
                  ELSE Remember(retired, m.u, RetiredCapacity)
    /\ IF m.u = mic.u THEN mic' = Silent /\ q' = NewQueue
                      ELSE UNCHANGED <<mic, q>>
    /\ UNCHANGED <<up, quarrel>>

(***************************************************************************)
(* The relay                                                               *)
(***************************************************************************)
Samples(from, count) == from .. (from + count - 1)

\* the handler of a message
Relay(k) ==
  /\ open /\ up # <<>> /\ Head(up).kind = k
  /\ up' = Tail(up)
  /\ UNCHANGED <<kind, clientVars>>

Answers(ms) ==
  down' = down \o ms /\ Len(down') =< MaxWire /\ UNCHANGED <<open, quarrel>>

Ack(u, at, flow) ==
  <<[kind |-> "ack", u |-> u, at |-> at, flow |-> flow]>>
Ended(u) == <<Control("ended", u, 0)>>

\* #terminate
Terminates(why) ==
  open' = FALSE /\ quarrel' = why /\ UNCHANGED <<down, core, resolved, heard>>

\* forgets to say so
FaultyFinishTurn ==
  /\ core' = NoTurn
  /\ resolved' = Remember(resolved, core.u, ResolvedCapacity)
  /\ Answers(<<>>)

\* #finishActive, and the message that the utterance ended
FinishTurn ==
  /\ core' = NoTurn
  /\ resolved' = Remember(resolved, core.u, ResolvedCapacity)
  /\ Answers(Ended(core.u))

\* reserveGrant succeeds
Reserves(u, from) ==
  paid' = [paid EXCEPT ![u] = @ \cup Samples(from, GrantSamples)]
NoReserve == UNCHANGED paid

HearStart ==
  /\ Relay("start")
  /\ LET u == Head(up).u IN
     \/ NoReserve /\ Terminates("state") /\ UNCHANGED meter
     \/ /\ Reserves(u, 0)
        /\ meter' = [u |-> u, acceptor |-> NewAcceptor(u),
                     through |-> GrantSamples, at |-> 0, fresh |-> TRUE]
        /\ \/ /\ core.u = None
              /\ core' = [NoTurn EXCEPT !.u = u, !.acceptor = NewAcceptor(u)]
              /\ heard' = [u |-> u, frames |-> <<>>]
              /\ Answers(<<>>)
              /\ UNCHANGED resolved
           \/ core.u = None /\ Terminates("provider")
           \/ core.u = u /\ Answers(<<>>) /\ UNCHANGED <<core, resolved, heard>>
           \/ core.u \notin {None, u} /\ Terminates("conflict")

\* #ackThreshold
Threshold == Min({AckSamples, MaxReplay, MaxUnacked})

\* handleBinary, when it acks through an offset
CoreAcks(at) ==
  /\ core' = [core EXCEPT !.ackedAt = at]
  /\ Answers(Ack(core.u, at, "normal"))

TakesAudio == core.u # None /\ ~core.committed

\* handleBinary of a frame the acceptor accepts
CoreForwards(f) ==
  LET a == Accepted(core.acceptor, f) IN
  \/ Terminates("provider")
  \/ /\ heard' = [heard EXCEPT !.frames = Append(@, f)]
     /\ UNCHANGED resolved
     /\ IF a.offset - core.ackedAt < Threshold
        THEN core' = [core EXCEPT !.acceptor = a] /\ Answers(<<>>)
        ELSE /\ core' = [core EXCEPT !.acceptor = a, !.ackedAt = a.offset]
             /\ Answers(Ack(core.u, a.offset, "normal"))

\* handleBinary
CoreAudio(f) ==
  \/ ~TakesAudio /\ Terminates("protocol")
  \/ TakesAudio /\ Continues(core.acceptor, f) /\ CoreForwards(f)
  \/ /\ TakesAudio /\ Repeats(core.acceptor, f)
     /\ CoreAcks(core.acceptor.offset)
     /\ UNCHANGED <<resolved, heard>>
  \/ /\ TakesAudio
     /\ ~Continues(core.acceptor, f) /\ ~Repeats(core.acceptor, f)
     /\ Terminates(IF ~FitsPayload(f) THEN "protocol"
                   ELSE IF ~FitsUtterance(f) THEN "duration" ELSE "conflict")

Metered(f) == meter.u = f.u /\ Continues(meter.acceptor, f)
Remaining == meter.through - meter.at

\* a grant with anything left covers a whole frame
FaultyCharge(f) ==
  /\ f.offset = meter.at
  /\ \/ /\ meter.at < meter.through /\ meter.fresh
        /\ meter' = [meter EXCEPT !.at = @ + f.count,
                                  !.acceptor = Accepted(@, f)]
        /\ NoReserve
     \/ /\ meter.at >= meter.through
        /\ meter' = [meter EXCEPT !.at = @ + f.count, !.fresh = TRUE,
                                  !.through = @ + GrantSamples,
                                  !.acceptor = Accepted(@, f)]
        /\ Reserves(f.u, meter.through)

\* the grant covers the frame, or is used up and renewed where it ends
Charge(f) ==
  /\ f.offset = meter.at
  /\ \/ /\ f.count =< Remaining /\ meter.fresh
        /\ meter' = [meter EXCEPT !.at = @ + f.count,
                                  !.acceptor = Accepted(@, f)]
        /\ NoReserve
     \/ /\ f.count > Remaining /\ (Remaining = 0 \/ meter.fresh)
        /\ meter' = [meter EXCEPT !.at = @ + f.count, !.fresh = TRUE,
                                  !.through = @ + GrantSamples,
                                  !.acceptor = Accepted(@, f)]
        /\ Reserves(f.u, meter.through)

CannotCharge(f) ==
  \/ f.offset # meter.at
  \/ f.count =< Remaining /\ ~meter.fresh
  \/ f.count > Remaining

HearAudio ==
  /\ Relay("audio")
  /\ LET f == Head(up).frame IN
     \/ ~Metered(f) /\ NoReserve /\ CoreAudio(f) /\ UNCHANGED meter
     \/ Metered(f) /\ Charge(f) /\ CoreAudio(f)
     \/ /\ Metered(f) /\ CannotCharge(f)
        /\ NoReserve /\ Terminates("state") /\ UNCHANGED meter

\* #handleUtteranceCommit
CoreCommit(m) ==
  \/ core.u # m.u /\ Terminates("protocol")
  \/ /\ core.u = m.u /\ core.committed
     /\ IF core.final # m.at THEN Terminates("protocol")
        ELSE CoreAcks(m.at) /\ UNCHANGED <<resolved, heard>>
  \/ /\ core.u = m.u /\ ~core.committed
     /\ IF core.acceptor.offset # m.at THEN Terminates("protocol")
        ELSE \/ Terminates("provider")
             \/ /\ core' = [core EXCEPT !.committed = TRUE, !.final = m.at,
                                        !.ackedAt = Max({@, m.at})]
                /\ Answers(IF m.at =< core.ackedAt THEN <<>>
                           ELSE Ack(m.u, m.at, "normal"))
                /\ UNCHANGED <<resolved, heard>>

HearCommit ==
  /\ Relay("commit")
  /\ CoreCommit(Head(up))
  /\ meter' = Unmetered
  /\ UNCHANGED paid

\* #handleUtteranceCancel
HearCancel ==
  /\ Relay("cancel")
  /\ LET u == Head(up).u IN
     \/ /\ core.u = u
        /\ FinishTurn
        /\ meter' = IF meter.u = u THEN Unmetered ELSE meter
        /\ UNCHANGED heard
     \/ /\ core.u # u
        /\ IF Remembers(resolved, u)
           THEN Answers(<<>>) /\ UNCHANGED <<core, resolved, heard>>
           ELSE Terminates("protocol")
        /\ UNCHANGED meter
  /\ UNCHANGED paid

ByItself == open /\ UNCHANGED <<kind, clientVars, up, paid, heard>>

\* a committed utterance comes to its end: not the target language, or its
\* suggestions are ready
Resolve ==
  /\ ByItself
  /\ core.committed
  /\ FinishTurn
  /\ UNCHANGED meter

ChangeFlow ==
  /\ ByItself
  /\ TakesAudio
  /\ down = <<>>  \* bounds the acks on their way
  /\ \E flow \in Flows :
       Answers(Ack(core.u, core.acceptor.offset, flow))
  /\ core' = [core EXCEPT !.ackedAt = core.acceptor.offset]
  /\ UNCHANGED <<meter, resolved>>

\* the TTL of the grant
GrantExpires ==
  /\ open /\ meter.fresh
  /\ meter' = [meter EXCEPT !.fresh = FALSE]
  /\ UNCHANGED <<kind, clientVars, up, down, core, resolved, open, paid, heard,
                 quarrel>>

(***************************************************************************)
(* Other clients                                                           *)
(***************************************************************************)
\* the protocol calls utterance.start idempotent
RepeatStart ==
  /\ Client
  /\ kind = "repeating"
  /\ mic.phase = "streaming"
  /\ up = <<>> /\ down = <<>> /\ used = {mic.u}  \* bounds the repeats
  /\ Sends(<<Control("start", mic.u, 0)>>)
  /\ UNCHANGED <<clientVars, quarrel>>

Anything ==
  {Control(k, u, 0) : k \in {"start", "cancel"}, u \in Utterances}
    \cup {Control("commit", u, at) : u \in Utterances, at \in {0, 2}}
    \cup {Audio(Frame(u, seq, offset, count, data)) :
            u \in Utterances, seq \in 0..1, offset \in {0, 2, 3},
            count \in {2, 3}, data \in 0..1}

SendAnything ==
  /\ open /\ kind = "any"
  /\ up = <<>>
  /\ \E m \in Anything : Sends(<<m>>)
  /\ down' = <<>>
  /\ UNCHANGED <<kind, clientVars, relayVars, open, paid, heard, quarrel>>

ClientNext ==
  \/ \E u \in Utterances : StartUtterance(u)
  \/ \E bytes \in PushBytes : PushPcm(bytes)
  \/ CommitUtterance
  \/ \E retire \in BOOLEAN : CancelUtterance(retire)
  \/ Hangs
  \/ HearAck
  \/ HearEnd
  \/ RepeatStart
  \/ SendAnything

RelayHears == HearStart \/ HearAudio \/ HearCommit \/ HearCancel
RelayNext == RelayHears \/ Resolve \/ ChangeFlow \/ GrantExpires

Next == ClientNext \/ RelayNext

Spec == Init /\ [][Next]_vars

\* messages arrive and are handled
FairSpec == Spec /\ WF_vars(RelayHears) /\ WF_vars(HearAck \/ HearEnd)

(***************************************************************************)
(* Properties                                                              *)
(***************************************************************************)
\* The provider hears one stream: whatever the client sends, the frames it was
\* given follow each other without a gap, an overlap or a frame given twice.
\* With the client of this repository they are the samples the microphone
\* captured, each at its place: callbacks of any size, half samples,
\* coalescing, pauses and the two acceptors lose, repeat and reorder nothing.
OneStream ==
  LET h == heard.frames IN
  \A i \in DOMAIN h :
    /\ h[i].u = heard.u
    /\ h[i].offset = IF i = 1 THEN 0 ELSE End(h[i - 1])
    /\ kind = "honest" => h[i].data = h[i].offset

\* Every sample the provider was given lies in a grant the durable store made
\* for its utterance: docs/adr/0001-protocol-v1.md asks for a renewal before
\* any sample beyond the grant is forwarded, and calls utterance.start
\* idempotent.
ForwardedIsPaid ==
  \A i \in DOMAIN heard.frames :
    Samples(heard.frames[i].offset, heard.frames[i].count) \subseteq paid[heard.u]

\* ForwardedIsPaid, with this repository's client: also when a frame reaches
\* beyond its grant, and whenever grants run out or are refused.
HonestAudioIsPaid == kind = "honest" => ForwardedIsPaid

\* The two ends never fall out over a turn of this repository's client: its
\* frames and commits are never refused, and no ack, however late, is invalid
\* or stray to it.  What is left are a grant that ran out, a provider's
\* failure, more audio than the limits allow, and half a sample at the end.
NeverAtOdds ==
  kind = "honest" => quarrel \in {None, "state", "provider", "overflow", "incomplete"}

HeardOf(u) == IF heard.u # u \/ heard.frames = <<>> THEN 0
              ELSE End(heard.frames[Len(heard.frames)])

\* The client lets go of a sample only after the provider was given it, and
\* still holds every other one, in frames without a gap or not framed yet.
NothingLetGo ==
  mic.u # None =>
    /\ q.acked =< HeardOf(mic.u)
    /\ q.captured = q.encoded + q.pending
    /\ LET r == q.retained IN
       /\ \A i \in DOMAIN r : r[i].offset = IF i = 1 THEN q.acked ELSE End(r[i - 1])
       /\ q.encoded = IF r = <<>> THEN q.acked ELSE End(r[Len(r)])

\* Every sample is accounted for: heard once and in its place, paid for, and
\* kept by the client until it was heard.
SamplesAccountedFor == OneStream /\ HonestAudioIsPaid /\ NothingLetGo

\* A cancelled turn gives the microphone back, or the session ends: the client
\* does not wait for ever for the relay's word.
CancelEnds == mic.phase = "cancelling" ~> (mic.phase # "cancelling" \/ ~open)
=============================================================================
