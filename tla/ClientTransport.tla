--------------------------- MODULE ClientTransport ---------------------------
(***************************************************************************)
(* The G2 client's connection to the relay (transport/index.ts): a start   *)
(* draws a credential lease, exchanges it for a ticket, records the lease  *)
(* and opens a socket; every await and every callback of a socket compares *)
(* the source it belongs to with the transport's own before it acts.       *)
(*                                                                         *)
(* A start is its task, at one of its awaits.  A socket is what the        *)
(* network does with it, and what the relay has sent over it.  The lease   *)
(* of a start bears the start's number.  Audio, its acknowledgements and   *)
(* its flow control are AudioPath's; here an utterance is its identity and *)
(* its phase.                                                              *)
(***************************************************************************)
EXTENDS Naturals, Sequences, FiniteSets

CONSTANTS
  None,
  MaxStarts,        \* bound: calls of startSession
  MaxUtterances,    \* bound: utterances of one session
  MaxSaid,          \* bound: what the relay says over one socket
  RetiredCapacity   \* RETIRED_UTTERANCE_CAPACITY

ASSUME ClientAssumption == MaxUtterances \in Nat /\ RetiredCapacity \in Nat

VARIABLES
  conn,        \* the transport's fields
  starts,      \* tasks of startSession, each at an await
  sockets,     \* every socket made so far
  rejections,  \* rejections that run detached from their connection
  wanted,      \* history: the start of the application's last call, or 0
  told         \* history: what the application was told of each start

vars == <<conn, starts, sockets, rejections, wanted, told>>

Idle ==
  [gen |-> 0, socket |-> 0, session |-> 0, expected |-> 0, grant |-> 0,
   timer |-> None, active |-> None, retired |-> << >>]

NewSocket(n) ==
  [start |-> n, net |-> "connecting", code |-> "none", closed |-> FALSE,
   relay |-> "new", begun |-> 0, said |-> 0, inbox |-> None]

Gone == [NewSocket(0) EXCEPT !.net = "done", !.closed = TRUE]

Untold ==
  [ready |-> FALSE, ends |-> 0, stale |-> FALSE, over |-> << >>,
   late |-> FALSE]

(***************************************************************************)
(* Sources                                                                 *)
(***************************************************************************)
Source(c) == [socket |-> c.socket, gen |-> c.gen]

\* forgets that sources without a socket differ by generation
FaultyIsSourceCurrent(c, source) == c.socket = source.socket

IsSourceCurrent(c, source) == Source(c) = source

TaskSource(t) == [socket |-> 0, gen |-> t.gen]
SocketSource(s) ==
  [socket |-> s, gen |-> IF conn.socket = s THEN conn.gen ELSE 0]

\* detachAndClear, without the closing of the socket
Detached(c) == [Idle EXCEPT !.gen = c.gen + 1]
Shut(s) == IF s = 0 THEN sockets ELSE [sockets EXCEPT ![s].closed = TRUE]
DetachAndClear == conn' = Detached(conn) /\ sockets' = Shut(conn.socket)

Ends(n) == told' = [told EXCEPT ![n].ends = @ + 1]

\* fail and emitCredentialOutcome: transport.lost, an error with its recovery
\* disposition or a credential event
Fail(n) == DetachAndClear /\ Ends(n)

CanSend(s) == sockets[s].net = "open" /\ ~sockets[s].closed

(***************************************************************************)
(* Calls of the application                                                *)
(***************************************************************************)
\* startSession closes the previous connection first
StartSession ==
  /\ Len(told) < MaxStarts
  /\ told' = Append(told, Untold)
  /\ wanted' = Len(told')
  /\ conn' = [Detached(conn) EXCEPT !.gen = @ + 1, !.expected = conn.gen + 2]
  /\ sockets' = Shut(conn.socket)
  /\ starts' = starts \cup
       {[start |-> wanted', gen |-> conn.gen + 2, at |-> "acquire"]}
  /\ UNCHANGED rejections

Close ==
  /\ wanted # 0 /\ wanted' = 0
  /\ DetachAndClear
  /\ UNCHANGED <<starts, rejections, told>>

\* its socket is detached before its close event, which is thus never expected
EndSession ==
  LET s == conn.socket IN
  /\ conn.session # 0 /\ wanted' = 0
  /\ conn' = Detached(conn)
  /\ sockets' = [sockets EXCEPT
       ![s].closed = TRUE,
       ![s].relay = IF CanSend(s) THEN "over" ELSE @]
  /\ IF CanSend(s) THEN UNCHANGED told ELSE Ends(sockets[s].start)
  /\ UNCHANGED <<starts, rejections>>

StartUtterance ==
  LET s == conn.socket IN
  /\ conn.session # 0 /\ conn.active = None /\ CanSend(s)
  /\ sockets[s].begun < MaxUtterances
  /\ sockets' = [sockets EXCEPT ![s].begun = @ + 1]
  /\ conn' = [conn EXCEPT !.active = [utt |-> sockets[s].begun + 1,
                                      phase |-> "streaming"]]
  /\ UNCHANGED <<starts, rejections, wanted, told>>

\* sendControl, whose failure ends the connection
Sends(c) ==
  IF CanSend(conn.socket)
  THEN conn' = c /\ UNCHANGED <<sockets, told>>
  ELSE Fail(sockets[conn.socket].start)

CommitUtterance ==
  /\ conn.active # None /\ conn.active.phase = "streaming"
  /\ Sends([conn EXCEPT !.active.phase = "committing"])
  /\ UNCHANGED <<starts, rejections, wanted>>

\* a memory that is full takes nothing more
FaultyRemembered(c, u) ==
  [c EXCEPT !.retired = IF Len(@) = RetiredCapacity THEN @ ELSE Append(@, u)]
\* rememberRetiredUtterance: a memory that is full drops the oldest
Remembered(c, u) ==
  LET all == Append(c.retired, u) IN
  [c EXCEPT !.retired = IF Len(all) > RetiredCapacity THEN Tail(all) ELSE all]

IsRetired(c, u) == \E i \in DOMAIN c.retired : c.retired[i] = u

\* retireActiveAfterLocalCancel
RetiredLocally(c) == [Remembered(c, c.active.utt) EXCEPT !.active = None]

CancelUtterance ==
  LET n == sockets[conn.socket].start IN
  /\ conn.active # None /\ conn.active.phase # "cancelling"
  /\ IF ~CanSend(conn.socket) THEN Fail(n)
     ELSE /\ UNCHANGED sockets
          /\ \/ /\ conn.active.phase = "streaming"
                /\ conn' = [conn EXCEPT !.active.phase = "cancelling"]
                /\ UNCHANGED told
             \/ /\ conn.active.phase = "committing"
                /\ conn' = RetiredLocally(conn)
                /\ told' = [told EXCEPT ![n].over = Append(@, conn.active.utt)]
  /\ UNCHANGED <<starts, rejections, wanted>>

(***************************************************************************)
(* A start, from one await to the next                                     *)
(***************************************************************************)
Continues(t, at) ==
  /\ starts' = (starts \ {t}) \cup {[t EXCEPT !.at = at]}
  /\ UNCHANGED <<conn, sockets, told>>

Stops(t) == starts' = starts \ {t}

\* what follows an await: nothing for a task whose source is no longer current
Resumes(t, at) ==
  /\ t.at = at
  /\ UNCHANGED <<rejections, wanted>>

Abandoned(t) ==
  /\ ~IsSourceCurrent(conn, TaskSource(t))
  /\ Stops(t) /\ UNCHANGED <<conn, sockets, told>>

FailsStart(t) == IsSourceCurrent(conn, TaskSource(t)) /\ Stops(t) /\ Fail(t.start)

\* the lease was superseded: the start ends without a word
Stale(t) ==
  /\ IsSourceCurrent(conn, TaskSource(t))
  /\ Stops(t) /\ DetachAndClear
  /\ told' = [told EXCEPT ![t.start].stale = TRUE]

\* a ready lease, "required", "storage-error" or an exception
Acquired(t) ==
  /\ Resumes(t, "acquire")
  /\ \/ Abandoned(t) \/ FailsStart(t)
     \/ IsSourceCurrent(conn, TaskSource(t)) /\ Continues(t, "fetch")

\* 401, another status or a network error
Fetched(t) ==
  /\ Resumes(t, "fetch")
  /\ \/ Abandoned(t) \/ FailsStart(t)
     \/ /\ IsSourceCurrent(conn, TaskSource(t))
        /\ Continues(t, "reject") \/ Continues(t, "read")

\* readBoundedTicketJson and the validation of the ticket
TicketRead(t) ==
  /\ Resumes(t, "read")
  /\ \/ Abandoned(t) \/ FailsStart(t)
     \/ IsSourceCurrent(conn, TaskSource(t)) /\ Continues(t, "record")

CredentialRejected(t) ==
  /\ Resumes(t, "reject")
  /\ Abandoned(t) \/ FailsStart(t) \/ Stale(t)

\* the timer is armed only once the socket is open
FaultyArmed(source) == None
\* armReadyTimeout
Armed(source) == source

\* the lease is recorded and the socket made
Connects(t) ==
  LET s == Len(sockets) + 1 IN
  /\ IsSourceCurrent(conn, TaskSource(t))
  /\ Stops(t)
  /\ sockets' = Append(sockets, NewSocket(t.start))
  /\ conn' = [conn EXCEPT !.socket = s, !.grant = t.start,
                          !.timer = Armed([socket |-> s, gen |-> conn.gen])]
  /\ UNCHANGED told

Recorded(t) ==
  /\ Resumes(t, "record")
  /\ Abandoned(t) \/ FailsStart(t) \/ Stale(t) \/ Connects(t)

(***************************************************************************)
(* Rejection of the credential of a live connection                        *)
(***************************************************************************)
\* beginLiveCredentialRejection: the verdict is asked for on behalf of a
\* connection that is detached already
LiveRejection ==
  /\ conn' = Detached(conn)
  /\ rejections' = rejections \cup
       {[start |-> conn.grant, source |-> Source(Detached(conn))]}
  /\ UNCHANGED told

\* finishDetachedCredentialRejection
FinishRejection(r) ==
  /\ rejections' = rejections \ {r}
  /\ IF IsSourceCurrent(conn, r.source)
     THEN \/ Ends(r.start)
          \/ told' = [told EXCEPT ![r.start].stale = TRUE]
     ELSE UNCHANGED told
  /\ UNCHANGED <<conn, starts, sockets, wanted>>

(***************************************************************************)
(* Events of a socket, and the timer                                       *)
(***************************************************************************)
IsCurrent(s) == IsSourceCurrent(conn, SocketSource(s))

OnOpen(s) ==
  /\ sockets[s].net = "connecting" /\ ~sockets[s].closed
  /\ sockets' = [sockets EXCEPT ![s].net = "open",
                   ![s].relay = IF IsCurrent(s) THEN "asked" ELSE @]
  /\ UNCHANGED <<conn, starts, rejections, wanted, told>>

Down(s, net) ==
  [sockets EXCEPT ![s].net = net, ![s].closed = @ \/ IsCurrent(s)]

OnError(s) ==
  /\ sockets[s].net = "down"
  /\ sockets' = Down(s, "failed")
  /\ IF ~IsCurrent(s) THEN UNCHANGED <<conn, told>>
     ELSE conn' = Detached(conn) /\ Ends(sockets[s].start)
  /\ UNCHANGED <<starts, rejections, wanted>>

\* a close code is 4401, or one the connection is given up for, with or
\* without a retry
OnClose(s) ==
  /\ sockets[s].net \in {"down", "failed"} /\ sockets[s].inbox = None
  /\ sockets' = [sockets EXCEPT ![s] = Gone]
  /\ UNCHANGED <<starts, wanted>>
  /\ IF ~IsCurrent(s) THEN UNCHANGED <<conn, rejections, told>>
     ELSE IF sockets[s].code = "4401" THEN LiveRejection
     ELSE conn' = Detached(conn) /\ Ends(sockets[s].start) /\ UNCHANGED rejections

\* after session.ready it does nothing; there it is cleared
ReadyTimeout ==
  /\ conn.timer # None
  /\ IF IsSourceCurrent(conn, conn.timer) /\ conn.session = 0
     THEN Fail(sockets[conn.socket].start)
     ELSE conn' = [conn EXCEPT !.timer = None] /\ UNCHANGED <<sockets, told>>
  /\ UNCHANGED <<starts, rejections, wanted>>

(***************************************************************************)
(* handleMessage                                                           *)
(***************************************************************************)
Terminal(m) == m.kind \in {"aborted", "result"}
OfUtterance(m) == m.kind \in {"aborted", "result", "partial"}
\* the utterances over last, as many as the client remembers
LastOver(over) ==
  {over[i] : i \in {j \in DOMAIN over : j + RetiredCapacity > Len(over)}}
Heard(t, m) ==
  [t EXCEPT !.ready = @ \/ m.kind = "ready",
            !.late = @ \/ m.utt \in LastOver(t.over),
            !.over = IF Terminal(m) THEN Append(@, m.utt) ELSE @]
IsActive(c, u) == c.active # None /\ c.active.utt = u

\* emitServerEvent: the end of an utterance is told once
Emits(c, n, m) ==
  IF Terminal(m) /\ IsRetired(c, m.utt)
  THEN conn' = c /\ UNCHANGED told
  ELSE /\ conn' = IF Terminal(m) THEN Remembered(c, m.utt) ELSE c
       /\ told' = [told EXCEPT ![n] = Heard(@, m)]

Took(s) == [sockets EXCEPT ![s].inbox = None]

Drops(s) == sockets' = [Took(s) EXCEPT ![s].closed = TRUE]

\* a message of no known shape, or a session.ready of another session or of
\* other terms than those asked for
Unexpected(m) == m.kind = "unexpected"

Handles(s, m) ==
  \/ m.kind = "auth" /\ LiveRejection /\ Drops(s)
  \/ /\ m.kind \in {"error", "rejected"} \/ Unexpected(m)
     /\ conn' = Detached(conn) /\ Drops(s) /\ Ends(sockets[s].start)
     /\ UNCHANGED rejections
  \/ /\ m.kind = "ready" /\ conn.session = s
     /\ sockets' = Took(s) /\ UNCHANGED <<conn, rejections, told>>
  \/ /\ m.kind = "ready" /\ conn.session = 0
     /\ sockets' = Took(s) /\ UNCHANGED rejections
     /\ Emits([conn EXCEPT !.timer = None, !.expected = 0, !.session = s],
              sockets[s].start, m)
  \/ /\ OfUtterance(m)
     /\ sockets' = Took(s) /\ UNCHANGED rejections
     /\ IF ~IsActive(conn, m.utt) /\ IsRetired(conn, m.utt)
        THEN UNCHANGED <<conn, told>>
        ELSE Emits(IF IsActive(conn, m.utt) /\ Terminal(m)
                   THEN [conn EXCEPT !.active = None] ELSE conn,
                   sockets[s].start, m)

OnMessage(s) ==
  /\ sockets[s].inbox # None
  /\ IF IsCurrent(s) THEN Handles(s, sockets[s].inbox)
     ELSE sockets' = Took(s) /\ UNCHANGED <<conn, rejections, told>>
  /\ UNCHANGED <<starts, wanted>>

(***************************************************************************)
(* The relay and the network                                               *)
(***************************************************************************)
Says(s, m, relay) ==
  sockets' = [sockets EXCEPT ![s].inbox = m, ![s].said = @ + 1,
                             ![s].relay = relay]

Plain(kind) == [kind |-> kind, utt |-> 0]

Relay(s) ==
  /\ sockets[s].net = "open" /\ sockets[s].said < MaxSaid
  /\ sockets[s].inbox = None
  /\ \/ /\ sockets[s].relay = "asked"
        /\ \/ Says(s, Plain("ready"), "ready")
           \/ \E kind \in {"rejected", "auth", "unexpected"} :
                Says(s, Plain(kind), "over")
     \/ /\ sockets[s].relay = "ready"
        /\ \/ Says(s, Plain("ready"), "ready")
           \/ \E kind \in {"error", "auth", "unexpected"} : Says(s, Plain(kind), "over")
           \/ \E u \in 1..sockets[s].begun, kind \in {"aborted", "result", "partial"} :
                Says(s, [kind |-> kind, utt |-> u], "ready")
  /\ UNCHANGED <<conn, starts, rejections, wanted, told>>

\* the connection breaks, or the relay closes it
Breaks(s) ==
  /\ sockets[s].net \in {"connecting", "open"}
  /\ \E code \in {"4401", "other"} :
       sockets' = [sockets EXCEPT ![s].net = "down", ![s].code = code]
  /\ UNCHANGED <<conn, starts, rejections, wanted, told>>

Init ==
  /\ conn = Idle /\ starts = {} /\ sockets = << >> /\ rejections = {}
  /\ wanted = 0 /\ told = << >>

StartStep(t) ==
  \/ Acquired(t) \/ Fetched(t) \/ TicketRead(t)
  \/ CredentialRejected(t) \/ Recorded(t)

SocketStep(s) == OnOpen(s) \/ OnMessage(s) \/ OnError(s) \/ OnClose(s)

Next ==
  \/ StartSession \/ Close \/ EndSession
  \/ StartUtterance \/ CommitUtterance \/ CancelUtterance
  \/ \E t \in starts : StartStep(t)
  \/ \E r \in rejections : FinishRejection(r)
  \/ ReadyTimeout
  \/ \E s \in DOMAIN sockets : SocketStep(s) \/ Relay(s) \/ Breaks(s)

\* the awaits of a start on the credential controller, whose own requests have
\* a deadline; the exchange of the lease for a ticket has none
AsksController(t) == t.at \in {"acquire", "reject", "record"}
AsksRelay(t) == t.at \in {"fetch", "read"}

\* The controller answers and the timer fires.  Nothing is assumed of the relay
\* or of the network: neither an answer to the request for a ticket, nor an
\* event of a socket.
Fairness ==
  /\ WF_vars(\E t \in starts : AsksController(t) /\ StartStep(t))
  /\ WF_vars(\E r \in rejections : FinishRejection(r))
  /\ WF_vars(ReadyTimeout)

Spec == Init /\ [][Next]_vars /\ Fairness

(***************************************************************************)
(* Properties                                                              *)
(***************************************************************************)
\* The application hears of the session it asked for last, and of no other:
\* no message, error or verdict of an older connection reaches it, and
\* nothing of a session that it was told is over.
OnlyTheLatestSpeaks ==
  [][\A n \in DOMAIN told :
       told'[n] # told[n] => n = wanted /\ told[n].ends = 0 /\ ~told[n].stale]_vars

\* However many utterances a session has, none of the last RetiredCapacity to
\* be over is heard of again, although the relay may still be answering it: not
\* one whose cancellation retired it, nor one whose end was told.
OverIsOver == \A n \in DOMAIN told : ~told[n].late

\* The transport never leaves a socket open behind the one it uses.
OneConnection ==
  \A s \in DOMAIN sockets :
    s = conn.socket \/ sockets[s].closed \/ sockets[s].net = "done"

\* One connection lives, and what is over on it stays over.
OneLiveConnection == OneConnection /\ OverIsOver

\* A start is still wanted, and the application has not heard how it ended.
Unheard(n) ==
  wanted = n /\ ~told[n].ready /\ told[n].ends = 0 /\ ~told[n].stale

\* The request for a ticket is the only place where a start can hang: one that
\* is not superseded becomes ready, ends with a word to the application or
\* ends silently for a superseded lease, unless the relay leaves that request
\* unanswered for good.  Past the ticket no peer can hold it up: a socket that
\* never opens, breaks or says nothing is given up by the ready timer.
StartSettles ==
  \A n \in 1..MaxStarts :
    <>[]Unheard(n) => <>[](\E t \in starts : t.start = n /\ AsksRelay(t))
=============================================================================
