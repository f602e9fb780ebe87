---------------------------- MODULE RelaySession ----------------------------
(***************************************************************************)
(* One WebSocket connection of the relay: the queue of work of the host    *)
(* (apps/relay/src/host.ts) and the session core it drives                 *)
(* (apps/relay/src/session.ts).                                            *)
(*                                                                         *)
(* An action is what runs between two awaits.  The host runs one piece of  *)
(* work at a time (task, enqueue); while it waits for the classifier or    *)
(* the security state, provider callbacks append events, generation        *)
(* results arrive, and the socket closes: none of these goes through the   *)
(* queue of work.                                                          *)
(*                                                                         *)
(* Audio is modelled by what the acceptor and the provider make of a       *)
(* frame; offsets, acknowledgements, metrics and message contents are left *)
(* out.  An utterance id names one transcription session, since ids are    *)
(* fresh UUIDs, and one generation.                                        *)
(***************************************************************************)
EXTENDS RelayEventQueue, FiniteSets

CONSTANTS
  Utterances, Segments, None,
  Honest,            \* whether the client keeps to the protocol
  ResolvedCapacity,  \* RECENTLY_RESOLVED_UTTERANCE_CAPACITY
  MaxTasks,          \* bound on work waiting in the connection's queue
  MaxRevision,       \* bound on provider events of an utterance
  MaxClaim           \* bound on versions of a durable claim

ASSUME RelayAssumption == None \notin Utterances

VARIABLES
  \* the host's side of the connection
  socket,          \* "open", "closing" (close was called) or "closed"
  tasks,           \* connection.queue: work not begun
  drainScheduled,
  run,             \* the work that is running, and what it waits for
  \* the session core
  phase,           \* "new", "ready" or "terminal"
  active,          \* #active
  queue,           \* #eventQueue, #queueHead, #terminalOverflow
  resolved,        \* #recentlyResolvedUtteranceIds
  operation,       \* #generationOperation, by its utterance
  generating,      \* #generationStarted
  token,           \* #finalToken and #finalController, by utterance
  gens,            \* the generation of each utterance
  \* the rest of the system
  row,             \* the durable claim of each utterance's authorization
  emitted,         \* provider events so far, by utterance
  closeReason,     \* history: why the core ended the session
  wire,            \* history: messages sent to the client
  client           \* what the client is doing, and how much it has read

hostVars == <<socket, tasks, drainScheduled, run>>
coreVars == <<phase, active, queue, resolved, operation, generating, token,
              gens, closeReason>>
vars == <<hostVars, coreVars, row, emitted, wire, client>>

NoUtterance ==
  [u |-> None, committed |-> FALSE, final |-> FALSE, failed |-> FALSE,
   revision |-> 0]

NoClaim == [phase |-> "none", version |-> 0]

\* ops: the store operations on operation.queue, the first one running once
\* it was called with a claim; pc: the generation service's part;
\* refused: the store refused a call of this generation
NoGeneration ==
  [claim |-> NoClaim, ops |-> <<>>, pc |-> "none", aborted |-> FALSE,
   refused |-> FALSE]

Idle == [pc |-> "idle", task |-> [kind |-> "none", u |-> None],
         event |-> None, out |-> <<>>, batch |-> 0]

Init ==
  /\ socket = "open" /\ tasks = <<>> /\ drainScheduled = FALSE /\ run = Idle
  /\ phase = "new" /\ active = NoUtterance /\ queue = EmptyQueue
  /\ resolved = <<>> /\ operation = None /\ generating = FALSE /\ token = None
  /\ gens = [u \in Utterances |-> NoGeneration]
  /\ row = [u \in Utterances |-> NoClaim]
  /\ emitted = [u \in Utterances |-> 0]
  /\ closeReason = None /\ wire = <<>>
  /\ client = [stage |-> "new", u |-> None, used |-> {}, read |-> 0]

Message(kind, u) == [kind |-> kind, u |-> u]
Said(kind) == Message(kind, None)

(***************************************************************************)
(* The core                                                                *)
(***************************************************************************)
\* ops of a generation with one more operation behind them
Enqueued(g, op) == [g EXCEPT !.ops = Append(@, [op |-> op, claim |-> NoClaim])]

\* an unstarted claim is given back when its utterance ends
FaultyReleases(G, u) == FALSE
Releases(G, u) ==
  u = operation /\ ~generating /\ G[u].claim.phase = "claimed"

\* #finishActive, on the generations G: abortPendingGeneration, and the release
\* of a claim that did not start
Abandoned(G) ==
  [u \in Utterances |->
     LET g == IF u = token THEN [G[u] EXCEPT !.aborted = TRUE] ELSE G[u]
     IN IF active.u # None /\ Releases(G, u) THEN Enqueued(g, "release") ELSE g]

\* keeps no memory of utterances that came to an end by themselves
FaultyRemembered(u, cancel) == IF cancel THEN <<u>> ELSE resolved

\* #rememberRecentlyResolvedUtterance
Remembered(u, cancel) ==
  LET all == Append(SelectSeq(resolved, LAMBDA x : x # u), u) IN
  IF Len(all) > ResolvedCapacity THEN Tail(all) ELSE all

\* #finishActive, with generations G and an overflow noted or not
FinishActive(G, cancel, overflow) ==
  /\ gens' = Abandoned(G)
  /\ resolved' = IF active.u = None THEN resolved
                 ELSE Remembered(active.u, cancel)
  /\ active' = NoUtterance
  /\ token' = None /\ operation' = None /\ generating' = FALSE
  /\ queue' = [EmptyQueue EXCEPT !.overflow = overflow]

\* an utterance ends and the session goes on
Finish(G, cancel) ==
  FinishActive(G, cancel, queue.overflow) /\ UNCHANGED <<phase, closeReason>>

\* #terminate
Terminate(G, reason) ==
  /\ phase' = "terminal"
  /\ closeReason' = reason
  /\ FinishActive(G, TRUE, queue.overflow /\ reason # "overflow")

Stays == UNCHANGED <<phase, closeReason>>

\* #isCurrentTranscriptionEvent
CurrentEvent(e) == phase = "ready" /\ active.u = e.u

\* #isCurrent: a token names one generation of one utterance
CurrentToken(u) == phase = "ready" /\ active.u = u /\ token = u

(***************************************************************************)
(* The host: delivery and the queue of work                                *)
(***************************************************************************)
\* deliver: nothing is sent on a socket that is closing
Deliver(out) == wire' = IF socket = "open" THEN wire \o out ELSE wire

Drain == Message("drain", None)

\* scheduleDrain, for a queue of work t
Scheduled(t) == IF drainScheduled THEN t ELSE Append(t, Drain)

\* requestDrain, from a callback
RequestDrain ==
  IF socket = "closed" THEN UNCHANGED <<tasks, drainScheduled>>
  ELSE tasks' = Scheduled(tasks) /\ drainScheduled' = TRUE

\* a message is answered and the connection stays; its work is done
Answer(out) ==
  /\ Deliver(out)
  /\ run' = Idle
  /\ IF socket = "open"
     THEN tasks' = Scheduled(tasks) /\ drainScheduled' = TRUE
     ELSE UNCHANGED <<tasks, drainScheduled>>
  /\ UNCHANGED socket

\* a piece of work ends with the connection; a drain clears its flag
AnswerAndClose(out) ==
  /\ Deliver(out)
  /\ run' = Idle
  /\ socket' = IF socket = "open" THEN "closing" ELSE socket
  /\ drainScheduled' = (drainScheduled /\ run.task.kind # "drain")
  /\ UNCHANGED tasks

Refuse(G, reason, out) == Terminate(G, reason) /\ AnswerAndClose(out)

About(kind) == IF active.u = None THEN <<>> ELSE <<Message(kind, active.u)>>

\* #providerLoss
ProviderLoss(G, out) ==
  Refuse(G, "provider", out \o About("aborted") \o <<Said("error")>>)

\* handleSecurityFailure, with the terminal result of a core that has ended
SecurityFailure(G) ==
  \/ /\ phase = "terminal"
     /\ AnswerAndClose(<<>>)
     /\ gens' = G
     /\ UNCHANGED <<phase, active, queue, resolved, operation, generating,
                    token, closeReason>>
  \/ /\ phase # "terminal"
     /\ \/ active.u # None /\ ProviderLoss(G, <<>>)
        \/ active.u = None /\ Refuse(G, "state", <<Said("error")>>)
        \/ Refuse(G, "flow", IF active.u = None THEN <<Said("error")>>
                             ELSE About("aborted"))

Wait(pc) == run' = [run EXCEPT !.pc = pc]

(***************************************************************************)
(* The client.  An honest one opens the session, speaks one fresh          *)
(* utterance at a time, sends audio until it commits, and cancels an       *)
(* utterance only before it has read how that utterance ended.             *)
(***************************************************************************)
Ends(message, u) ==
  message.u = u /\ message.kind \in {"decision", "translation", "aborted"}

HonestStage(m) ==
  CASE m.kind = "session.start" -> client.stage = "new"
    [] m.kind = "utterance.start" -> client.stage = "idle" /\ m.u \notin client.used
    [] m.kind \in {"audio", "utterance.commit"} ->
         client.stage = "speaking" /\ m.u = client.u
    [] m.kind = "utterance.cancel" ->
         client.stage \in {"speaking", "waiting"} /\ m.u = client.u
    [] m.kind = "session.end" -> client.stage \in {"idle", "speaking", "waiting"}
    [] OTHER -> FALSE

NextStage(m) ==
  CASE m.kind = "session.start" -> "opening"
    [] m.kind = "utterance.start" -> "speaking"
    [] m.kind = "utterance.commit" -> "waiting"
    [] m.kind = "utterance.cancel" -> "idle"
    [] m.kind = "session.end" -> "done"
    [] OTHER -> client.stage

Messages ==
  {Message(k, u) : k \in {"utterance.start", "audio", "utterance.commit",
                          "utterance.cancel"}, u \in Utterances}
    \cup {Said(k) : k \in {"session.start", "session.end", "malformed"}}

\* a message reaches the host in order and waits its turn
ClientSends(m) ==
  /\ socket = "open"
  /\ Len(tasks) < MaxTasks
  /\ Honest => HonestStage(m)
  /\ m.kind = "utterance.start" => m.u \notin client.used
  /\ tasks' = Append(tasks, m)
  /\ client' = [client EXCEPT
       !.stage = NextStage(m),
       !.u = IF m.kind = "utterance.start" THEN m.u ELSE @,
       !.used = IF m.kind = "utterance.start" THEN @ \cup {m.u} ELSE @]
  /\ UNCHANGED <<socket, drainScheduled, run, coreVars, row, emitted, wire>>

ClientReads ==
  /\ Honest
  /\ client.read < Len(wire)
  /\ LET message == wire[client.read + 1] IN
     client' = [client EXCEPT
       !.read = @ + 1,
       !.stage = IF \/ message.kind = "ready" /\ client.stage = "opening"
                    \/ Ends(message, client.u) /\ client.stage \in {"speaking", "waiting"}
                 THEN "idle" ELSE @]
  /\ UNCHANGED <<hostVars, coreVars, row, emitted, wire>>

(***************************************************************************)
(* Work on a message                                                       *)
(***************************************************************************)
NextTask == run.pc = "idle" /\ socket # "closed" /\ tasks # <<>>

Begin(m) ==
  /\ NextTask
  /\ m = Head(tasks)
  /\ tasks' = Tail(tasks)

\* a message that finds the socket closing
SkipMessage ==
  \E m \in Messages :
    /\ Begin(m)
    /\ socket = "closing"
    /\ UNCHANGED <<socket, drainScheduled, run, coreVars, row, emitted, wire,
                   client>>

\* activateSession, reserveAudio: the host waits before the core is asked.
\* An audio frame waits only when its grant is used up.
BeginMessage(m) ==
  /\ Begin(m)
  /\ socket = "open"
  /\ run' = [Idle EXCEPT
       !.task = m,
       !.pc = IF \/ m.kind = "session.start" /\ phase = "new"
                 \/ m.kind = "utterance.start" /\ phase # "new"
              THEN "store" ELSE "message"]
  /\ UNCHANGED <<socket, drainScheduled, coreVars, row, emitted, wire, client>>

AudioNeedsGrant ==
  /\ run.pc = "message" /\ run.task.kind = "audio"
  /\ phase # "new"
  /\ Wait("store")
  /\ UNCHANGED <<socket, tasks, drainScheduled, coreVars, row, emitted, wire,
                 client>>

StoreAnswers ==
  /\ run.pc = "store"
  /\ \/ Wait("granted") /\ UNCHANGED <<socket, tasks, drainScheduled, coreVars, wire>>
     \/ SecurityFailure(gens)
  /\ UNCHANGED <<row, emitted, client>>

\* the core is asked
Handling(kind) ==
  /\ run.pc \in {"message", "granted"}
  /\ run.task.kind = kind
  /\ UNCHANGED <<row, emitted, client>>

\* a core that has ended answers with its close
AlreadyTerminal ==
  /\ run.pc \in {"message", "granted"}
  /\ phase = "terminal"
  /\ AnswerAndClose(<<>>)
  /\ UNCHANGED <<coreVars, row, emitted, client>>

SessionStart ==
  /\ Handling("session.start")
  /\ \/ /\ phase = "new" /\ run.pc = "granted"
        /\ phase' = "ready"
        /\ Answer(<<Said("ready")>>)
        /\ UNCHANGED <<active, queue, resolved, operation, generating, token,
                       gens, closeReason>>
     \/ phase = "new" /\ Refuse(gens, "state", <<Said("rejected")>>)
     \/ phase = "ready" /\ Refuse(gens, "protocol", <<Said("error")>>)

\* a first message other than session.start
NotYetOpen ==
  /\ run.pc = "message" /\ run.task.kind # "session.start"
  /\ phase = "new"
  /\ Refuse(gens, "protocol", <<Said("rejected")>>)
  /\ UNCHANGED <<row, emitted, client>>

Malformed ==
  /\ Handling("malformed")
  /\ phase = "ready"
  /\ Refuse(gens, "protocol", <<Said("error")>>)

UtteranceStart ==
  /\ Handling("utterance.start")
  /\ phase = "ready"
  /\ \/ /\ active.u = None
        /\ active' = [NoUtterance EXCEPT !.u = run.task.u]
        /\ Answer(<<>>)
        /\ UNCHANGED <<queue, resolved, operation, generating, token, gens>>
        /\ Stays
     \/ /\ active.u = run.task.u
        /\ Answer(<<>>)
        /\ UNCHANGED coreVars
     \/ /\ active.u \notin {None, run.task.u}
        /\ Refuse(gens, "conflict", <<Said("error")>>)
     \/ /\ active.u = None      \* the transcription provider is not there
        /\ Refuse(gens, "provider", <<Said("error")>>)

\* the acceptor's verdict on a frame is the client's doing, the provider's
\* acceptance is not
Binary ==
  /\ Handling("audio")
  /\ phase = "ready"
  /\ \/ /\ active.u = None \/ active.committed
        /\ Refuse(gens, "protocol", <<Said("error")>>)
     \/ /\ active.u # None /\ ~active.committed
        /\ \/ /\ active.u = run.task.u
              /\ \/ Answer(<<>>) /\ UNCHANGED coreVars
                 \/ ProviderLoss(gens, <<>>)
           \/ /\ ~Honest \/ active.u # run.task.u
              /\ Refuse(gens, "protocol", About("aborted"))

UtteranceCommit ==
  /\ Handling("utterance.commit")
  /\ phase = "ready"
  /\ \/ /\ active.u = run.task.u
        /\ active' = [active EXCEPT !.committed = TRUE]
        /\ Answer(<<>>)
        /\ UNCHANGED <<queue, resolved, operation, generating, token, gens>>
        /\ Stays
     \/ /\ active.u # run.task.u \/ ~Honest     \* or another final offset
        /\ Refuse(gens, "protocol", <<Said("error")>>)
     \/ /\ active.u = run.task.u /\ ~active.committed   \* finalize failed
        /\ ProviderLoss(gens, <<>>)

UtteranceCancel ==
  /\ Handling("utterance.cancel")
  /\ phase = "ready"
  /\ \/ /\ active.u = run.task.u
        /\ Finish(gens, TRUE)
        /\ Answer(About("aborted"))
     \/ /\ active.u # run.task.u
        /\ \E k \in 1..Len(resolved) : resolved[k] = run.task.u
        /\ Answer(<<>>)
        /\ UNCHANGED coreVars
     \/ /\ active.u # run.task.u
        /\ ~ \E k \in 1..Len(resolved) : resolved[k] = run.task.u
        /\ Refuse(gens, "protocol", <<Said("error")>>)

\* the core ends; the host waits for the durable session to end, then closes
SessionEnd ==
  /\ Handling("session.end")
  /\ phase = "ready"
  /\ Terminate(gens, "closed")
  /\ Wait("ending")
  /\ UNCHANGED <<socket, tasks, drainScheduled, wire>>

SessionEnded ==
  /\ run.pc = "ending"
  /\ AnswerAndClose(<<>>)
  /\ UNCHANGED <<coreVars, row, emitted, client>>

(***************************************************************************)
(* Callbacks of the transcription provider.  A session that was closed     *)
(* (finishActive, or the start of the generation) calls back no more; the  *)
(* adapter sends a final transcript only for a committed utterance.        *)
(***************************************************************************)
\* #appendAsyncEvent with generations G: an overflow aborts the pending one
AppendEvent(G, e) ==
  /\ queue' = Appended(queue, e)
  /\ gens' = IF Overflows(queue, e) /\ token # None
             THEN [G EXCEPT ![token].aborted = TRUE] ELSE G
  /\ IF Notifies(queue, e) THEN RequestDrain
     ELSE UNCHANGED <<tasks, drainScheduled>>

TranscriptionEvent(u, kind, segment) ==
  /\ phase = "ready" /\ active.u = u /\ ~active.failed /\ token = None
  /\ kind = "final" => active.committed
  /\ emitted[u] < MaxRevision
  /\ emitted' = [emitted EXCEPT ![u] = @ + 1]
  /\ AppendEvent(gens, [kind |-> kind, u |-> u, segment |-> segment,
                        revision |-> emitted[u] + 1])
  /\ UNCHANGED <<socket, run, phase, active, resolved, operation, generating,
                 token, closeReason, row, wire, client>>

TranscriptionFailed(u) ==
  /\ phase = "ready" /\ active.u = u /\ ~active.failed /\ ~active.final
  /\ active' = [active EXCEPT !.failed = TRUE]
  /\ AppendEvent(gens, [kind |-> "failed", u |-> u, segment |-> None,
                        revision |-> 0])
  /\ UNCHANGED <<socket, run, phase, resolved, operation, generating, token,
                 closeReason, row, emitted, wire, client>>

(***************************************************************************)
(* The drain (drainAsyncEvents).  Up to batch, the events of the queue are *)
(* taken one by one; what they say is collected in run.out.                *)
(***************************************************************************)
BeginDrain ==
  /\ Begin(Drain)
  /\ socket = "open" /\ phase = "ready" /\ ~queue.overflow
  /\ run' = [Idle EXCEPT !.pc = "drain", !.task = Drain,
                         !.batch = Len(queue.events)]
  /\ UNCHANGED <<socket, drainScheduled, coreVars, row, emitted, wire, client>>

\* nothing is drained on a socket that is closing
SkipDrain ==
  /\ Begin(Drain)
  /\ socket = "closing"
  /\ drainScheduled' = FALSE
  /\ UNCHANGED <<socket, run, coreVars, row, emitted, wire, client>>

DrainOverflow ==
  /\ NextTask /\ Head(tasks) = Drain
  /\ socket = "open" /\ phase = "ready" /\ queue.overflow
  /\ Terminate(gens, "overflow")
  /\ Deliver(<<Said("error")>>)
  /\ socket' = "closing" /\ drainScheduled' = FALSE /\ tasks' = Tail(tasks)
  /\ UNCHANGED <<run, row, emitted, client>>

\* the event at the head, taken
Taking(kinds) ==
  /\ run.pc = "drain" /\ phase = "ready"
  /\ queue.head < run.batch /\ queue.head < Len(queue.events)
  /\ queue.events[queue.head + 1].kind \in kinds
  /\ UNCHANGED <<row, emitted, client>>

Taken == queue.events[queue.head + 1]
TakenQueue == [queue EXCEPT !.head = @ + 1]

Continue(out) ==
  /\ run' = [run EXCEPT !.pc = "drain", !.out = @ \o out, !.event = None]
  /\ UNCHANGED <<socket, tasks, drainScheduled, wire>>

\* accepts a second final transcript
FaultyFresh(e) == active.u = e.u /\ e.revision > active.revision

\* handleTranscriptionEvent goes on with e
Fresh(e) == active.u = e.u /\ ~active.final /\ e.revision > active.revision

TakePartial ==
  /\ Taking({"partial"})
  /\ queue' = TakenQueue
  /\ active' = IF Fresh(Taken) THEN [active EXCEPT !.revision = Taken.revision]
               ELSE active
  /\ Continue(<<>>)
  /\ UNCHANGED <<phase, resolved, operation, generating, token, gens,
                 closeReason>>

TakeFinal ==
  /\ Taking({"final"})
  /\ queue' = TakenQueue
  /\ IF Fresh(Taken)
     THEN /\ active' = [active EXCEPT !.revision = Taken.revision, !.final = TRUE]
          /\ run' = [run EXCEPT !.pc = "classify", !.event = Taken]
          /\ UNCHANGED <<socket, tasks, drainScheduled, wire>>
     ELSE UNCHANGED active /\ Continue(<<>>)
  /\ UNCHANGED <<phase, resolved, operation, generating, token, gens,
                 closeReason>>

\* 'deny-all': no language is approved, nothing is awaited
DenyFinal ==
  /\ Taking({"final"})
  /\ Fresh(Taken)
  /\ Finish(gens, FALSE)
  /\ Continue(<<Message("decision", Taken.u)>>)

TakeFailure ==
  /\ Taking({"failed"})
  /\ \/ /\ active.u = Taken.u /\ active.failed /\ ~active.final
        /\ ProviderLoss(gens, run.out)
     \/ /\ ~(active.u = Taken.u /\ active.failed /\ ~active.final)
        /\ queue' = TakenQueue
        /\ Continue(<<>>)
        /\ UNCHANGED <<phase, active, resolved, operation, generating, token,
                       gens, closeReason>>

TakeResult ==
  /\ Taking({"completed", "broken"})
  /\ \/ /\ CurrentToken(Taken.u)
        /\ Finish(gens, FALSE)
        /\ Continue(<<IF Taken.kind = "completed"
                      THEN Message("translation", Taken.u) ELSE Said("error")>>)
     \/ /\ ~CurrentToken(Taken.u)
        /\ queue' = TakenQueue
        /\ Continue(<<>>)
        /\ UNCHANGED <<phase, active, resolved, operation, generating, token,
                       gens, closeReason>>

\* forgets the events that came while the drain was running
FaultyDrainAgain == FALSE
DrainAgain == socket = "open" /\ HasPending(queue')

EndDrain ==
  /\ run.pc = "drain"
  /\ \/ phase = "terminal" \/ queue.head >= run.batch
     \/ queue.head >= Len(queue.events)
  /\ queue' = Compact(queue)
  /\ Deliver(run.out)
  /\ run' = Idle
  /\ drainScheduled' = DrainAgain
  /\ tasks' = IF DrainAgain THEN Append(tasks, Drain) ELSE tasks
  /\ UNCHANGED <<socket, phase, active, resolved, operation, generating, token,
                 gens, closeReason, row, emitted, client>>

(***************************************************************************)
(* A final transcript on its way: classified, authorized, started          *)
(***************************************************************************)
ClassifierAnswers ==
  LET u == run.event.u IN
  /\ run.pc = "classify"
  /\ \/ /\ CurrentEvent(run.event)
        /\ \/ /\ Finish(gens, FALSE)
              /\ \/ Continue(<<Message("decision", u)>>)
                 \/ Continue(<<>>)    \* its text fits no message
           \/ /\ Wait("authorize")
              /\ UNCHANGED <<socket, tasks, drainScheduled, wire, coreVars>>
     \/ /\ ~CurrentEvent(run.event)
        /\ Continue(<<>>)
        /\ UNCHANGED coreVars
  /\ UNCHANGED <<row, emitted, client>>

Accepted(u) == <<Message("final", u), Message("target", u)>>

Renewed(claim, p) == [phase |-> p, version |-> claim.version + 1]
Claimed == [phase |-> "claimed", version |-> 1]

\* A call that fails may have changed the row or not: a refusal of u leaves
\* its row at old or at new.
Fails(u, new) == row' = row \/ row' = [row EXCEPT ![u] = new]

\* authorizeGeneration answers 'acquired'
ClaimAcquired ==
  LET u == run.event.u IN
  /\ run.pc = "authorize"
  /\ row[u] = NoClaim
  /\ row' = [row EXCEPT ![u] = Claimed]
  /\ \/ /\ CurrentEvent(run.event)
        /\ operation' = u
        /\ gens' = [gens EXCEPT ![u] = Enqueued([@ EXCEPT !.claim = Claimed], "start")]
        /\ Wait("start")
     \/ /\ ~CurrentEvent(run.event)
        /\ UNCHANGED <<gens, operation>>
        /\ Wait("release")
  /\ UNCHANGED <<socket, tasks, drainScheduled, phase, active, queue, resolved,
                 generating, token, closeReason, emitted, wire, client>>

\* it answers otherwise, or fails
ClaimRefused ==
  LET u == run.event.u
      G == [gens EXCEPT ![u].refused = TRUE]
  IN
  /\ run.pc = "authorize"
  /\ Fails(u, Claimed)
  /\ \/ /\ CurrentEvent(run.event)
        /\ Finish(G, FALSE)
        /\ (Continue(Accepted(u)) \/ Continue(<<Said("error")>>))
     \/ /\ ~CurrentEvent(run.event)
        /\ gens' = G
        /\ Continue(<<>>)
        /\ UNCHANGED <<phase, active, queue, resolved, operation, generating,
                       token, closeReason>>
  /\ UNCHANGED <<emitted, client>>

\* a claim acquired for an utterance that is over is released at once
ClaimReleased ==
  LET u == run.event.u IN
  /\ run.pc = "release"
  /\ \/ row' = [row EXCEPT ![u] = Renewed(@, "released")] /\ UNCHANGED gens
     \/ /\ gens' = [gens EXCEPT ![u].refused = TRUE]
        /\ Fails(u, Renewed(row[u], "released"))
  /\ Continue(<<>>)
  /\ UNCHANGED <<phase, active, queue, resolved, operation, generating, token,
                 closeReason, emitted, client>>

(***************************************************************************)
(* The store operations of a generation run one after the other on         *)
(* operation.queue, each with the claim the one before it left.            *)
(***************************************************************************)
\* calls the store without waiting for the operations before
FaultyMayCall(u, k) == gens[u].ops[k].claim = NoClaim
MayCall(u, k) == k = 1 /\ gens[u].ops[k].claim = NoClaim

CallStore(u, k) ==
  /\ MayCall(u, k)
  /\ gens' = [gens EXCEPT ![u].ops[k].claim = gens[u].claim]
  /\ UNCHANGED <<hostVars, phase, active, queue, resolved, operation,
                 generating, token, closeReason, row, emitted, wire, client>>

\* the store answers the k-th operation, called with the claim it holds
Answered(u, k, op) ==
  /\ gens[u].ops[k].op = op
  /\ gens[u].ops[k].claim # NoClaim

\* the store changes the claim to p, if it is called with the one it holds
StoreGrants(u, k, p) ==
  /\ gens[u].ops[k].claim = row[u]
  /\ row' = [row EXCEPT ![u] = Renewed(@, p)]

\* it fails, before or after that change
StoreFails(u, k, p) ==
  IF gens[u].ops[k].claim = row[u] THEN Fails(u, Renewed(row[u], p))
  ELSE UNCHANGED row

\* the generation after each of them
Granted(u, k, p) ==
  [gens[u] EXCEPT !.ops = RemoveAt(@, k), !.claim = Renewed(row[u], p)]

StoreRefuses(u, k) ==
  [gens[u] EXCEPT !.ops = RemoveAt(@, k), !.refused = TRUE]

With(u, g) == [gens EXCEPT ![u] = g]

\* providerStart answers 'start-permitted': the generation service is called,
\* unless the connection closed meanwhile
StartPermitted(u, k) ==
  /\ run.pc = "start" /\ Answered(u, k, "start")
  /\ StoreGrants(u, k, "started")
  /\ \/ /\ operation = u
        /\ gens' = With(u, [Granted(u, k, "started") EXCEPT !.pc = "calling"])
        /\ generating' = TRUE /\ token' = u
        /\ Continue(Accepted(u))
        /\ UNCHANGED <<phase, active, queue, resolved, operation, closeReason>>
     \/ /\ operation = None
        /\ Finish(With(u, Granted(u, k, "started")), FALSE)
        /\ Continue(<<Said("error")>>)
  /\ UNCHANGED <<emitted, client>>

\* the row was started, but the session ended under it ('already-consumed')
StartConsumed(u, k) ==
  /\ run.pc = "start" /\ Answered(u, k, "start")
  /\ StoreGrants(u, k, "started")
  /\ Finish(With(u, [Granted(u, k, "started") EXCEPT !.refused = TRUE]), FALSE)
  /\ Continue(Accepted(u))
  /\ UNCHANGED <<emitted, client>>

StartFailed(u, k) ==
  /\ run.pc = "start" /\ Answered(u, k, "start")
  /\ StoreFails(u, k, "started")
  /\ \/ /\ CurrentEvent(run.event)
        /\ Finish(With(u, StoreRefuses(u, k)), FALSE)
        /\ Continue(<<Said("error")>>)
     \/ /\ ~CurrentEvent(run.event)
        /\ gens' = With(u, StoreRefuses(u, k))
        /\ Continue(<<>>)
        /\ UNCHANGED <<phase, active, queue, resolved, operation, generating,
                       token, closeReason>>
  /\ UNCHANGED <<emitted, client>>

ReleaseAnswered(u, k) ==
  /\ Answered(u, k, "release")
  /\ \/ /\ StoreGrants(u, k, "released")
        /\ gens' = With(u, [Granted(u, k, "released") EXCEPT !.claim = gens[u].claim])
     \/ gens' = With(u, StoreRefuses(u, k)) /\ StoreFails(u, k, "released")
  /\ UNCHANGED <<hostVars, phase, active, queue, resolved, operation,
                 generating, token, closeReason, emitted, wire, client>>

(***************************************************************************)
(* The generation service settles; its result is told only after the claim *)
(* is completed, and only while the utterance waits for it.                *)
(***************************************************************************)
Tells(u) == CurrentToken(u) /\ ~gens[u].aborted

\* the continuation of complete, for generations G and what to tell
Told(G, u, kind) ==
  \/ /\ Tells(u)
     /\ AppendEvent(G, [kind |-> kind, u |-> u, segment |-> None, revision |-> 0])
  \/ /\ ~Tells(u)
     /\ gens' = G
     /\ UNCHANGED <<queue, tasks, drainScheduled>>

\* tells the result, then has the claim completed
FaultySettles(u, result) ==
  /\ gens[u].pc = "calling"
  /\ Told(With(u, [Enqueued(gens[u], "complete") EXCEPT !.pc = result]), u,
          IF result = "success" THEN "completed" ELSE "broken")
  /\ UNCHANGED <<socket, run, phase, active, resolved, operation, generating,
                 token, closeReason, row, emitted, wire, client>>

GenerationSettles(u, result) ==
  /\ gens[u].pc = "calling"
  /\ gens' = With(u, [Enqueued(gens[u], "complete") EXCEPT !.pc = result])
  /\ UNCHANGED <<hostVars, phase, active, queue, resolved, operation,
                 generating, token, closeReason, row, emitted, wire, client>>

CompleteAnswered(u, k) ==
  /\ Answered(u, k, "complete")
  /\ \/ /\ StoreGrants(u, k, "completed")
        /\ Told(With(u, [Granted(u, k, "completed") EXCEPT !.pc = "over"]), u,
                IF gens[u].pc = "success" THEN "completed" ELSE "broken")
     \/ /\ Told(With(u, [StoreRefuses(u, k) EXCEPT !.pc = "over"]), u, "broken")
        /\ StoreFails(u, k, "completed")
  /\ UNCHANGED <<socket, run, phase, active, resolved, operation, generating,
                 token, closeReason, emitted, wire, client>>

(***************************************************************************)
(* Heartbeats renew the session lease, then the claim of a running         *)
(* generation.  The timer fires again only when the last beat was taken up *)
(* (a bound: the real one may pile up more of them).                       *)
(***************************************************************************)
Beat == Message("beat", None)

HeartbeatDue ==
  /\ socket # "closed" /\ phase # "new" /\ closeReason # "closed"
  /\ \A u \in Utterances : row[u].version < MaxClaim
  /\ run.task # Beat
  /\ \A k \in 1..Len(tasks) : tasks[k] # Beat
  /\ tasks' = Append(tasks, Beat)
  /\ UNCHANGED <<socket, drainScheduled, run, coreVars, row, emitted, wire,
                 client>>

BeginHeartbeat ==
  /\ Begin(Beat)
  /\ run' = [Idle EXCEPT !.pc = "beat", !.task = Beat]
  /\ UNCHANGED <<socket, drainScheduled, coreVars, row, emitted, wire, client>>

HeartbeatAnswered ==
  /\ run.pc = "beat"
  /\ \/ /\ operation # None /\ generating
        /\ gens' = With(operation, Enqueued(gens[operation], "beat"))
        /\ Wait("renewing")
        /\ UNCHANGED <<socket, tasks, drainScheduled, wire, phase, active, queue,
                       resolved, operation, generating, token, closeReason>>
     \/ /\ operation = None \/ ~generating
        /\ run' = Idle
        /\ UNCHANGED <<socket, tasks, drainScheduled, wire, coreVars>>
     \/ SecurityFailure(gens)
  /\ UNCHANGED <<row, emitted, client>>

\* a claim that is not started any more is left alone
RenewalAnswered(u, k) ==
  /\ Answered(u, k, "beat")
  /\ \/ /\ gens[u].ops[k].claim.phase # "started"
        /\ gens' = With(u, [gens[u] EXCEPT !.ops = RemoveAt(@, k)])
        /\ run' = Idle
        /\ UNCHANGED <<socket, tasks, drainScheduled, wire, row, phase, active,
                       queue, resolved, operation, generating, token, closeReason>>
     \/ /\ gens[u].ops[k].claim.phase = "started"
        /\ StoreGrants(u, k, "started")
        /\ gens' = With(u, Granted(u, k, "started"))
        /\ run' = Idle
        /\ UNCHANGED <<socket, tasks, drainScheduled, wire, phase, active, queue,
                       resolved, operation, generating, token, closeReason>>
     \/ /\ gens[u].ops[k].claim.phase = "started"
        /\ SecurityFailure(With(u, StoreRefuses(u, k)))
        /\ StoreFails(u, k, "started")
  /\ UNCHANGED <<emitted, client>>

(***************************************************************************)
(* The socket closes: from the client, the network, or because the host    *)
(* asked for it.  Work not begun is skipped; what runs goes on waiting.    *)
(***************************************************************************)
SocketClosed ==
  /\ socket # "closed"
  /\ socket' = "closed"
  /\ tasks' = <<>>
  /\ IF phase = "terminal" THEN UNCHANGED coreVars ELSE Terminate(gens, "closed")
  /\ UNCHANGED <<drainScheduled, run, row, emitted, wire, client>>

\* waitForClosedConnections: the installation lost its credential or its
\* rights; the core ends before the socket has closed
Revoked ==
  /\ socket = "open" /\ phase # "terminal"
  /\ Terminate(gens, "revoked")
  /\ socket' = "closing"
  /\ UNCHANGED <<tasks, drainScheduled, run, row, emitted, wire, client>>

ClientStep == ClientReads \/ \E m \in Messages : ClientSends(m)

MessageStep ==
  \/ SkipMessage \/ AudioNeedsGrant \/ StoreAnswers \/ AlreadyTerminal
  \/ SessionStart \/ NotYetOpen \/ Malformed \/ UtteranceStart \/ Binary
  \/ UtteranceCommit \/ UtteranceCancel \/ SessionEnd \/ SessionEnded
  \/ \E m \in Messages : BeginMessage(m)

DrainStep ==
  \/ BeginDrain \/ SkipDrain \/ DrainOverflow \/ TakePartial \/ TakeFinal
  \/ DenyFinal \/ TakeFailure \/ TakeResult \/ EndDrain
  \/ ClassifierAnswers \/ ClaimAcquired \/ ClaimRefused \/ ClaimReleased

StoreStep(u) ==
  \E k \in 1..Len(gens[u].ops) :
    \/ CallStore(u, k) \/ StartPermitted(u, k) \/ StartConsumed(u, k) \/ StartFailed(u, k)
    \/ ReleaseAnswered(u, k) \/ CompleteAnswered(u, k) \/ RenewalAnswered(u, k)

ProviderStep(u) ==
  \/ TranscriptionFailed(u)
  \/ \E kind \in {"partial", "final"}, segment \in Segments :
       TranscriptionEvent(u, kind, segment)

Next ==
  \/ ClientStep \/ MessageStep \/ DrainStep
  \/ HeartbeatDue \/ BeginHeartbeat \/ HeartbeatAnswered \/ SocketClosed \/ Revoked
  \/ \E u \in Utterances :
       \/ ProviderStep(u) \/ StoreStep(u)
       \/ \E result \in {"success", "failure"} : GenerationSettles(u, result)

Spec == Init /\ [][Next]_vars

(***************************************************************************)
(* Fairness.  The event loop runs the work of a connection in turn, and    *)
(* the classifier, the generation service and the security state answer or *)
(* time out.  Nothing is assumed of the client, of the transcription       *)
(* provider, of the timer or of the network.                               *)
(***************************************************************************)
HostStep == MessageStep \/ DrainStep \/ BeginHeartbeat \/ HeartbeatAnswered

Fairness ==
  /\ WF_vars(HostStep)
  /\ \A u \in Utterances :
       /\ WF_vars(StoreStep(u))
       /\ WF_vars(\E result \in {"success", "failure"} : GenerationSettles(u, result))

FairSpec == Spec /\ Fairness

(***************************************************************************)
(* Properties                                                              *)
(***************************************************************************)
PendingEvents == ToSet(Pending(queue))

\* What appendAsyncEvent, the compaction and the drain may do to an event that
\* is not a partial transcript: it waits until the drain takes it, its
\* utterance ends, or a failure of the provider or an overflow supersedes it.
\* The overflow is forgotten only when it ends the session or when a failure of
\* the provider, which will, takes its place.
NoFinalLost ==
  [][/\ \A e \in PendingEvents :
          e.kind # "partial" =>
            \/ e \in ToSet(Pending(queue)')
            \/ e = Taken /\ queue'.head = queue.head + 1
            \/ active'.u # e.u
            \/ active'.failed /\ \E f \in ToSet(Pending(queue)') : f.kind = "failed"
     /\ queue.overflow /\ ~queue'.overflow => phase' = "terminal" \/ active'.failed]_vars

\* The failure of a provider is the last word about its utterance: once the
\* failure callback has run, no final transcript is accepted, and the failure
\* waits for the drain however full the queue was.
FailureWins ==
  active.failed =>
    /\ ~active.final
    /\ \E f \in PendingEvents : f.kind = "failed" /\ f.u = active.u

\* A durable claim that is neither completed nor released is in someone's
\* hands: a store operation waits or runs, the generation service works on it,
\* or the drain is about to start or to release it.  (#finishActive, and the
\* continuations of authorizeGeneration and complete, hand it over.)
OpenClaimsHaveOwner ==
  \A u \in Utterances :
    row[u].phase \in {"claimed", "started"} =>
      \/ gens[u].refused
      \/ gens[u].ops # <<>>
      \/ gens[u].pc = "calling"
      \/ run.pc = "release" /\ run.event.u = u

\* The store is never called with a claim that another call of this relay has
\* already replaced: heartbeat, start, completion and release of a generation
\* run one after the other (#runGenerationSecurityOperation).
NoStaleClaim ==
  \A u \in Utterances : \A k \in 1..Len(gens[u].ops) :
    gens[u].ops[k].claim # NoClaim /\ ~gens[u].refused =>
      gens[u].ops[k].claim = row[u]

Positions(kinds, u) ==
  {k \in 1..Len(wire) : wire[k].kind \in kinds /\ wire[k].u = u}

\* What a client hears about an utterance: one verdict on its final transcript
\* (denied or target); a translation only after 'target' and, at most, once;
\* and nothing at all after it was aborted.
OneOutcome ==
  \A u \in Utterances :
    /\ Cardinality(Positions({"decision", "target"}, u)) <= 1
    /\ Cardinality(Positions({"translation"}, u)) <= 1
    /\ \A k \in Positions({"translation"}, u) :
         \E j \in Positions({"target"}, u) : j < k
    /\ \A k \in Positions({"aborted"}, u) :
         \A j \in Positions({"final", "decision", "target", "translation",
                             "aborted"}, u) : j <= k

\* A translation reaches the client only when the security state has recorded
\* the generation as completed.
TranslationEarned ==
  \A u \in Utterances :
    Positions({"translation"}, u) # {} => row[u].phase = "completed"

\* A client that keeps to the protocol is never refused for breaking it, also
\* when its cancel crosses the end of the utterance on the wire (the memory of
\* recently resolved utterances).
HonestNeverRejected == Honest => closeReason \notin {"protocol", "conflict"}

\* Every event that waits is drained: an idle connection has no pending event,
\* although events come while a drain runs and notify only once.
NothingStranded ==
  socket = "open" /\ phase = "ready" /\ run.pc = "idle" /\ tasks = <<>> =>
    ~HasPending(queue)

\* What waits is heard of: the failure of a provider before anything else, and
\* every event in the end.
NothingForgotten == FailureWins /\ NothingStranded

\* The claims of the durable store are in someone's hands, and up to date.
ClaimsInHand == OpenClaimsHaveOwner /\ NoStaleClaim

\* A final transcript that waits leads to the end of its utterance, whatever
\* the classifier, the store and the generation service answer.
FinalEndsUtterance ==
  \A u \in Utterances :
    (\E e \in PendingEvents : e.kind = "final" /\ e.u = u) ~>
      (active.u # u \/ socket # "open")

\* A row that was claimed for an utterance is settled in the end, unless the
\* store failed one of the calls.
ClaimsSettle ==
  \A u \in Utterances :
    row[u].phase = "claimed" ~>
      row[u].phase \in {"completed", "released"} \/ gens[u].refused
=============================================================================
