# Formal model of palancar

Palancar translates speech in real time for a pair of smart glasses.  A client
on the glasses (`apps/g2-client`) streams audio over a WebSocket to a relay
(`apps/relay`), which transcribes it with one provider, translates the final
transcripts with another, and sends display text back.  The relay admits a
client through a *security state* (`packages/security-state`): pairing codes,
installations with rotating credentials, single-use session tickets, leased
sessions, audio grants and generation authorizations, all under quotas.  It
keeps that state in memory or in Azure tables, which a job sweeps once a day.

The modules here are a TLA+ model of that code, the TLC configurations that
check it on small instances, and proofs that TLAPS checks for every value of
the constants.  `PROJECT.json` maps each definition to the lines it models.

## Inventory

| Component | Where | State | Operations | What is hard | What makes it correct |
|---|---|---|---|---|---|
| Security state (in memory) | `security-state/src/store.ts` | eight tables, rolling rate windows, one accepted clock reading | 20 calls of `SecurityStateStore`, cleanup, snapshot | rows expire unobserved; the clock may step back; calls race in any order; retries with stale arguments; second clock reading inside a call | one live session per installation, only under its current credential; single-use tickets; spent credentials stay spent; quotas; provider starts once |
| Security state (Azure) | `security-state/src/azure-store.ts`, `azure-table-client.ts` | the same rows in two table partitions, read one by one | the same interface, by compare-and-swap | concurrent calls between two reads; conflicts; a transaction whose outcome nobody hears; charges in a write of their own; the two tables share no transaction | the rows fit together; what was answered has happened; a ticket, a start, a grant is paid for once |
| Relay session core | `apps/relay/src/session.ts` | protocol phase, active utterance, generation in flight, event queue (64), recently resolved utterances (8) | one handler per message, provider event, heartbeat, close | `await`s in the middle of a transcript's handling; bounded event queue | one terminal answer per utterance; no text after cancel; claims released |
| Relay host | `apps/relay/src/host.ts` | connections, pending upgrades, per-connection queue, readiness cache | HTTP endpoints, upgrade, message, close, stop | close and revocation run outside the queue | no connection outlives its authority |
| Security cache, promotion and revocation in the host | `apps/relay/src/security-cache.ts`, `host.ts` | two bounded denial maps, upgrades on their way, connections | allow, promotion, revocation, stop | a lease arrives after the news that it is worth nothing; results out of order; eviction; a change made elsewhere | a denial is never forgotten; an answered revocation leaves no connection |
| Audio path | `packages/audio`, `audio-meter.ts`, the utterance of `g2-client/src/transport` | client queue and framer, active and retired utterances, two acceptors with a replay window, grant meter | start, push, commit, cancel, ack, accept, charge | late acks, cancels that cross an end, half samples, pauses, a frame across two grants | samples are forwarded once and in order, and paid for; the client keeps what was not heard; the ends never fall out |
| Transcription adapter | `packages/transcription/src/azure-adapter.ts` | attempt, socket, send queue, items of the provider, commits due, final | start, push, finalize, cancel, close; each event of the service | items complete out of order; voice detection cuts while the session finalizes; late answers, callbacks and timers of an attempt that is over | a final stands for all of the audio; what is over moves nothing; an honest provider is not refused |
| Generation service | `packages/generation/src/service.ts`, `azure-openai.ts` | one run for each turn, its callers, the entry new callers join | complete | a caller leaves while others wait; deadline, abort and answer race; the validator's own timer | callers share one answer; nobody is left on a run that is gone |
| Token source | `packages/azure-auth` | cached token, request in flight with its waiters | get, probe, close | one failure or abort among callers that share it; a request that outlives its waiters | one request in flight; another's abort is not mine |
| Client authentication | `apps/g2-client/src/auth` | durable record, one task at a time | enrol, prepare, rotate, promote, revoke, reset, lease verdicts | crash, lost request or lost answer between network and storage | the client always holds a usable credential; what it reports is durable |
| Client transport | `apps/g2-client/src/transport` | the current connection, starts under way, retired utterances | start, utterance calls, close; socket and timer callbacks | a start superseded at any of its awaits; messages of an old socket | only the session asked for last is heard; a start comes to an end |
| Client runtime and state | `apps/g2-client/src/bridge`, `state` | the reducer's state, event queue, microphone, recovery | gestures, phone calls, transport and controller callbacks, timers, clean-up | a loss acts at once, its event waits in the queue; the microphone answers late, never or with a refusal; the queue overflows | the state agrees with the transport; the microphone is on only in its turn; turns and recoveries end |
| Expiry cleanup job | `tools/expiry-cleanup`, `cleanupExpired` of the store | continuation tokens, budget of rows, watchdog | one job run | rows come and go between pages; a pass spread over calls | a pass reported complete has seen every row |
| Display scheduler | `apps/g2-client/src/display` | pending frame, in-flight write | schedule, flush | coalescing while a write is in flight | the last frame is shown |
| Telemetry, contracts, language registry, tools, infrastructure | | | | no state the program acts on | |

How the parts interact:

1. The client redeems a pairing code over HTTP and keeps a credential; it
   rotates it (begin, promote) and buys session tickets with it.  Every call is
   one method of the store.
2. A WebSocket upgrade consumes a ticket.  The host keeps the lease it got,
   creates a session core and activates the session when the socket opens.
3. Messages, drains and heartbeats of a connection run one after the other in
   a promise queue of the host; they reserve audio grants, renew leases, and
   call the core.  Provider callbacks, generation results, the close of the
   socket and a revocation reach the core *outside* that queue.
4. The core sends audio to the transcription adapter and appends what comes
   back to its event queue, which a drain empties.  An accepted final
   transcript claims a generation authorization, starts it, calls the
   generation service and has the claim completed (or released).
5. Promotion and revocation close the connections of the installation, by a
   direct call in this process; the denial cache keeps later upgrades out.
6. On the client, the runtime feeds gestures and callbacks to the reducer, runs
   the effects it returns, and owns one transport at a time.  The transport asks
   the credential controller for a lease, exchanges it for a ticket and reports
   the relay's verdict on it back.
7. In the cloud the relay's stores and adapters ask the token source for access
   tokens.  Two processes of the relay, the operator's tool and the cleanup job
   meet only in the tables.

## Modules and how they correspond to the code

`SecurityState` is `packages/security-state/src/store.ts` without generations.
A method of the store runs in one JavaScript turn, so a call that succeeds is
one action with the method's name; its guard is the conjunction of the early
returns, and its updates are the rows put into the commit.  The variables are
the tables by row id (`pairing`, `installation`, `credential`, `ticket`,
`session`, `grants`), the accepted clock reading `latest`, and the rolling
windows, which map an instant to what was admitted then.  A call that is
refused only observes the clock (`Observe`), except where the code charges an
attempt first (`RefuseRedemption`) or drops expired grants (`RefuseAudio`).
`reserveAudio` reads the clock twice: `ReserveAudio`, `StrandAudio` and
`RollBackAudio` are its three endings.  A row that cleanup removed stays
"deleted": its id is random and never drawn again.  Secrets, digests and HTTP
shapes are left out; who presents a credential is who names it.

`GenerationClaims` extends it with `authorizeGeneration`, `providerStart`,
`heartbeatGeneration`, `completeGeneration`, `releaseGeneration`, their lazy
expiry and their cleanup.  `held` is every claim some caller was ever given:
any of them may be presented at any time, so retries, duplicates and late
answers of any caller are behaviours of the model.  `starts` counts the
provider requests a caller was allowed to make.

`GenerationOnce` is the abstract promise: an authorization is idle, running or
over, goes forward only and is started once.  `ImplementsOnce` in
`GenerationClaims` is the refinement.

`RelayEventQueue` is the event queue of the session core as operators: append,
coalesce, evict, overflow, compact.  `RelaySession` is one connection: the
host's queue of work (`tasks`, `run`, `drainScheduled`, `socket`) and the core
(`phase`, `active`, `queue`, `resolved`, `operation`, `generating`, `token`,
`gens`), with the durable claim of each utterance (`row`) behind them.  An
action is the code between two `await`s: `run.pc` says what the running piece
of work waits for, and everything that does not go through the queue of work is
enabled while it waits.  The operations on a claim wait in `gens[u].ops`, as
`#runGenerationSecurityOperation` chains them.  The store is modelled by what
its answer may be: granted, refused, or failed with the row changed or not.
`wire`, `closeReason` and `client` are the history and the environment.

`AudioFraming` is `packages/audio` as operators: the client's framer and retained
queue (`Pushed`, `Flushed`, `Acknowledged`, ...) and the relay's acceptor
(`Continues`, `Repeats`, `Accepted`).  A sample is its place in the capture.
`AudioPath` puts them at the two ends of a WebSocket: the transport's active
utterance (`mic`), its queue (`q`) and its retired utterances, `up` and `down`
for the messages on their way, the host's meter of the connection (`meter`, which
has an acceptor of its own), and the utterance of the core (`core`).  Hearing one
message is one action here, as the host hears one at a time; what may happen
while it waits is in `RelaySession`.  `paid` and `heard` are history: the samples
the durable store reserved, and the frames the provider was given.  `kind` tells
this repository's client from one that repeats its `utterance.start` and one that
sends anything.

`Admission` is a relay process with its store behind it, as far as promotion and
revocation go.  `store` is what the durable store holds of an installation, its
credential version and whether it was revoked.  `revoked` and `minimum` are the
two maps of `RelaySecurityCache`, each with the flag that says it once forgot an
entry (`evicted`); which entry it forgets, the least recently used, is left open.
`upgrade[u]` follows one upgrade request: the store gives the lease (`Prepare`),
it reaches the process and the cache is asked (`Open`, `Refuse`), the session is
activated, a heartbeat is refused, the socket closes.  `call[c]` follows one
promotion or revocation through this process: the store's commit, the arrival of
its result (`Apply`: the cache learns, the connections concerned are closed), the
wait for their sockets, the answer.  `Elsewhere` is a change this process never
hears of: another process or the operator's tool made it, or the answer was lost.
`Restart` empties the caches.  `told` is history: what was applied so far.

`AzureTable` is how the durable store uses its tables: a call reads one row at a
time (`seen`), and submits a transaction that lands as a whole if none of the rows
it replaces was written since it was read (`stale` is the etags).  A request may
end with an unknown outcome, landed or not; what follows (`reconcile`, or another
try) is the code's.  `AzureSecurity` gives every operation on codes, installations,
credentials, tickets and sessions as such a call: which rows it reads and in which
order, what it charges in a write of its own before, what it plans from the rows
it saw, how it decides after an ambiguous outcome whether it had succeeded.
`AzureGeneration` adds generation authorizations and audio grants, whose rows are
in the other table; they look at the session again after their write (`post`),
and an audio grant that fails that look is taken back.  `handed` is what clients
hold, and may present at any time.

`ClientAuth` is the controller (`auth/controller.ts`) between its durable record
(`store`) and what the relay knows of each installation (`server`).  A task is at
one of its awaits; `Serve`, `Lose` and `Redeem` are what becomes of its request,
`Arrive` a request that reaches the relay after its caller has gone, `Restart` a
reload of the page, which loses everything but the record.

`ClientTransport` is `transport/index.ts`: every `await` of `startSession` and every
callback of a socket is an action, with the comparison of sources that guards it.
`told` is what the application heard of each start.  `ClientState` is the reducer
(`state/index.ts`) as a function of state and event to state and effects, and
`ClientRuntime` the runtime around it: `rt` is its event queue, the operation under
way with the effects it has left, its transport, microphone, recovery and clean-up;
`world` is what it talks to.

`Transcription` is the Azure adapter with the provider's end of its socket: start
and handshake, frames through the resampler into the send queue, commits by voice
detection or by cadence, finalization, items completed in any order, both timers,
clean-up.  `Handle` is the adapter's table of admitted events and what each does.
`GenerationService` is one turn's completion, `TokenSource` the access tokens; in
both, an action is the code between two awaits and each caller has its own signal.
`ExpiryCleanup` is the job's loop, its watchdog and the paging of
`cleanupExpired`; which rows may go is decided in `AzureSecurity` (`Sweep`) and
`AzureGeneration` (`SweepRate`).

`SecurityStateProofs`, `GenerationClaimsProofs`, `AdmissionProofs`,
`RelaySessionProofs` (who owns a claim), `RelayConversationProofs` (what a client is
told), `ClientTransportProofs`, `ClientAuthProofs` and `ServicesProofs` (the token
source, the generation service, the cleanup job and the transcription session) hold
the theorems.  The modules named `MC...`
are the instances.  `MCConnections`, `MCServices`, `MCClient` and `MCAzure` each hold
several instances of parts that share nothing: `part` says which of them a
behaviour is about, and the others stay as they began.

An operator named `Faulty...` is a plausible mistake in the operator below it.
With the mistake in its place, TLC finds the property named beside it in
`PROJECT.json` violated: no property here holds whatever the code does.

## What the runs check

| Run | Instance | Shows |
|---|---|---|
| `rotation` | 1 pairing, 1 installation, 3 credentials, clock 0..4, tolerance 1 | `CredentialNeverRevives`, `KeysGoWithInstallation`: two rotations, the first of which may expire unnoticed, with idle, pending and absolute deadlines, revocation, cleanup in any order and a clock that steps back |
| `sessions` | 2 credentials, 2 tickets, 2 sessions, clock 0..2 | `OneAuthorisedSession`, `SessionNeverRevives`, `TicketSingleUse`: a second ticket against an opening, running, lapsed, ended or revoked first session, with a promotion in between |
| `quotas` | 3 tickets, 3 sessions in sequence, 1 grant id | `QuotasHold`: sessions that follow one another share the installation's windows; the reservation's second clock reading and its failed rollback |
| `generations` | 1 session, 3 authorizations, quota of 1 per instant and 2 per session | `ChargedOnce`, `ImplementsOnce` (the refinement of `GenerationOnce`) |
| `azure` | 2 concurrent calls with 2 tries each, from 8 starting states | `RowsAgree`, `AnswersStand`, `TicketsCharged`, `ChargedAsPermitted`, `GrantsDisjoint`: any two operations, read by read, with a conflict, an unknown outcome or a lost answer in between |
| `relay_queue` | any client, 1 utterance, 2 segments, queue of 2, fair host | `NothingForgotten`, `OneOutcome`, `NoFinalLost`, `FinalEndsUtterance`, `ClaimsSettle`: coalescing, eviction, compaction and overflow of the event queue |
| `relay_honest` | a client that keeps to the protocol, 2 utterances, 1 remembered utterance | `HonestNeverRejected`, `TranslationEarned`, `ClaimsInHand` |
| `connections`, admission | 2 installations, 1 upgrade, 2 calls, caches of 1 entry, versions 1..3, fair heartbeats | `AnsweredMeansGone`, `TakesHold`: a lease that overtakes or is overtaken by a promotion or revocation, results applied out of order, an eviction, a change made elsewhere, a stop, a restart |
| `connections`, audio | this client or any, 2 utterances of up to 5 samples, frames of 2, grants of 3 | `SamplesAccountedFor`, `NeverAtOdds`, `CancelEnds` |
| `services`, tokens | 3 callers, one of them a probe, 2 requests | `RefreshIsShared` |
| `services`, life | 1 installation, 2 versions | `CredentialKept`: a reload or a loss at any await |
| `services`, voice, commits, odd | an utterance cut by voice detection; two cut by commits; one with an event out of protocol | `FinalIsWhole`, `HonestOnceReady`, `StaleIsSilent` |
| `services`, completion | 3 callers, one without a signal, 2 runs | `CompletionIsShared` |
| `services`, cleanup | 2 tables of 3 places, pages of 2, 3 calls, 1 write of others | `PassIsComplete` |
| `client`, restarts and speaks | 2 starts; 1 start with 3 utterances, 2 of them remembered | `OnlyTheLatestSpeaks`, `OneLiveConnection`, `StartSettles` |
| `client`, turns, losses and phone | 4 or 5 gestures or calls, up to 2 losses, queue of 3 or 4 | `SessionIsCarried`, `MicrophoneInTurn`, `PipelineSettles`, `RecoverySettles` |
| `audio_repeat` | a client that repeats its `utterance.start`, 1 utterance | violates `ForwardedIsPaid`: see below |
| `azure_unreadable` | 2 concurrent `issueTicket` | violates `RowsReadBack`: see below |

Several properties are conjunctions of what each needs the other for:
`OneAuthorisedSession` (one live session, under the current credential),
`KeysGoWithInstallation` (one credential in each role, nothing left of a dead
installation), `NothingForgotten` (a failure outlives the queue, nothing is left in
it), `ClaimsInHand` (an open claim has an owner, whose token is the current one),
`SamplesAccountedFor` (one stream to the provider, an honest client's samples paid,
the client keeps what was not heard), `ChargedAsPermitted` (a start is permitted to
one call, the counters are exact), `CompletionIsShared`, `CredentialKept`,
`OneLiveConnection` and `MicrophoneInTurn`.

Bounds, and why they are enough:

- `MaxTime` bounds the clock.  Lifetimes are scaled down so that every pair of
  deadlines that the code orders (pending before idle before absolute, opening
  before active lease, grant before handoff) can fall on either side of a step,
  and rows can outlive and be outlived by what they refer to.  The proofs need
  no bound on it.
- Three credentials are one current, one pending and the one it replaces; two
  sessions are a predecessor and a successor, three make a window overlap two.
- `MaxClaimVersion` and `MaxLeaseVersion` bound re-issued and renewed claims: a
  version is only compared for equality, so one re-issue and its renewals reach
  every outcome.  `MCGenerationClaims` starts with a session already opened and
  activated at time 0 (a state `SecurityState` reaches), because the steps that
  lead there say nothing about generations.
- `QueueCapacity` 2 (code: 64) with `CompactAt` 2 (code: 32) has all four ways
  to append, an overflow and a compaction in the middle of a drain;
  `MaxRevision` bounds the provider's events, `MaxTasks` the messages waiting,
  `MaxClaim` the heartbeats of a claim.  At most one heartbeat waits in the queue
  of work: a second one that piles up repeats the first.
- `ResolvedCapacity` 1 (code: 8) is exceeded by the second utterance.
- The microphone's callbacks have 3 or 4 bytes: half samples that join up, and a
  callback that makes one frame or two.  Frames of two samples and grants of three
  make a frame reach across two grants; an utterance of five samples takes a
  grant, its renewal and the flush of a short frame.  `ResolvedCapacity` and
  `RetiredCapacity` 1 (code: 8) are exceeded by the second utterance.  `MaxWire`
  bounds the messages on their way in each direction, and a sender waits for it;
  an arbitrary client sends its next message when the last was heard, which
  changes nothing for the relay, as it hears them one at a time.
- In `Admission` one upgrade is enough, since upgrades meet only in the caches and
  never change them.  A cache of one entry (code: 4096) forgets at the second
  installation; two calls make the two results of one installation arrive out of
  order; with versions up to 3 a third change is made elsewhere.  The proofs
  have none of these bounds but the one on versions, which may be any number.
- In `azure` two calls are what a conflict takes; each may try twice, so that a
  retry meets a row its first try may have written.  The starting states are those
  a client brings about alone (paired or not; a rotation under way or not; a session
  opening or active; an authorization claimed, started or released), so that
  both calls are left for the race.  `MaxTime` 1 and lifetimes of 1 and 2 let a
  deadline pass between two reads.  From a session without an
  authorization the grants may be asked for two utterances, otherwise for one.
- In `ClientAuth` every deadline of the first rotation falls within `MaxAuthTime` 3.  A
  second installation repeats the first after a reset: the record is empty then.
  The theorems about it need no bound.
- In `Transcription` half frames tell what the resampler holds back; two frames with
  a commit after each give two items that may complete in either order;
  `QueuePlaces` 3 (code: bytes) is overrun by a socket that is clogged.  One
  event out of protocol shows each refusal once.
- In `GenerationService` and `TokenSource` a second run or request is one begun
  after the first was given up; the third caller is one that cannot withdraw (or
  the readiness probe).  The theorems about both need none of these bounds.
- In `ExpiryCleanup` three places with pages and budgets of two make the pass cross
  pages, tables and calls.  `Limit` may be used up in the middle of a table.  The
  theorem about it needs no bound.
- In `ClientTransport` two starts are what superseding takes; three utterances make
  an answer to the first arrive after the second was cancelled, and the third
  exceeds `RetiredCapacity` 2 (code: 8); the theorems have none of these bounds.  Each part of
  `ClientRuntime` leaves out what it is not about: `turns` has a microphone that
  obeys, `losses` says only the final of an utterance, `phone` no speech.
  `Capacity` 3 or 4 (code: 64) is overrun.
- Tickets, sessions, credentials, utterances and calls are symmetric where a run
  checks no liveness property.

Deadlock is not checked: the clock's bound, the finite sets of ids and calls, and
a closed socket let every instance stop.  That nothing waits forever where the
code promises progress is said by `NothingForgotten`, `FinalEndsUtterance`,
`ClaimsSettle`, `CancelEnds`, `TakesHold`, `StartSettles`, `PipelineSettles` and
`RecoverySettles`.  One wait has no end of its own, and `StartSettles` names it: the
exchange of the lease for a ticket (`#fetchTicket`) has an abort signal and no
deadline, and the ready timer is armed after the socket is made
(`transport/index.ts:707`), so a start whose request is never answered stays pending
until the application starts again or closes.

Fairness.  The store's specifications have none: no call must ever come.
`FairSpec` of `RelaySession` assumes weak fairness of the host's work (the event
loop runs the settled promises of a connection in turn), of each utterance's
store operations (the store's calls have deadlines) and of the generation
service (it has an absolute deadline).  Nothing is assumed of the client, the
transcription provider, the heartbeat timer or the network.  `FairSpec` of
`AudioPath` assumes that messages are heard in the end at either end of a
connection that stays open (the event loops run), and nothing of the user, the
microphone or the grants.  `FairSpec` of `Admission` assumes that the heartbeat of
an active session comes in the end (it is on an interval, `HEARTBEAT_INTERVAL_MS`)
and that a socket being closed closes (`ws` destroys one whose peer does not
answer); nothing of the calls, the upgrades or a stop.  `ClientTransport` assumes
that the credential controller answers a start or a rejection that awaits it (its
own requests have a deadline, `AUTH_HTTP_DEADLINE_MS`; that the glasses' storage
answers is assumed) and that the ready timer fires.  It assumes nothing of the
request for a ticket, the relay or the network.  `ClientRuntime` assumes that the program
goes on, that its timers fire and that the controller answers.  Nothing is assumed of
the user, the network, the relay, or the glasses, which may never answer: their
deadlines do.  `ClaimsSettle` excludes a claim for which the store failed a call: the code leaves it to
expire in the store (`GenerationClaims`).

## What is proved

From `ConstantsAssumption` (deadlines are naturals, quotas are pairs of
naturals, `None` is no id), for every number of rows, every quota, every clock
within the tolerance:

- `TypeInvariant`.  `TypeOK` is not inductive: a call looks up the installation
  that a row names.  `TypeInv` adds that a row in use names an installation and
  that the keys and the session an installation points at have rows.
- `OpenSessionsFenced`.  `OneLiveSession` is not inductive either, since a lease
  that lapsed may be taken over by a call that never saw it.  `OpenFenced` says
  it of every open row, lapsed or not: the active installation points at it,
  with its versions and epoch.  Each step either leaves an open session's standing
  alone and starts no lease, or opens it from nothing (`Continues`).
  `LiveSessionUnique`, `LiveSessionStaysAuthorised` and `DeadSessionStaysDead`
  follow.
- `CredentialsStayBacked`: a usable credential is named by an active
  installation in its role and shares its expiries.  The equality of the pending
  expiry and of the absolute one is what lets a sweep over rows expire the two
  together.  `CredentialRolesUnique` follows, and with the sessions and the
  grants `DeadInstallationsHoldNothing`.
- `OneSessionAuthorised` and `KeysStayWithInstallation`, which the runs check.
- `QuotasAreKept`, from `WindowsStayBounded`.  Admission counts what its own period
  holds, back from its own instant; `QuotasHold` is about every window, wherever
  it ends, and grants and seconds of audio as well as calls.  The invariant says
  that no event of a window is later than the clock the store accepted last, that
  the events before it are within the quota for every end of the period, and that a
  window is finite.  A window maps an instant to what was admitted then, and what it
  holds is counted as its places (`Places`), pairs of an instant and a number, so that
  sums are cardinalities, about which facts are at hand.
- `SpentCredentialsStaySpent`, which needs no invariant, `TicketsOpenOneSession`
  (a ticket that a session row keeps is spent) and `ClosedSessionsHoldNoGrants`.
- `GenerationUsesStore`: generations use the store as any caller does, so all of
  the above holds with them.  `ProviderStartsOnce`, `StartIsRemembered` and
  `ClaimsImplementOnce` follow from `GenerationInv`, which ties the status of an
  authorization to its start count and to the claims that callers hold.
- `TranscriptsChargedOnce`.  `ChargedOnce` relates counters to windows, which forget.
  The invariant (`ChargesCounted`) says that while a session is not over its counters are
  the cardinalities of two sets, its authorizations and those of them that were
  started, each of which a step enlarges by one element or leaves alone, and that
  the windows of starts are bounded as those of the store are.

From `AdmissionAssumption` (a cache holds at least one entry, `None` is no
installation), for any number of installations, upgrades and calls:

- `AnsweredLeavesNone` and `RefusalsHaveCause`, from `StandingInvariant`.
  `AnsweredMeansGone` is not inductive: a lease given before the news still has to
  meet a cache that denies it, and that cache may have forgotten why.  `Standing`
  says that a call's result is true of the store (`InStore`), that a lease or a
  connection names an installation (`HasLease`), that the caches deny
  whatever was applied against, by an entry or by having forgotten one (`Denies`),
  and that an applied call waits for every connection it concerns (`Covered`,
  `Waited`, `Gone`, `Served`).  `Truthful`, that a cache's entry is true of the store,
  gives the reason of a refusal.
- `TypeCorrect`, with the capacity of both caches.

From `TokenAssumption`, for any number of callers and requests and any
lifetimes:

- `RefreshShared`, from `SourceInvariant`.  `RefreshIsShared` is not inductive: the
  request in flight could be one the source has let go of.  The invariant says in
  which stages a request may be the source's, that a caller waits for one that
  was started, and that a request the source has let go of was aborted or is over.

From `ServiceAssumption` (the number of runs is a natural), for any number of
callers, of which any may have no signal of its own:

- `CallersShareCompletion`, from `ServiceInvariant`.  `CompletionIsShared` is not
  inductive: it says who waits for the entry that new callers join, but not that
  this entry goes on.  The invariant adds that the entry is in progress and has been
  neither settled nor aborted, that a run nobody can join any more is over or
  aborted, and that a caller that did not withdraw is attached to the entry or was
  given the outcome of its own run.

From `CleanupAssumption` (the sizes of tables, calls and pages are naturals), for any
number of calls and of writes by others:

- `PassesAreComplete`, from `CleanupInvariant`.  `PassIsComplete` speaks of a job that
  is over.  The invariant says of one that runs where each row is that was there all
  along (`Covered`): looked at, in the page at hand, or in a table that is not
  exhausted at or beyond its token.  A page is looked at to its end only because what
  it holds fits what the call may still visit (`PageFits`); that is what the division
  of the budget between the tables guarantees (`BudgetFits`).

From `UtterancesAssumption` (`Unset` is no utterance), for any number of utterances,
any limits of audio, queue and wire, and a provider that says anything in any order:

- `StaleStaysSilent`, from `AttemptsInvariant`.  A session hands itself from helper to
  helper (`Enqueue`, `Pump`, `Commit`, `MaybeFinish`, `Fail`), any of which may end the
  utterance half-way while its caller goes on.  `Proper` says of a session, wherever it
  is between two helpers, that the utterance, the socket and the message in flight are
  all the current attempt's or all gone; `After` that a helper leaves it so, with the
  same attempt or none.  One lemma per helper, and the lemmas compose as the helpers do.

From `ClientAssumption` (the bound on utterances and the number remembered are
naturals), for any number of starts, connections and messages, awaits answered and
messages delivered in any order:

- `LatestSpeaks` and the first half of `OneConnectionLives` (`OneConnection`), from
  `ConnectionInvariant`.  That only the latest start is heard rests on sources that
  compare equal: every task, callback and verdict compares the one it was given with
  the transport's.  The invariant (`IInv`) says for what an equal source stands: the
  connection in use, a task whose source is current and a verdict whose source is
  current each belong to the start the application wants and has not been told the
  end of (`InUse`, `Asking`, `Judging`); generations never exceed the transport's; and a
  verdict that is current is alone, for it ends its start without a new generation.
- The second half of `OneConnectionLives` (`OverIsOver`), for a session of any number
  of utterances, from `Memory`.  The client remembers a bounded number of retired
  utterances (eight in the code), and what the relay says of one that was over
  before those is told again: what can be promised, and is proved, is that none of
  the last `RetiredCapacity` to be over is heard of.  `Memory` says why: what is
  remembered is exactly the last ends the application was told, in their order
  (`Holds`), also when a new end pushes out the oldest (`Remembering`), and the
  active utterance is not among them.

From `LifetimesAssumption` (lifetimes are naturals, and that of a pending credential
is no longer than the rotation period; the code has five minutes and thirty days), for
any clock, any number of installations, rotations and grants, and any request or
answer that is lost, late or cut off by a reload:

- `CredentialIsKept`, from `ControllerInvariant`.  `CredentialKept` compares the record
  with the relay's row and is far from inductive: a promotion that reached the relay is
  known to the client only by an answer that may be lost, and a request given up may
  still reach the relay while another task is under way.  The invariant is a conjunction
  of what holds between actors.  `Credited`: whatever a task or a message adrift
  presents names an installation there is.  `Sound`, of the durable record and of the
  controller's own: the credential the row relies on is the record's current or its
  pending one, or its deadline has passed (`Relied`); a pending one is either still
  the row's or dead (`InOrder`, `Held`); and a confirmation adrift can promote only what
  the record names (`Expected`).  `Flow`: at which await a task is and what it has
  in hand there.  `Durable`: record and store differ only while a save or a clear is under way
  or after one failed.  `Answered`: an answer that came is still true of the row when
  the task takes it.  `SoundAt` is a predicate of a record, rows, a clock and
  messages, so that one lemma for each thing that can happen to these (a row is served,
  requests are lost, a message is sent, time passes) serves the record and the store.

From `RelayAssumption` (`None` is no utterance), for any utterances and events,
whatever the client, the provider, the classifier, the store and the generation
service answer, and with the socket closed at any point:

- `ClaimsStayInHand`.  An open claim has an owner only because of what surrounds it:
  where the running piece of work is and what it waits for (`Waiting`), what it knows
  of the utterance it works for (`Knows`), that work runs in turn (`InTurn`), that
  heartbeats on a claim are one at a time (`OneBeat`), and for each utterance which
  store operations may still be queued on its claim (`Owned`).  `IInv` is their
  conjunction with the shapes of the records.  Every step concerns one utterance,
  and the lemmas say first what it leaves alone.

From `QueueAssumption` as well (the queue holds at least one event), for a queue of
any capacity and any threshold of compaction, in `RelayConversationProofs`:

- Lemmas about the queue.  `AppendedShape` says what an append does to the events
  (`Grown`): none comes but the new one, none goes but a partial transcript or what a
  failure supersedes, and a failure of the only utterance that waits is left alone.
  Purging is a filter, written as a recursive function (`Without`) whose value is had
  from the least length for which a claim would fail (`Least`, from the library's
  well-founded induction on numbers); compaction keeps what waits.
- `NothingIsForgotten`.  The actions come down to few kinds of step on the
  core (`CoreStep`: an utterance begins, ends or is committed, an event is
  taken or appended, a claim goes on) and on the running work (`RunStep`).  The
  invariant has three parts.  `Shape`: everything in the queue of work, in the
  queue of events and in hand is a message, an event or a task of the code's
  shape, an operation on a claim is for the active utterance after its final, and
  no second final is to come while one is being handled.  `LastWord`: all that waits is of the active utterance, and after a
  failure it is that failure alone.  `Drained`: on an open connection with an event
  waiting a drain is scheduled, and a scheduled drain is running or in the queue of work.
- `FinalsAreKept`, of each step: `Handled` follows what waited through it.
- `TranslationsAreEarned` and `OutcomesAreOne`, from `Conversation`, which adds that an
  utterance begins at most once (`BegunAtMostOnce`: its start is queued, being
  handled, or past and never to return), that how far its generation has come agrees
  with its claim, its operation and the queue (`Lives`), and of which words a step may
  send at most one (`Words`, `Says`).  `Earned` then says that an event of a
  finished generation in the queue and a translation on its way are of a claim whose
  row is completed; and `ToldOnce`, of what was said of an utterance so far: no
  outcome at all while its final is not authorized yet, no abort, decision or
  translation while it is active, and its target turn once a generation runs for it.

Proved and run no longer, since the proof says more than a small instance:
`TypeCorrect` of every module, `ProviderStartsOnce`, `StartIsRemembered`,
`ClosedSessionsHoldNoGrants` and `RefusalsHaveCause`.

Only model-checked: that the core never rejects an honest client
(`HonestNeverRejected`), which relates every message under way to what the relay
remembers, for a client whose utterances outnumber that memory; everything about
`AudioPath` (`SamplesAccountedFor`, `NeverAtOdds`), the Azure store (`RowsAgree`,
`AnswersStand`, `TicketsCharged`, `ChargedAsPermitted`, `GrantsDisjoint`), the client's
runtime (`SessionIsCarried`, `MicrophoneInTurn`), and what `Transcription` promises of
a final transcript (`FinalIsWhole`, `HonestOnceReady`), which rest on larger inductive
invariants still; and the liveness properties, which are out of TLAPS's reach with
`ENABLED` and fairness.

## Where the code and its documents disagree

- `audio_repeat`: `docs/adr/0001-protocol-v1.md:110` calls `utterance.start`
  idempotent and lines 88-90 allow no sample to be forwarded beyond the grant.
  A repeated start of the active utterance is nothing to the core
  (`session.ts:1564`), but the host has already reserved a second grant from
  offset 0 and replaced the meter and the acceptor of the connection
  (`host.ts:2835`).  The host's new acceptor rejects the next frame for a gap,
  and a rejected frame goes to the core unmetered (`host.ts:2787`), where the
  core's own acceptor takes it for the next one.  In the run, samples beyond the
  grant reach the provider.  The client of this repository never repeats a start:
  `HonestAudioIsPaid` holds in `connections`.
- `azure_unreadable`: `#chargeWindow` appends a charge with the instant at which its
  call began (`azure-store.ts:1406`).  A call that began later may have written the
  window meanwhile; the conflict makes the first read it again, and it appends the
  older instant behind the newer.  `encodeWindowEvents` does not look at the
  order, `decodeWindowEvents` fails on it (`azure-schema.ts:232`).  The window can
  never be read again: its scope answers `state-unavailable` for ever, and the
  cleanup that ADR 0003 (lines 202-204, 213) relies on fails on that row.  In the
  run two tickets asked for at once suffice.

Met while reading, without a run:

- The same lines call `utterance.commit` idempotent and say that one for an
  earlier turn cannot affect the active one; `#handleUtteranceCommit` ends the
  session when the utterance is not the active one (`session.ts:1740`).
- The protocol's flow state is `normal`, `pause` or `abort`
  (`docs/adr/0001-protocol-v1.md:96`); the relay only ever sends `normal`.
- A socket that closes while its `session.start` is awaiting the store leaves the
  connection closed and still starts its heartbeat (`host.ts:2819-2826`), which
  nothing clears after that (`host.ts:2876`).

- An installation that is past its idle expiry and not yet swept may still be
  revoked by the operator; `revokeInstallation` then writes a `lastActivityAt` beyond
  `idleExpiresAt`, which `parseInstallation` refuses from then on.
- When the answer to a promotion is lost, the relay has retired the current credential
  and the client does not know.  At the pending one's deadline the client drops it
  for the retired one (`auth/controller.ts:538`, `547`) and has to enrol again, where
  `docs/adr/0003-client-authentication.md:41-43` says that "pending `v+1` expires after
  five minutes and `v` remains valid".  `NeverStranded` promises a usable credential
  until that deadline only.
- The cleanup deletes a lapsed pending credential while its installation goes on
  naming it; `revokeCurrentInstallation` then reads a row that is not there and
  answers `state-unavailable` (near `azure-store.ts:2293`), where ADR 0003:46 has
  revocation succeed.
- `finalize()` moves the transcription session to `finalizing`
  (`azure-adapter.ts:867`), while `session.created` and `session.updated` are admitted
  in `configuring` only (lines 156-190, 1397).  An utterance finalized during the
  handshake therefore fails although its provider is honest, against the comment of
  lines 50-52.  `HonestOnceReady` says what is left: it excepts just this case.
- A transport lost while its `session.ready` is still in the runtime's queue
  (`bridge/runtime.ts:2259-2283`): the ready is dropped (line 1625), and the loss is
  reduced in a state that does not know the session (`state/index.ts:1600-1604`).  The
  client stays ready for a session that cannot come, against
  `docs/adr/0001-protocol-v1.md:113-122`.  `SessionIsCarried` is about established
  sessions.
- The client's recovery budget goes with the recovery's context, while ADR 0003:216-220
  counts reconnects in a rolling window whatever session they open (the store's own
  window does); a microphone opened while a loss is pending throws, which is
  fatal to the runtime.
- `authorizeGeneration` whose replace of a released row has an unknown outcome may
  answer `duplicate-in-flight` for its own claim, until the lease lapses;
  `sessionMutation` recognises its own write by the last operation's id only, and
  `cleanupExpired` advances its continuation token before it has visited the page.

## What is left out, and why

Inside the modelled parts:

- Audio is what the acceptor and the provider make of a frame: offsets, gaps and
  acknowledgements belong to the audio path.  Negotiation, metrics, log lines,
  message contents and validation of message shapes are left out; a malformed
  message is one action.
- The deny-all mode of the core and the classifier's verdict are a choice.
- An overflow is noticed when a drain begins, as in `drainAsyncEvents`.
- A target turn that cannot be created (it fails only on text that its validator
  refuses) and a store whose `complete` throws before it returns a promise are
  left out.  A socket error is its close.
- `beforeServerMessageDelivery` is a hook of the tests.
- A store failure may or may not have changed the row.
- In the audio path the relay may ask for `pause`, which the relay of this
  repository never does, so that the client's half is checked; neither asks for
  `abort`.  The queue's `replay` and `reset` are called by no part of the client.
  What becomes of a committed utterance is one step (`Resolve`).

- In the Azure modules the readiness probe's counter row and the encoding of rows are
  left out, the latter but for what `RowsReadBack` says of the windows.
- In the client, boot failures, voice enrolment, the phone's listeners, swipes between
  languages and results, and wording.  There is one recovery window, the clean-up
  drops a run in flight, an answer about a page that comes after its timeout is
  ignored, and the glasses' microphone changes when they answer.
- In `Transcription` the texts of partials, segment ids and `clear` messages; "error"
  stands for every error event and every refused message.  In `GenerationService`
  prompts, response shapes and evidence text.
- `checkReadiness` of the adapters, which opens a connection and throws it away.
- `ExpiryCleanup` is one run of the job, and configuration parsing is left out: a job
  without configuration fails before its first call.

Not modelled at all: see `PROJECT.json`.  Telemetry, contracts, tools, the
language registry and the infrastructure keep no state that the program acts on;
voice enrolment is floating-point arithmetic.

## Plan

In the order of what the program's promises depend on most.  All of these
exist; the last column is what is left.

| | Module | Composes | Left |
|---|---|---|---|
| 1 | `SecurityState` | | |
| 2 | `GenerationClaims`, `GenerationOnce` | 1 | |
| 3 | `RelayEventQueue`, `RelaySession` | 3a in 3b; claims as in 2 | proof: an honest client is never rejected |
| 4 | `AudioFraming`, `AudioPath` | 4a at both ends of 4b: client queue, relay acceptors, grant meter | proof: an honest client's host and core acceptors agree |
| 5 | `Admission` | security cache, host's upgrades, promotion and revocation | |
| 6 | `AzureTable`, `AzureSecurity`, `AzureGeneration` | each extends the one before | the refinement of `GenerationOnce` by call (`ChargedAsPermitted` is what matters of it); proof of `RowsAgree` from the etags |
| 7 | `ClientAuth` | controller and record against the store's calls | |
| 8 | `ClientTransport`, `ClientState`, `ClientRuntime` | 8b in 8c; 8a by what it may report | enrolment, boot failures, swipes |
| 9 | `Transcription`, `GenerationService` | adapter against its provider | readiness probes |
| 10 | `TokenSource`, `ExpiryCleanup` | | display scheduler |

A new module gets a part of one of the composed runs, with the smallest
instance in which its hazard happens; the bounds are chosen as above.
