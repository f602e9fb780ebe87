--------------------------- MODULE RelayEventQueue ---------------------------
(***************************************************************************)
(* The queue of asynchronous events of a relay session (appendAsyncEvent   *)
(* and compactEventQueue of apps/relay/src/session.ts): transcription      *)
(* callbacks and generation results wait here until the connection drains  *)
(* them.  It is bounded; partial transcripts give way to everything else,  *)
(* and a queue full of other events ends the session.                      *)
(***************************************************************************)
EXTENDS Naturals, Sequences, SequencesExt

CONSTANTS
  QueueCapacity,   \* 64
  CompactAt        \* 32

ASSUME QueueAssumption == QueueCapacity \in Nat \ {0}

\* events up to head were taken by a drain and are not cut off yet
EmptyQueue == [events |-> <<>>, head |-> 0, overflow |-> FALSE]

Pending(q) == SubSeq(q.events, q.head + 1, Len(q.events))

HasPending(q) == q.overflow \/ q.head < Len(q.events)

Compact(q) ==
  IF q.head > 0 /\ (q.head >= CompactAt \/ 2 * q.head >= Len(q.events))
  THEN [q EXCEPT !.events = Pending(q), !.head = 0] ELSE q

\* the queue with its pending events replaced
WithPending(q, p) == [q EXCEPT !.events = SubSeq(q.events, 1, q.head) \o p]

\* p without the events of an utterance
Without(p, u) ==
  LET Others[k \in 0..Len(p)] ==
        IF k = 0 THEN <<>>
        ELSE IF p[k].u = u THEN Others[k - 1] ELSE Append(Others[k - 1], p[k])
  IN  Others[Len(p)]

\* A failure of the provider supersedes what waits for the same utterance.
\* (Two failures of an utterance never wait: appendFailure is called once.)
Purge(p, e) == IF e.kind = "failed" THEN Without(p, e.u) ELSE p

\* the positions of the partial transcripts that e replaces
Coalesced(p, e) ==
  {k \in 1..Len(p) : /\ e.kind = "partial" /\ p[k].kind = "partial"
                     /\ p[k].u = e.u /\ p[k].segment = e.segment}

\* the positions of the events that may be evicted
FaultyEvictable(p) == 1..Len(p)
Evictable(p) == {k \in 1..Len(p) : p[k].kind = "partial"}

First(S) == CHOOSE k \in S : \A j \in S : k <= j

\* what waits once e was offered to a queue where p waits
Offered(p, e) ==
  IF Coalesced(p, e) # {} THEN Append(RemoveAt(p, First(Coalesced(p, e))), e)
  ELSE IF Len(p) < QueueCapacity THEN Append(p, e)
  ELSE IF Evictable(p) # {} THEN Append(RemoveAt(p, First(Evictable(p))), e)
  ELSE p

\* e is neither a partial transcript nor finds one to evict
Overflows(q, e) ==
  LET p == Purge(Pending(q), e) IN
  /\ ~q.overflow \/ e.kind = "failed"
  /\ e.kind # "partial"
  /\ Len(p) >= QueueCapacity
  /\ Evictable(p) = {}

Refuses(q, e) == q.overflow /\ e.kind # "failed"

\* #appendAsyncEvent
Appended(q, e) ==
  IF Refuses(q, e) THEN q
  ELSE LET c == Compact(q) IN
       [WithPending(c, Offered(Purge(Pending(c), e), e))
          EXCEPT !.overflow = Overflows(q, e)]

\* the drain is asked for
Notifies(q, e) ==
  /\ ~Refuses(q, e)
  /\ \/ Overflows(q, e)
     \/ Offered(Purge(Pending(q), e), e) # Pending(q)
=============================================================================
