---------------------------- MODULE AudioFraming ----------------------------
(***************************************************************************)
(* The audio library both ends use (packages/audio): the client's framer   *)
(* and retained queue, and the relay's ordered frame acceptor, as the      *)
(* values they turn into.  A sample is known by its place in the capture:  *)
(* a frame's data is the place of its first sample, its offset what the    *)
(* header says.                                                            *)
(***************************************************************************)
EXTENDS Naturals, Sequences, FiniteSetsExt

CONSTANTS
  CoalesceSamples,  \* DEFAULT_PCM_COALESCING_TARGET_SAMPLES
  PayloadSamples,   \* the limit maxAudioPayloadBytes, in samples
  MaxUnacked,       \* the limit maxUnacknowledgedSamples
  MaxReplay,        \* the limit maxRetainedReplaySamples
  MaxUtterance      \* the limit maxUtteranceSamples

Frame(u, seq, offset, count, data) ==
  [u |-> u, seq |-> seq, offset |-> offset, count |-> count, data |-> data]

End(f) == f.offset + f.count

(***************************************************************************)
(* ClientRetainedAudioQueue and its PcmChunkFramer.  pending and odd are   *)
(* the framer's: whole samples not yet framed, and half a sample.          *)
(***************************************************************************)
NewQueue ==
  [captured |-> 0, encoded |-> 0, acked |-> 0, seq |-> 0, retained |-> <<>>,
   pending |-> 0, odd |-> 0]

Target == Min({CoalesceSamples, PayloadSamples, MaxReplay, MaxUnacked})

\* the samples that bytes complete
NewSamples(q, bytes) == (bytes + q.odd) \div 2

Overflows(q, bytes) ==
  LET n == NewSamples(q, bytes) IN
  \/ q.captured - q.acked + n > MaxUnacked
  \/ q.captured - q.acked + n > MaxReplay
  \/ q.captured + n > MaxUtterance

\* #encodePayloads: k payloads of n samples each, from the oldest pending one
Encodings(u, q, k, n) ==
  [i \in 1..k |-> Frame(u, q.seq + i - 1, q.encoded + (i - 1) * n, n,
                        q.captured - q.pending + (i - 1) * n)]

Encode(u, q, k, n) ==
  [q EXCEPT !.seq = @ + k, !.encoded = @ + k * n, !.pending = @ - k * n,
            !.retained = @ \o Encodings(u, q, k, n)]

\* the framer takes bytes in
Taken(q, bytes) ==
  [q EXCEPT !.captured = @ + NewSamples(q, bytes),
            !.pending = @ + NewSamples(q, bytes),
            !.odd = (bytes + @) % 2]

\* push, of bytes that do not overflow: the frames it returns, the queue it
\* leaves
PushFrames(u, q, bytes) ==
  LET t == Taken(q, bytes) IN Encodings(u, t, t.pending \div Target, Target)
Pushed(u, q, bytes) ==
  LET t == Taken(q, bytes) IN Encode(u, t, t.pending \div Target, Target)

\* flush: what is pending becomes one frame, half a sample is thrown away
Tails(q) == IF q.pending > 0 THEN 1 ELSE 0
FlushFrames(u, q) == Encodings(u, q, Tails(q), q.pending)
Flushed(u, q) == [Encode(u, q, Tails(q), q.pending) EXCEPT !.odd = 0]

\* acknowledge: stale, applied or invalid
Stale(q, offset) == offset =< q.acked
Boundary(q, offset) == \E i \in DOMAIN q.retained : End(q.retained[i]) = offset

\* an ack at a frame boundary lets go of the frames before it
Acknowledged(q, offset) ==
  [q EXCEPT !.acked = offset,
            !.retained = SelectSeq(@, LAMBDA f : End(f) > offset)]

(***************************************************************************)
(* RelayOrderedFrameAcceptor.  live are the fingerprints: the frames of    *)
(* the last MaxReplay samples.                                             *)
(***************************************************************************)
NewAcceptor(u) == [u |-> u, seq |-> 0, offset |-> 0, live |-> <<>>]

\* what #validateFrame asks of a frame
FitsPayload(f) == f.count =< PayloadSamples
FitsUtterance(f) == End(f) =< MaxUtterance
Fits(f) == FitsPayload(f) /\ FitsUtterance(f)

\* accept: the next frame, a frame it remembers, or else a frame to reject
\* for a gap, an overlap, a conflict or another utterance
Continues(a, f) ==
  Fits(f) /\ f.u = a.u /\ f.seq = a.seq /\ f.offset = a.offset
Repeats(a, f) ==
  Fits(f) /\ f.u = a.u /\ f.seq < a.seq /\ f \in {a.live[i] : i \in DOMAIN a.live}

\* an accepted frame; fingerprints older than the replay window are evicted
Accepted(a, f) ==
  LET through == a.offset + f.count IN
  [a EXCEPT !.seq = @ + 1, !.offset = through,
            !.live = SelectSeq(Append(@, f),
                               LAMBDA g : through - g.offset =< MaxReplay)]
=============================================================================
