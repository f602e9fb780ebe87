------------------------- MODULE RelaySessionProofs -------------------------
(***************************************************************************)
(* An open claim of a relay session has an owner who knows it, whatever    *)
(* the client, the provider, the store, the socket and the timer do: for   *)
(* any number of utterances and segments, queues and clients of any kind.  *)
(***************************************************************************)
EXTENDS RelaySession, SequenceTheorems, TLAPS

ClaimRecords ==
  [phase : {"none", "claimed", "started", "completed", "released"}, version : Nat]
OpRecords == [op : {"start", "release", "beat", "complete"}, claim : ClaimRecords]
GenRecords ==
  [claim : ClaimRecords, ops : Seq(OpRecords),
   pc : {"none", "calling", "success", "failure", "over"},
   aborted : BOOLEAN, refused : BOOLEAN]

Has(g, kinds) == \E k \in 1..Len(g.ops) : g.ops[k].op \in kinds
Busy(u, g, op) == Len(g.ops) > 0 \/ g.pc = "calling" \/ op = u
Releasing(u, rn) == rn.pc = "release" /\ rn.event.u = u

\* only the first operation was called, and a start has the drain wait for it
InTurn(u, g, rn) ==
  \A k \in 1..Len(g.ops) :
    /\ g.ops[k].claim # NoClaim => k = 1
    /\ g.ops[k].op = "start" => k = 1 /\ rn.pc = "start" /\ rn.event.u = u

\* nothing of the generation holds another claim than the row's
Knows(u, g, c, op) ==
  /\ Busy(u, g, op) => g.claim = c
  /\ \A k \in 1..Len(g.ops) : g.ops[k].claim # NoClaim => g.ops[k].claim = c

\* which operations may wait beside one another, and on which claim
Waiting(u, g, c, op, gen) ==
  /\ Has(g, {"start"}) => c.phase = "claimed" /\ (op = u \/ Has(g, {"release"}))
  /\ \A k \in 1..Len(g.ops) :
       g.ops[k].op = "release" => k = Len(g.ops) /\ op # u /\ g.pc # "calling"
  /\ Has(g, {"beat", "complete"}) \/ g.pc = "calling" \/ (gen /\ op = u) =>
       c.phase # "claimed"

Owned(u, g, c, op, rn) ==
  /\ c.phase \in {"claimed", "started"} =>
       Has(g, {"start", "release", "complete"}) \/ g.pc = "calling" \/ Releasing(u, rn)
  /\ Releasing(u, rn) => ~Busy(u, g, op) /\ c.phase = "claimed"

GenSound(u, g, c, op, gen, rn) ==
  /\ InTurn(u, g, rn)
  /\ Busy(u, g, op) => c # NoClaim
  /\ ~g.refused => Knows(u, g, c, op) /\ Waiting(u, g, c, op, gen) /\ Owned(u, g, c, op, rn)

\* one heartbeat at most waits for the store, and the host for it
OneBeat(G, rn) ==
  \A u, v \in Utterances : \A k \in 1..Len(G[u].ops), j \in 1..Len(G[v].ops) :
    G[u].ops[k].op = "beat" =>
      rn.pc = "renewing" /\ (G[v].ops[j].op = "beat" => u = v /\ k = j)

Shapes(G, R, gen) ==
  /\ G \in [Utterances -> GenRecords] /\ R \in [Utterances -> ClaimRecords]
  /\ gen \in BOOLEAN

Sound(G, R, op, gen, a, rn) ==
  /\ Shapes(G, R, gen)
  /\ op # None => op = a
  /\ gen => op # None
  /\ OneBeat(G, rn)
  /\ \A u \in Utterances : GenSound(u, G[u], R[u], op, gen, rn)

RunShape(rn) ==
  rn = [pc |-> rn.pc, task |-> rn.task, event |-> rn.event, out |-> rn.out,
        batch |-> rn.batch]
ActiveShape(a) ==
  a = [u |-> a.u, committed |-> a.committed, final |-> a.final,
       failed |-> a.failed, revision |-> a.revision]

IInv ==
  /\ Sound(gens, row, operation, generating, active.u, run)
  /\ RunShape(run) /\ ActiveShape(active)

LEMMA SoundInHand == ASSUME IInv PROVE ClaimsInHand
<1>1. \A u \in Utterances : GenSound(u, gens[u], row[u], operation, generating, run)
  BY DEF IInv, Sound
<1>2. gens \in [Utterances -> GenRecords]
  BY DEF IInv, Sound, Shapes
<1>3. ASSUME NEW u \in Utterances, row[u].phase \in {"claimed", "started"}
      PROVE  \/ gens[u].refused \/ gens[u].ops # <<>> \/ gens[u].pc = "calling"
             \/ run.pc = "release" /\ run.event.u = u
  <2>1. gens[u].ops = <<>> => ~Has(gens[u], {"start", "release", "complete"})
    BY DEF Has
  <2>2. QED
    BY <1>1, <1>3, <2>1 DEF GenSound, Owned, Releasing
<1>4. NoStaleClaim
  BY <1>1 DEF NoStaleClaim, GenSound, Knows
<1>5. QED
  BY <1>3, <1>4 DEF ClaimsInHand, OpenClaimsHaveOwner

(***************************************************************************)
(* The list of operations                                                  *)
(***************************************************************************)
\* Without its first operation the list is as it was, one place on.
LEMMA FirstRemoved ==
  ASSUME NEW s \in Seq(OpRecords), Len(s) > 0
  PROVE  /\ RemoveAt(s, 1) \in Seq(OpRecords) /\ Len(RemoveAt(s, 1)) = Len(s) - 1
         /\ \A j \in 1..(Len(s) - 1) : RemoveAt(s, 1)[j] = s[j + 1]
<1> DEFINE p == SubSeq(s, 1, 0)
           q == SubSeq(s, 2, Len(s))
<1>1. Len(s) \in Nat /\ Len(s) >= 1
  OBVIOUS
<1>2. p \in Seq(OpRecords) /\ Len(p) = 0
  OBVIOUS
<1>3. q \in Seq(OpRecords) /\ Len(q) = Len(s) - 1 /\ \A j \in 1..(Len(s) - 1) : q[j] = s[j + 1]
  <2>1. \A i \in 2..Len(s) : s[i] \in OpRecords
    BY <1>1
  <2>2. /\ q \in Seq(OpRecords) /\ Len(q) = IF 2 <= Len(s) THEN Len(s) - 2 + 1 ELSE 0
        /\ \A j \in 1..(Len(s) - 2 + 1) : q[j] = s[2 + j - 1]
    BY <1>1, <2>1, SubSeqProperties
  <2> HIDE DEF q
  <2>3. ASSUME NEW j \in 1..(Len(s) - 1) PROVE q[j] = s[j + 1]
    <3>1. j \in 1..(Len(s) - 2 + 1) /\ 2 + j - 1 = j + 1
      BY <1>1
    <3>2. QED
      BY <2>2, <3>1
  <2>4. q \in Seq(OpRecords) /\ Len(q) = Len(s) - 1
    <3>1. Len(q) = IF 2 <= Len(s) THEN Len(s) - 2 + 1 ELSE 0
      BY <2>2
    <3> HIDE DEF q
    <3>2. ASSUME NEW n \in Nat, n >= 1
          PROVE  (IF 2 <= n THEN n - 2 + 1 ELSE 0) = n - 1
      <4>1. CASE n = 1
        BY <4>1
      <4>2. CASE n >= 2
        BY <4>2
      <4>3. QED
        BY <3>2, <4>1, <4>2
    <3>3. q \in Seq(OpRecords)
      BY <2>2
    <3>4. QED
      BY <1>1, <3>1, <3>2, <3>3
  <2>5. \A j \in 1..(Len(s) - 1) : q[j] = s[j + 1]
    BY <2>3
  <2>6. QED
    BY <2>4, <2>5
<1>4. RemoveAt(s, 1) = p \o q
  BY DEF RemoveAt
<1> HIDE DEF p, q
<1>5. QED
  BY <1>1, <1>2, <1>3, <1>4

\* An operation that is answered is the first; none of those behind it was
\* called, and none of them is a start.
LEMMA AnsweredFirst ==
  ASSUME NEW u, NEW g \in GenRecords, NEW rn, InTurn(u, g, rn),
         NEW k \in 1..Len(g.ops), g.ops[k].claim # NoClaim
  PROVE  /\ k = 1 /\ Len(g.ops) > 0 /\ RemoveAt(g.ops, k) \in Seq(OpRecords)
         /\ Len(RemoveAt(g.ops, k)) = Len(g.ops) - 1
         /\ \A j \in 1..(Len(g.ops) - 1) :
              /\ RemoveAt(g.ops, k)[j] = g.ops[j + 1]
              /\ RemoveAt(g.ops, k)[j].claim = NoClaim
              /\ RemoveAt(g.ops, k)[j].op # "start"
<1>1. g.ops \in Seq(OpRecords) /\ k = 1 /\ Len(g.ops) \in Nat /\ Len(g.ops) > 0
  BY DEF GenRecords, InTurn
<1>2. /\ RemoveAt(g.ops, 1) \in Seq(OpRecords)
      /\ Len(RemoveAt(g.ops, 1)) = Len(g.ops) - 1
      /\ \A j \in 1..(Len(g.ops) - 1) : RemoveAt(g.ops, 1)[j] = g.ops[j + 1]
  BY <1>1, FirstRemoved
<1>3. \A j \in 1..(Len(g.ops) - 1) :
        g.ops[j + 1].claim = NoClaim /\ g.ops[j + 1].op # "start"
  BY <1>1 DEF InTurn
<1>4. QED
  BY <1>1, <1>2, <1>3

\* Enqueued leaves what waits and puts one operation, not called, behind it.
LEMMA EnqueuedLast ==
  ASSUME NEW g \in GenRecords, NEW op \in {"start", "release", "beat", "complete"}
  PROVE  LET h == Enqueued(g, op) IN
         /\ h \in GenRecords /\ Len(h.ops) = Len(g.ops) + 1 /\ Len(g.ops) \in Nat
         /\ h.ops[Len(g.ops) + 1].op = op /\ h.ops[Len(g.ops) + 1].claim = NoClaim
         /\ \A k \in 1..Len(g.ops) : h.ops[k] = g.ops[k]
         /\ h.claim = g.claim /\ h.pc = g.pc /\ h.refused = g.refused
         /\ h.aborted = g.aborted
<1> DEFINE o == [op |-> op, claim |-> NoClaim]
           t == Append(g.ops, o)
<1>1. o \in OpRecords /\ o.op = op /\ o.claim = NoClaim
  BY DEF OpRecords, ClaimRecords, NoClaim
<1>2. g.ops \in Seq(OpRecords)
  BY DEF GenRecords
<1> HIDE DEF o
<1>3. /\ t \in Seq(OpRecords) /\ Len(t) = Len(g.ops) + 1 /\ Len(g.ops) \in Nat
      /\ t[Len(g.ops) + 1] = o /\ \A k \in 1..Len(g.ops) : t[k] = g.ops[k]
  BY <1>1, <1>2
<1>4. Enqueued(g, op) = [g EXCEPT !.ops = t]
  BY DEF Enqueued, o
<1> HIDE DEF t
<1>5. QED
  BY <1>1, <1>3, <1>4 DEF GenRecords

(***************************************************************************)
(* What leaves the generations alone                                       *)
(***************************************************************************)
Alike(G, H) ==
  \A u \in Utterances :
    /\ H[u].ops = G[u].ops /\ H[u].claim = G[u].claim
    /\ H[u].pc = G[u].pc /\ H[u].refused = G[u].refused

\* Where one family of generations has its heartbeats, the other has one.
BeatsAmong(G, H) ==
  \A v \in Utterances : \A k \in 1..Len(H[v].ops) :
    H[v].ops[k].op = "beat" => k \in 1..Len(G[v].ops) /\ G[v].ops[k].op = "beat"

\* No step has two heartbeats under way that brings none.
LEMMA NoNewBeat ==
  ASSUME NEW G, NEW H, NEW rn, OneBeat(G, rn), BeatsAmong(G, H)
  PROVE  OneBeat(H, rn)
<1>1. SUFFICES ASSUME NEW x \in Utterances, NEW y \in Utterances,
                      NEW i \in 1..Len(H[x].ops), NEW j \in 1..Len(H[y].ops),
                      H[x].ops[i].op = "beat"
               PROVE  /\ rn.pc = "renewing"
                      /\ H[y].ops[j].op = "beat" => x = y /\ i = j
  BY DEF OneBeat
<1>2. i \in 1..Len(G[x].ops) /\ G[x].ops[i].op = "beat"
  BY <1>1 DEF BeatsAmong
<1>3. rn.pc = "renewing"
  BY <1>2 DEF OneBeat
<1>4. ASSUME H[y].ops[j].op = "beat" PROVE x = y /\ i = j
  <2>1. j \in 1..Len(G[y].ops) /\ G[y].ops[j].op = "beat"
    BY <1>4 DEF BeatsAmong
  <2>2. QED
    BY <1>2, <2>1 DEF OneBeat
<1>5. QED
  BY <1>3, <1>4

\* Whether a generation was aborted is nothing to its claim.
LEMMA AlikeSound ==
  ASSUME NEW G, NEW H, NEW R, NEW op, NEW gen, NEW a, NEW rn,
         Sound(G, R, op, gen, a, rn), H \in [Utterances -> GenRecords], Alike(G, H)
  PROVE  Sound(H, R, op, gen, a, rn)
<1>1. ASSUME NEW u \in Utterances PROVE GenSound(u, H[u], R[u], op, gen, rn)
  <2>1. GenSound(u, G[u], R[u], op, gen, rn)
    BY DEF Sound
  <2>2. /\ H[u].ops = G[u].ops /\ H[u].claim = G[u].claim
        /\ H[u].pc = G[u].pc /\ H[u].refused = G[u].refused
    BY DEF Alike
  <2>3. QED
    BY <2>1, <2>2 DEF GenSound, InTurn, Knows, Waiting, Owned, Has, Busy
<1>2. OneBeat(H, rn)
  BY DEF Sound, OneBeat, Alike
<1>3. QED
  BY <1>1, <1>2 DEF Sound, Shapes

\* A generation that the work of the host is not about does not notice what
\* that work waits for, nor which other generation it begins.
LEMMA OtherRun ==
  ASSUME NEW v, NEW g, NEW c, NEW op, NEW gen, NEW rn, NEW op2, NEW gen2, NEW rn2,
         GenSound(v, g, c, op, gen, rn),
         rn.pc \in {"start", "release"} => rn.event.u # v,
         rn2.pc \in {"start", "release"} => rn2.event.u # v,
         op = v <=> op2 = v, op = v => gen = gen2
  PROVE  GenSound(v, g, c, op2, gen2, rn2)
<1>1. InTurn(v, g, rn2)
  BY DEF GenSound, InTurn
<1>2. ~Releasing(v, rn) /\ ~Releasing(v, rn2)
  BY DEF Releasing
<1>3. Busy(v, g, op2) <=> Busy(v, g, op)
  BY DEF Busy
<1>4. QED
  BY <1>1, <1>2, <1>3 DEF GenSound, Knows, Waiting, Owned

Waits == {"start", "release", "renewing"}

LEMMA RunSound ==
  ASSUME NEW G, NEW R, NEW op, NEW gen, NEW a, NEW rn, NEW rn2,
         Sound(G, R, op, gen, a, rn), rn.pc \notin Waits, rn2.pc \notin Waits
  PROVE  Sound(G, R, op, gen, a, rn2)
<1>1. ASSUME NEW u \in Utterances PROVE GenSound(u, G[u], R[u], op, gen, rn2)
  BY OtherRun DEF Sound, Waits
<1>2. OneBeat(G, rn2)
  BY DEF Sound, OneBeat, Waits
<1>3. QED
  BY <1>1, <1>2 DEF Sound

(***************************************************************************)
(* The end of an utterance                                                 *)
(***************************************************************************)
\* what FinishActive does to all that the invariant is about
Ended(G) ==
  /\ gens' = Abandoned(G) /\ active' = NoUtterance
  /\ operation' = None /\ generating' = FALSE

\* #finishActive gives up an unstarted claim, and a started one has its owner.
LEMMA EndSound ==
  ASSUME NEW G, NEW R, NEW rn, Sound(G, R, operation, generating, active.u, rn)
  PROVE  Sound(Abandoned(G), R, None, FALSE, None, rn)
<1> DEFINE H == Abandoned(G)
           g2(u) == IF u = token THEN [G[u] EXCEPT !.aborted = TRUE] ELSE G[u]
           ends(u) == active.u # None /\ Releases(G, u)
<1>1. G \in [Utterances -> GenRecords] /\ R \in [Utterances -> ClaimRecords]
  BY DEF Sound, Shapes
<1>2. ASSUME NEW u \in Utterances
      PROVE  /\ H[u] = IF ends(u) THEN Enqueued(g2(u), "release") ELSE g2(u)
             /\ g2(u) \in GenRecords /\ g2(u).ops = G[u].ops
             /\ g2(u).claim = G[u].claim
             /\ g2(u).pc = G[u].pc /\ g2(u).refused = G[u].refused
  BY <1>1 DEF Abandoned, GenRecords
<1>3. H = [u \in Utterances |-> H[u]]
  BY DEF Abandoned
<1> HIDE DEF H, g2
<1>4. ASSUME NEW u \in Utterances, ends(u)
      PROVE  /\ H[u] \in GenRecords /\ Len(H[u].ops) = Len(G[u].ops) + 1
             /\ Len(G[u].ops) \in Nat
             /\ H[u].ops[Len(G[u].ops) + 1].op = "release"
             /\ H[u].ops[Len(G[u].ops) + 1].claim = NoClaim
             /\ \A k \in 1..Len(G[u].ops) : H[u].ops[k] = G[u].ops[k]
             /\ H[u].claim = G[u].claim /\ H[u].pc = G[u].pc
             /\ H[u].refused = G[u].refused
  <2>1. H[u] = Enqueued(g2(u), "release") /\ g2(u) \in GenRecords
    BY <1>2, <1>4
  <2>2. "release" \in {"start", "release", "beat", "complete"}
    OBVIOUS
  <2>3. LET h == Enqueued(g2(u), "release") IN
        /\ h \in GenRecords /\ Len(h.ops) = Len(g2(u).ops) + 1 /\ Len(g2(u).ops) \in Nat
        /\ h.ops[Len(g2(u).ops) + 1].op = "release"
        /\ h.ops[Len(g2(u).ops) + 1].claim = NoClaim
        /\ \A k \in 1..Len(g2(u).ops) : h.ops[k] = g2(u).ops[k]
        /\ h.claim = g2(u).claim /\ h.pc = g2(u).pc /\ h.refused = g2(u).refused
        /\ h.aborted = g2(u).aborted
    BY <2>1, <2>2, EnqueuedLast
  <2>4. /\ g2(u).ops = G[u].ops /\ g2(u).claim = G[u].claim
        /\ g2(u).pc = G[u].pc /\ g2(u).refused = G[u].refused
    BY <1>2
  <2>5. QED
    BY <2>1, <2>3, <2>4
<1>5. ASSUME NEW u \in Utterances, ~ends(u)
      PROVE  /\ H[u] \in GenRecords /\ H[u].ops = G[u].ops
             /\ H[u].claim = G[u].claim /\ H[u].pc = G[u].pc
             /\ H[u].refused = G[u].refused
  BY <1>2, <1>5
<1>6. Shapes(H, R, FALSE)
  <2>1. \A u \in Utterances : H[u] \in GenRecords
    BY <1>4, <1>5
  <2>2. QED
    BY <1>1, <1>3, <2>1 DEF Shapes
<1>7. OneBeat(H, rn)
  <2>1. ASSUME NEW u \in Utterances, NEW k \in 1..Len(H[u].ops), H[u].ops[k].op = "beat"
        PROVE  k \in 1..Len(G[u].ops) /\ G[u].ops[k].op = "beat"
    <3>1. CASE ends(u)
      <4>1. k # Len(G[u].ops) + 1
        BY <1>4, <2>1, <3>1
      <4>2. k \in 1..Len(G[u].ops)
        BY <1>4, <3>1, <4>1
      <4>3. QED
        BY <1>4, <2>1, <3>1, <4>2
    <3>2. CASE ~ends(u)
      BY <1>5, <2>1, <3>2
    <3>3. QED
      BY <3>1, <3>2
  <2>2. OneBeat(G, rn) /\ BeatsAmong(G, H)
    BY <2>1 DEF Sound, BeatsAmong
  <2>3. QED
    BY <2>2, NoNewBeat
<1>8. ASSUME NEW u \in Utterances PROVE GenSound(u, H[u], R[u], None, FALSE, rn)
  <2>1. GenSound(u, G[u], R[u], operation, generating, rn) /\ u # None
    BY RelayAssumption DEF Sound
  <2>2. CASE ends(u)
    <3>1. /\ operation = u /\ ~generating /\ G[u].claim.phase = "claimed"
          /\ Busy(u, G[u], operation)
      BY <2>2 DEF Releases, Busy
    <3> DEFINE n == Len(G[u].ops)
    <3>a. /\ H[u].ops[n + 1].op = "release" /\ H[u].ops[n + 1].claim = NoClaim
          /\ \A k \in 1..n : H[u].ops[k] = G[u].ops[k]
          /\ n \in Nat /\ Len(H[u].ops) = n + 1
          /\ H[u].claim = G[u].claim /\ H[u].pc = G[u].pc
          /\ H[u].refused = G[u].refused
      BY <1>4, <2>2
    <3>b. \A k \in 1..Len(H[u].ops) : k \in 1..n \/ k = n + 1
      BY <3>a
    <3>c. 1..Len(H[u].ops) = 1..(n + 1) /\ n + 1 \in 1..Len(H[u].ops)
          /\ 1..n \subseteq 1..Len(H[u].ops)
      BY <3>a
    <3>d. InTurn(u, G[u], rn)
      BY <2>1 DEF GenSound
    <3>2. InTurn(u, H[u], rn) /\ R[u] # NoClaim
      <4>1. InTurn(u, H[u], rn)
        BY <3>a, <3>b, <3>d DEF InTurn
      <4>2. QED
        BY <4>1, <2>1, <3>1 DEF GenSound
    <3>3. ASSUME ~G[u].refused
          PROVE  Knows(u, H[u], R[u], None) /\ Waiting(u, H[u], R[u], None, FALSE)
                 /\ Owned(u, H[u], R[u], None, rn)
          <4>1. /\ Knows(u, G[u], R[u], operation) /\ Waiting(u, G[u], R[u], operation, generating)
            /\ Owned(u, G[u], R[u], operation, rn)
        BY <2>1, <3>3 DEF GenSound
      <4>2. G[u].claim = R[u] /\ R[u].phase = "claimed"
        BY <3>1, <4>1 DEF Knows
      <4>3. G[u].pc # "calling" /\ ~Has(G[u], {"beat", "complete"})
        BY <4>1, <4>2 DEF Waiting
      <4>4. \A k \in 1..Len(G[u].ops) : G[u].ops[k].op # "release"
        BY <3>1, <4>1 DEF Waiting
      <4>5. Knows(u, H[u], R[u], None)
        BY <3>a, <3>b, <4>1, <4>2 DEF Knows
      <4>6. Has(H[u], {"release"}) /\ Has(H[u], {"start", "release", "complete"})
        BY <3>a, <3>c DEF Has
      <4>7. ~Has(H[u], {"beat", "complete"})
        BY <3>a, <3>b, <4>3 DEF Has
      <4>8. \A k \in 1..Len(H[u].ops) : H[u].ops[k].op = "release" => k = Len(H[u].ops)
        BY <3>a, <3>b, <4>4
      <4>9. Waiting(u, H[u], R[u], None, FALSE)
        BY <3>a, <2>1, <4>2, <4>3, <4>6, <4>7, <4>8 DEF Waiting
      <4>10. Owned(u, H[u], R[u], None, rn)
        BY <3>1, <4>1, <4>6 DEF Owned
      <4>11. QED
        BY <4>5, <4>9, <4>10
    <3>4. QED
      BY <1>4, <2>2, <3>2, <3>3 DEF GenSound
  <2>3. CASE ~ends(u)
    <3>1. /\ H[u].ops = G[u].ops /\ H[u].claim = G[u].claim /\ H[u].pc = G[u].pc
          /\ H[u].refused = G[u].refused
      BY <1>5, <2>3
    <3>2. InTurn(u, H[u], rn) /\ (Busy(u, H[u], None) => R[u] # NoClaim)
      BY <2>1, <3>1 DEF GenSound, InTurn, Busy
    <3>3. ASSUME ~G[u].refused
          PROVE  Knows(u, H[u], R[u], None) /\ Waiting(u, H[u], R[u], None, FALSE)
                 /\ Owned(u, H[u], R[u], None, rn)
      <4>1. /\ Knows(u, G[u], R[u], operation) /\ Waiting(u, G[u], R[u], operation, generating)
            /\ Owned(u, G[u], R[u], operation, rn)
        BY <2>1, <3>3 DEF GenSound
      <4>2. Has(G[u], {"start"}) => operation # u
        <5>1. SUFFICES ASSUME Has(G[u], {"start"}), operation = u PROVE FALSE
          OBVIOUS
        <5>2. R[u].phase = "claimed" /\ ~generating /\ G[u].claim = R[u]
          BY <4>1, <5>1 DEF Waiting, Knows, Busy
        <5>3. active.u # None
          BY <2>1, <5>1 DEF Sound
        <5>4. QED
          BY <2>3, <5>1, <5>2, <5>3 DEF Releases
      <4>3. Waiting(u, H[u], R[u], None, FALSE)
        BY <2>1, <3>1, <4>1, <4>2 DEF Waiting, Has
      <4>4. Knows(u, H[u], R[u], None) /\ Owned(u, H[u], R[u], None, rn)
        BY <2>1, <3>1, <4>1 DEF Knows, Owned, Busy, Has
      <4>5. QED
        BY <4>3, <4>4
    <3>4. QED
      BY <3>1, <3>2, <3>3 DEF GenSound
  <2>4. QED
    BY <2>2, <2>3
<1>9. QED
  BY <1>6, <1>7, <1>8 DEF Sound, H

(***************************************************************************)
(* What one step does to the rest of the state                             *)
(***************************************************************************)
\* what no step but an end does to all that the invariant is about
Kept(G) ==
  /\ gens' \in [Utterances -> GenRecords] /\ Alike(G, gens')
  /\ operation' = operation /\ generating' = generating
  /\ ActiveShape(active') /\ (active'.u = active.u \/ active.u = None)

\* A step first changes one generation and its row, if any, and then ends the
\* utterance or not.
LEMMA StepSound ==
  ASSUME NEW G, RunShape(run'),
         Sound(G, row', operation, generating, active.u, run'),
         Ended(G) \/ Kept(G)
  PROVE  IInv'
<1>1. CASE Ended(G)
  <2>1. Sound(Abandoned(G), row', None, FALSE, None, run')
    BY EndSound
  <2>2. active' = NoUtterance /\ active'.u = None /\ ActiveShape(active')
    BY <1>1 DEF Ended, NoUtterance, ActiveShape
  <2>3. QED
    BY <1>1, <2>1, <2>2 DEF Ended, IInv
<1>2. CASE Kept(G)
  <2>1. Sound(gens', row', operation, generating, active.u, run')
    BY <1>2, AlikeSound DEF Kept
  <2>2. Sound(gens', row', operation', generating', active'.u, run')
    BY <1>2, <2>1 DEF Kept, Sound
  <2>3. QED
    BY <1>2, <2>2 DEF Kept, IInv
<1>3. QED
  BY <1>1, <1>2

LEMMA KeptSame ==
  ASSUME IInv, gens' = gens, operation' = operation, generating' = generating,
         active' = active
  PROVE  Kept(gens)
BY DEF IInv, Sound, Shapes, Kept, Alike

\* The claims, the operations and the work on them stay as they are.
LEMMA QuietSound ==
  ASSUME IInv, row' = row,
         run' = run \/ (RunShape(run') /\ run.pc \notin Waits /\ run'.pc \notin Waits),
         Ended(gens) \/ Kept(gens)
  PROVE  IInv'
<1>1. RunShape(run')
  BY DEF IInv
<1>2. Sound(gens, row, operation, generating, active.u, run')
  BY RunSound DEF IInv
<1>3. QED
  BY <1>1, <1>2, StepSound

LEMMA IdleShape == RunShape(Idle) /\ Idle.pc = "idle"
BY DEF RunShape, Idle

LEMMA WaitShape ==
  ASSUME NEW pc, RunShape(run), Wait(pc)
  PROVE  RunShape(run') /\ run'.pc = pc /\ run'.event = run.event
BY DEF RunShape, Wait

LEMMA ContinueShape ==
  ASSUME NEW out, RunShape(run), Continue(out)
  PROVE  RunShape(run') /\ run'.pc = "drain"
BY DEF RunShape, Continue

LEMMA FinishEnds ==
  ASSUME NEW G, NEW cancel, Finish(G, cancel) PROVE Ended(G)
BY DEF Finish, FinishActive, Ended

LEMMA TerminateEnds ==
  ASSUME NEW G, NEW reason, Terminate(G, reason) PROVE Ended(G)
BY DEF Terminate, FinishActive, Ended

LEMMA RefuseEnds ==
  ASSUME NEW G, NEW reason, NEW out, Refuse(G, reason, out)
  PROVE  Ended(G) /\ run' = Idle
BY TerminateEnds DEF Refuse, AnswerAndClose

LEMMA LossEnds ==
  ASSUME NEW G, NEW out, ProviderLoss(G, out)
  PROVE  Ended(G) /\ run' = Idle
BY RefuseEnds DEF ProviderLoss

LEMMA FailureEnds ==
  ASSUME NEW G, SecurityFailure(G)
  PROVE  /\ run' = Idle
         /\ \/ Ended(G)
            \/ /\ gens' = G /\ operation' = operation /\ generating' = generating
               /\ active' = active
<1>1. CASE phase = "terminal"
  BY <1>1 DEF SecurityFailure, AnswerAndClose
<1>2. CASE phase # "terminal"
  BY <1>2, RefuseEnds, LossEnds DEF SecurityFailure
<1>3. QED
  BY <1>1, <1>2

\* What a callback appends aborts a generation at most.
LEMMA AppendAlike ==
  ASSUME NEW G \in [Utterances -> GenRecords], NEW e, AppendEvent(G, e)
  PROVE  gens' \in [Utterances -> GenRecords] /\ Alike(G, gens')
BY DEF AppendEvent, Alike, GenRecords

\* the generation that changes, and its row, are sound after the step
Becomes(u, g, c, op2, gen2, rn2) ==
  u \in Utterances => /\ g \in GenRecords /\ c \in ClaimRecords
                      /\ GenSound(u, g, c, op2, gen2, rn2)

\* the host's operation and its work concern no generation but the one of u
Concerns(u, a, op, gen, rn, op2, gen2, rn2) ==
  /\ gen2 \in BOOLEAN
  /\ op2 # None => op2 = a
  /\ gen2 => op2 # None
  /\ \/ op2 = op /\ gen2 = gen
     \/ op \in {None, u} /\ op2 \in {None, u}
  /\ \/ rn2 = rn
     \/ /\ rn.pc \in {"start", "release"} => rn.event.u = u
        /\ rn2.pc \in {"start", "release"} => rn2.event.u = u

\* One generation and its row change, and perhaps which generation is the
\* operation of the host.
LEMMA OneChanges ==
  ASSUME NEW G, NEW R, NEW op, NEW gen, NEW a, NEW rn, Sound(G, R, op, gen, a, rn),
         NEW u, NEW g, NEW c, NEW op2, NEW gen2, NEW rn2,
         Becomes(u, g, c, op2, gen2, rn2),
         NEW H, H = [G EXCEPT ![u] = g], NEW S, S = [R EXCEPT ![u] = c],
         OneBeat(H, rn2), Concerns(u, a, op, gen, rn, op2, gen2, rn2)
  PROVE  Sound(H, S, op2, gen2, a, rn2)
<1> USE DEF Becomes, Concerns
<1>1. G \in [Utterances -> GenRecords] /\ R \in [Utterances -> ClaimRecords]
  BY DEF Sound, Shapes
<1>2. Shapes(H, S, gen2)
  BY <1>1 DEF Shapes
<1>3. ASSUME NEW v \in Utterances PROVE GenSound(v, H[v], S[v], op2, gen2, rn2)
  <2>1. CASE v = u
    BY <1>1, <2>1
  <2>2. CASE v # u
    <3>1. H[v] = G[v] /\ S[v] = R[v] /\ GenSound(v, G[v], R[v], op, gen, rn)
      BY <1>1, <2>2 DEF Sound
    <3>2. (op = v <=> op2 = v) /\ (op = v => gen = gen2)
      BY <2>2, RelayAssumption
    <3>3. CASE rn2 = rn
      <4>1. GenSound(v, G[v], R[v], op2, gen2, rn)
        BY <3>1, <3>2 DEF GenSound, InTurn, Knows, Waiting, Owned, Busy
      <4>2. QED
        BY <3>1, <3>3, <4>1
    <3>4. CASE /\ rn.pc \in {"start", "release"} => rn.event.u = u
               /\ rn2.pc \in {"start", "release"} => rn2.event.u = u
      <4>1. GenSound(v, G[v], R[v], op2, gen2, rn2)
        BY <2>2, <3>1, <3>2, <3>4, OtherRun
      <4>2. QED
        BY <3>1, <4>1
    <3>5. QED
      BY <3>3, <3>4
  <2>3. QED
    BY <2>1, <2>2
<1>4. QED
  BY <1>2, <1>3 DEF Sound

LEMMA OneStep ==
  ASSUME IInv, NEW u, NEW g, NEW c, NEW op2, NEW gen2, NEW rn2,
         Becomes(u, g, c, op2, gen2, rn2), row' = [row EXCEPT ![u] = c],
         OneBeat(With(u, g), rn2),
         Concerns(u, active.u, operation, generating, run, op2, gen2, rn2)
  PROVE  Sound(With(u, g), row', op2, gen2, active.u, rn2)
<1> DEFINE H == With(u, g)
<1>1. H = [gens EXCEPT ![u] = g]
  BY DEF With
<1>2. Sound(gens, row, operation, generating, active.u, run)
  BY DEF IInv
<1>3. OneBeat(H, rn2)
  OBVIOUS
<1> HIDE DEF H
<1>4. Sound(H, row', op2, gen2, active.u, rn2)
  BY <1>1, <1>2, <1>3, OneChanges
<1>5. QED
  BY <1>4 DEF H

(***************************************************************************)
(* Steps that leave claims and operations alone, or end the utterance      *)
(***************************************************************************)
LEMMA ClientQuiet == ASSUME IInv, ClientStep PROVE IInv'
<1>1. gens' = gens /\ operation' = operation /\ generating' = generating
      /\ active' = active /\ row' = row /\ run' = run
  BY DEF ClientStep, ClientReads, ClientSends, hostVars, coreVars
<1>2. QED
  BY <1>1, KeptSame, QuietSound

\* An answer leaves the host idle.
LEMMA AnswerQuiet ==
  ASSUME IInv, row' = row, run' = Idle, run.pc \notin Waits, Ended(gens) \/ Kept(gens)
  PROVE  IInv'
BY IdleShape, QuietSound DEF Waits

LEMMA MessageQuiet == ASSUME IInv, MessageStep PROVE IInv'
<1> USE DEF Waits
<1>1. CASE SkipMessage
  BY <1>1, KeptSame, QuietSound DEF SkipMessage, coreVars
<1>2. CASE \E m \in Messages : BeginMessage(m)
  <2>1. RunShape(run') /\ run'.pc \in {"store", "message"} /\ run.pc = "idle"
    BY <1>2 DEF BeginMessage, Begin, NextTask, RunShape, Idle
  <2>2. row' = row /\ Kept(gens)
    BY <1>2, KeptSame DEF BeginMessage, coreVars
  <2>3. QED
    BY <2>1, <2>2, QuietSound
<1>3. CASE AudioNeedsGrant
  <2>1. RunShape(run') /\ run'.pc = "store" /\ run.pc = "message"
    BY <1>3, WaitShape DEF AudioNeedsGrant, IInv
  <2>2. row' = row /\ Kept(gens)
    BY <1>3, KeptSame DEF AudioNeedsGrant, coreVars
  <2>3. QED
    BY <2>1, <2>2, QuietSound
<1>4. CASE StoreAnswers
  <2>1. run.pc = "store" /\ row' = row
    BY <1>4 DEF StoreAnswers
  <2>2. CASE Wait("granted") /\ UNCHANGED <<socket, tasks, drainScheduled, coreVars, wire>>
    <3>1. RunShape(run') /\ run'.pc = "granted"
      BY <2>2, WaitShape DEF IInv
    <3>2. Kept(gens)
      BY <2>2, KeptSame DEF coreVars
    <3>3. QED
      BY <2>1, <3>1, <3>2, QuietSound
  <2>3. CASE SecurityFailure(gens)
    BY <2>1, <2>3, FailureEnds, KeptSame, AnswerQuiet
  <2>4. QED
    BY <1>4, <2>2, <2>3 DEF StoreAnswers
<1>5. CASE AlreadyTerminal
  BY <1>5, KeptSame, AnswerQuiet DEF AlreadyTerminal, AnswerAndClose, coreVars
<1>6. CASE SessionStart
  <2>1. row' = row /\ run' = Idle /\ run.pc \notin Waits
    BY <1>6, RefuseEnds DEF SessionStart, Handling, Answer
  <2>2. Ended(gens) \/ Kept(gens)
    BY <1>6, RefuseEnds, KeptSame DEF SessionStart
  <2>3. QED
    BY <2>1, <2>2, AnswerQuiet
<1>7. CASE NotYetOpen
  BY <1>7, RefuseEnds, AnswerQuiet DEF NotYetOpen
<1>8. CASE Malformed
  BY <1>8, RefuseEnds, AnswerQuiet DEF Malformed, Handling
<1>9. CASE UtteranceStart
  <2>1. row' = row /\ run' = Idle /\ run.pc \notin Waits
    BY <1>9, RefuseEnds DEF UtteranceStart, Handling, Answer
  <2>2. ASSUME active.u = None, active' = [NoUtterance EXCEPT !.u = run.task.u],
               gens' = gens, operation' = operation, generating' = generating
        PROVE  Kept(gens)
    BY <2>2 DEF IInv, Sound, Shapes, Kept, Alike, ActiveShape, NoUtterance
  <2>3. Ended(gens) \/ Kept(gens)
    BY <1>9, <2>2, RefuseEnds, KeptSame DEF UtteranceStart, coreVars
  <2>4. QED
    BY <2>1, <2>3, AnswerQuiet
<1>10. CASE Binary
  <2>1. row' = row /\ run' = Idle /\ run.pc \notin Waits
    BY <1>10, RefuseEnds, LossEnds DEF Binary, Handling, Answer
  <2>2. Ended(gens) \/ Kept(gens)
    BY <1>10, RefuseEnds, LossEnds, KeptSame DEF Binary, coreVars
  <2>3. QED
    BY <2>1, <2>2, AnswerQuiet
<1>11. CASE UtteranceCommit
  <2>1. row' = row /\ run' = Idle /\ run.pc \notin Waits
    BY <1>11, RefuseEnds, LossEnds DEF UtteranceCommit, Handling, Answer
  <2>2. ASSUME active' = [active EXCEPT !.committed = TRUE],
               gens' = gens, operation' = operation, generating' = generating
        PROVE  Kept(gens)
    BY <2>2 DEF IInv, Sound, Shapes, Kept, Alike, ActiveShape
  <2>3. Ended(gens) \/ Kept(gens)
    BY <1>11, <2>2, RefuseEnds, LossEnds DEF UtteranceCommit
  <2>4. QED
    BY <2>1, <2>3, AnswerQuiet
<1>12. CASE UtteranceCancel
  <2>1. row' = row /\ run' = Idle /\ run.pc \notin Waits
    BY <1>12, RefuseEnds DEF UtteranceCancel, Handling, Answer
  <2>2. Ended(gens) \/ Kept(gens)
    BY <1>12, RefuseEnds, FinishEnds, KeptSame DEF UtteranceCancel, coreVars
  <2>3. QED
    BY <2>1, <2>2, AnswerQuiet
<1>13. CASE SessionEnd
  <2>1. RunShape(run') /\ run'.pc = "ending" /\ run.pc \notin Waits
    BY <1>13, WaitShape DEF SessionEnd, Handling, IInv
  <2>2. row' = row /\ Ended(gens)
    BY <1>13, TerminateEnds DEF SessionEnd, Handling
  <2>3. QED
    BY <2>1, <2>2, QuietSound
<1>14. CASE SessionEnded
  BY <1>14, KeptSame, AnswerQuiet DEF SessionEnded, AnswerAndClose, coreVars
<1>15. QED
  BY <1>1, <1>2, <1>3, <1>4, <1>5, <1>6, <1>7, <1>8, <1>9, <1>10, <1>11, <1>12,
     <1>13, <1>14 DEF MessageStep

LEMMA CallbackQuiet ==
  ASSUME IInv, NEW u \in Utterances, ProviderStep(u) PROVE IInv'
<1>1. gens \in [Utterances -> GenRecords]
  BY DEF IInv, Sound, Shapes
<1>2. row' = row /\ run' = run /\ operation' = operation /\ generating' = generating
  BY DEF ProviderStep, TranscriptionFailed, TranscriptionEvent
<1>3. gens' \in [Utterances -> GenRecords] /\ Alike(gens, gens')
  BY <1>1, AppendAlike DEF ProviderStep, TranscriptionFailed, TranscriptionEvent
<1>4. ActiveShape(active') /\ active'.u = active.u
  BY DEF ProviderStep, TranscriptionFailed, TranscriptionEvent, IInv, ActiveShape
<1>5. QED
  BY <1>2, <1>3, <1>4, QuietSound DEF Kept

LEMMA DrainQuiet ==
  ASSUME IInv,
         \/ BeginDrain \/ SkipDrain \/ DrainOverflow \/ TakePartial \/ TakeFinal
         \/ DenyFinal \/ TakeFailure \/ TakeResult \/ EndDrain \/ ClassifierAnswers
  PROVE  IInv'
<1> USE DEF Waits
<1>1. CASE BeginDrain
  <2>1. RunShape(run') /\ run'.pc = "drain" /\ run.pc = "idle"
    BY <1>1 DEF BeginDrain, Begin, NextTask, RunShape, Idle
  <2>2. row' = row /\ Kept(gens)
    BY <1>1, KeptSame DEF BeginDrain, coreVars
  <2>3. QED
    BY <2>1, <2>2, QuietSound
<1>2. CASE SkipDrain
  BY <1>2, KeptSame, QuietSound DEF SkipDrain, coreVars
<1>3. CASE DrainOverflow
  BY <1>3, TerminateEnds, QuietSound DEF DrainOverflow
<1>4. CASE TakePartial
  <2>1. RunShape(run') /\ run'.pc = "drain" /\ run.pc = "drain" /\ row' = row
    BY <1>4, ContinueShape DEF TakePartial, Taking, IInv
  <2>2. Kept(gens)
    BY <1>4 DEF TakePartial, IInv, Sound, Shapes, Kept, Alike, ActiveShape
  <2>3. QED
    BY <2>1, <2>2, QuietSound
<1>5. CASE TakeFinal
  <2>1. run.pc = "drain" /\ row' = row
    BY <1>5 DEF TakeFinal, Taking
  <2>2. CASE Fresh(Taken)
    <3>1. RunShape(run') /\ run'.pc = "classify"
      BY <1>5, <2>2 DEF TakeFinal, RunShape, IInv
    <3>2. Kept(gens)
      BY <1>5, <2>2 DEF TakeFinal, IInv, Sound, Shapes, Kept, Alike, ActiveShape
    <3>3. QED
      BY <2>1, <3>1, <3>2, QuietSound
  <2>3. CASE ~Fresh(Taken)
    <3>1. RunShape(run') /\ run'.pc = "drain"
      BY <1>5, <2>3, ContinueShape DEF TakeFinal, IInv
    <3>2. Kept(gens)
      BY <1>5, <2>3, KeptSame DEF TakeFinal
    <3>3. QED
      BY <2>1, <3>1, <3>2, QuietSound
  <2>4. QED
    BY <2>2, <2>3
<1>6. CASE DenyFinal
  <2>1. RunShape(run') /\ run'.pc = "drain" /\ run.pc = "drain" /\ row' = row
    BY <1>6, ContinueShape DEF DenyFinal, Taking, IInv
  <2>2. Ended(gens)
    BY <1>6, FinishEnds DEF DenyFinal
  <2>3. QED
    BY <2>1, <2>2, QuietSound
<1>7. CASE TakeFailure
  <2>1. run.pc = "drain" /\ row' = row
    BY <1>7 DEF TakeFailure, Taking
  <2>2. CASE ProviderLoss(gens, run.out)
    BY <2>1, <2>2, LossEnds, AnswerQuiet
  <2>3. CASE ~ProviderLoss(gens, run.out)
    <3>1. RunShape(run') /\ run'.pc = "drain"
      BY <1>7, <2>3, ContinueShape DEF TakeFailure, IInv
    <3>2. Kept(gens)
      BY <1>7, <2>3, KeptSame DEF TakeFailure
    <3>3. QED
      BY <2>1, <3>1, <3>2, QuietSound
  <2>4. QED
    BY <2>2, <2>3
<1>8. CASE TakeResult
  <2>1. RunShape(run') /\ run'.pc = "drain" /\ run.pc = "drain" /\ row' = row
    BY <1>8, ContinueShape DEF TakeResult, Taking, IInv
  <2>2. Ended(gens) \/ Kept(gens)
    BY <1>8, FinishEnds, KeptSame DEF TakeResult
  <2>3. QED
    BY <2>1, <2>2, QuietSound
<1>9. CASE EndDrain
  BY <1>9, KeptSame, AnswerQuiet DEF EndDrain
<1>10. CASE ClassifierAnswers
  <2>1. run.pc = "classify" /\ row' = row
    BY <1>10 DEF ClassifierAnswers
  <2>2. RunShape(run') /\ run'.pc \in {"drain", "authorize"}
    BY <1>10, ContinueShape, WaitShape DEF ClassifierAnswers, IInv
  <2>3. Ended(gens) \/ Kept(gens)
    BY <1>10, FinishEnds, KeptSame DEF ClassifierAnswers, coreVars
  <2>4. QED
    BY <2>1, <2>2, <2>3, QuietSound
<1>11. QED
  BY <1>1, <1>2, <1>3, <1>4, <1>5, <1>6, <1>7, <1>8, <1>9, <1>10

\* The timer, the end of the connection and a heartbeat that finds nothing to
\* renew.
LEMMA RestQuiet ==
  ASSUME IInv, HeartbeatDue \/ BeginHeartbeat \/ SocketClosed \/ Revoked
  PROVE  IInv'
<1> USE DEF Waits
<1>1. CASE HeartbeatDue
  BY <1>1, KeptSame, QuietSound DEF HeartbeatDue, coreVars
<1>2. CASE BeginHeartbeat
  <2>1. RunShape(run') /\ run'.pc = "beat" /\ run.pc = "idle"
    BY <1>2 DEF BeginHeartbeat, Begin, NextTask, RunShape, Idle
  <2>2. row' = row /\ Kept(gens)
    BY <1>2, KeptSame DEF BeginHeartbeat, coreVars
  <2>3. QED
    BY <2>1, <2>2, QuietSound
<1>3. CASE SocketClosed
  <2>1. row' = row /\ run' = run
    BY <1>3 DEF SocketClosed
  <2>2. Ended(gens) \/ Kept(gens)
    BY <1>3, TerminateEnds, KeptSame DEF SocketClosed, coreVars
  <2>3. QED
    BY <2>1, <2>2, QuietSound
<1>4. CASE Revoked
  BY <1>4, TerminateEnds, QuietSound DEF Revoked
<1>5. QED
  BY <1>1, <1>2, <1>3, <1>4

(***************************************************************************)
(* The store and the generation service answer                             *)
(***************************************************************************)
\* what is left in h of the operations of g when the k-th was answered
Shifted(u, g, k, h) ==
  /\ h.ops \in Seq(OpRecords)
  /\ \A j \in 1..Len(h.ops) :
       /\ h.ops[j].claim = NoClaim
       /\ j + 1 \in 1..Len(g.ops) /\ h.ops[j].op = g.ops[j + 1].op
       /\ j + 1 = Len(g.ops) => j = Len(h.ops)
  /\ ~Has(h, {"start"})
  /\ \A rn : InTurn(u, h, rn)
  /\ \A kinds : Has(h, kinds) => Has(g, kinds)
  /\ \A kinds : g.ops[k].op \notin kinds /\ Has(g, kinds) => Has(h, kinds)

LEMMA Rest ==
  ASSUME NEW u, NEW g \in GenRecords, NEW rn, InTurn(u, g, rn),
         NEW k \in 1..Len(g.ops), g.ops[k].claim # NoClaim,
         NEW h, h.ops = RemoveAt(g.ops, k)
  PROVE  Shifted(u, g, k, h)
<1>1. /\ k = 1 /\ Len(g.ops) > 0 /\ h.ops \in Seq(OpRecords)
      /\ Len(h.ops) = Len(g.ops) - 1
      /\ \A j \in 1..(Len(g.ops) - 1) :
           h.ops[j] = g.ops[j + 1] /\ h.ops[j].claim = NoClaim /\ h.ops[j].op # "start"
  <2>1. /\ k = 1 /\ Len(g.ops) > 0 /\ RemoveAt(g.ops, k) \in Seq(OpRecords)
        /\ Len(RemoveAt(g.ops, k)) = Len(g.ops) - 1
        /\ \A j \in 1..(Len(g.ops) - 1) :
             /\ RemoveAt(g.ops, k)[j] = g.ops[j + 1]
             /\ RemoveAt(g.ops, k)[j].claim = NoClaim
             /\ RemoveAt(g.ops, k)[j].op # "start"
    BY AnsweredFirst, Zenon
  <2>2. QED
    BY <2>1
<1>2. Len(g.ops) \in Nat
  BY DEF GenRecords
<1>3. ASSUME NEW j \in 1..Len(h.ops)
      PROVE  /\ h.ops[j].claim = NoClaim /\ h.ops[j].op # "start"
             /\ j + 1 \in 1..Len(g.ops) /\ h.ops[j].op = g.ops[j + 1].op
             /\ j + 1 = Len(g.ops) => j = Len(h.ops)
  BY <1>1, <1>2
<1>4. ~Has(h, {"start"}) /\ \A rn2 : InTurn(u, h, rn2)
  BY <1>3 DEF Has, InTurn
<1>5. \A kinds : Has(h, kinds) => Has(g, kinds)
  BY <1>3 DEF Has
<1>6. ASSUME NEW kinds, g.ops[k].op \notin kinds, Has(g, kinds) PROVE Has(h, kinds)
  <2>1. PICK i \in 1..Len(g.ops) : g.ops[i].op \in kinds
    BY <1>6 DEF Has
  <2>2. i # 1 /\ i - 1 \in 1..Len(h.ops) /\ i - 1 + 1 = i
    BY <1>1, <1>2, <1>6, <2>1
  <2>3. h.ops[i - 1].op \in kinds
    BY <1>3, <2>1, <2>2
  <2>4. QED
    BY <2>2, <2>3 DEF Has
<1>7. QED
  BY <1>1, <1>3, <1>4, <1>5, <1>6 DEF Shifted

\* the heartbeats of H are heartbeats of G, and not the k-th operation of u
BeatsLeft(G, H, u, k) ==
  \A v \in Utterances : \A i \in 1..Len(H[v].ops) :
    H[v].ops[i].op = "beat" =>
      \/ v # u /\ i \in 1..Len(G[v].ops) /\ G[v].ops[i].op = "beat"
      \/ /\ v = u /\ i + 1 \in 1..Len(G[v].ops) /\ G[v].ops[i + 1].op = "beat"
         /\ i + 1 # k

LEMMA AnsweredBeats ==
  ASSUME NEW G \in [Utterances -> GenRecords], NEW rn,
         NEW u \in Utterances, InTurn(u, G[u], rn),
         NEW k \in 1..Len(G[u].ops), G[u].ops[k].claim # NoClaim,
         NEW h, h.ops = RemoveAt(G[u].ops, k)
  PROVE  BeatsLeft(G, [G EXCEPT ![u] = h], u, k)
<1> DEFINE H == [G EXCEPT ![u] = h]
<1>1. ASSUME NEW v \in Utterances, NEW i \in 1..Len(H[v].ops), H[v].ops[i].op = "beat"
      PROVE  \/ v # u /\ i \in 1..Len(G[v].ops) /\ G[v].ops[i].op = "beat"
             \/ /\ v = u /\ i + 1 \in 1..Len(G[v].ops) /\ G[v].ops[i + 1].op = "beat"
                /\ i + 1 # k
  <2>1. CASE v = u
    <3>1. H[v] = h
      BY <2>1
    <3>2. Shifted(u, G[u], k, h)
      BY Rest
    <3>3. k = 1 /\ i \in 1..Len(h.ops)
      BY <3>1 DEF InTurn
    <3>4. QED
      BY <1>1, <2>1, <3>1, <3>2, <3>3 DEF Shifted
  <2>2. CASE v # u
    BY <1>1, <2>2
  <2>3. QED
    BY <2>1, <2>2
<1>2. QED
  BY <1>1 DEF BeatsLeft

\* Fewer operations, fewer heartbeats.
LEMMA FewerBeats ==
  ASSUME NEW G \in [Utterances -> GenRecords], NEW rn, OneBeat(G, rn),
         NEW u \in Utterances, InTurn(u, G[u], rn),
         NEW k \in 1..Len(G[u].ops), G[u].ops[k].claim # NoClaim,
         NEW h, h.ops = RemoveAt(G[u].ops, k), NEW rn2,
         rn2 = rn \/ rn.pc # "renewing"
  PROVE  OneBeat([G EXCEPT ![u] = h], rn2)
<1> DEFINE H == [G EXCEPT ![u] = h]
<1>1. BeatsLeft(G, H, u, k)
  BY AnsweredBeats
<1>2. \A v \in Utterances : \A i \in 1..Len(H[v].ops) : i \in Int
  OBVIOUS
<1> HIDE DEF H
<1>3. OneBeat(H, rn2)
  <2>1. CASE rn2 = rn
    <3>1. SUFFICES ASSUME NEW x \in Utterances, NEW y \in Utterances,
                          NEW i \in 1..Len(H[x].ops), NEW j \in 1..Len(H[y].ops),
                          H[x].ops[i].op = "beat"
                   PROVE  /\ rn.pc = "renewing"
                          /\ H[y].ops[j].op = "beat" => x = y /\ i = j
      BY <2>1 DEF OneBeat
    <3>2. PICK i0 \in 1..Len(G[x].ops) : /\ G[x].ops[i0].op = "beat"
                                         /\ i0 = IF x = u THEN i + 1 ELSE i
      BY <1>1, <3>1 DEF BeatsLeft
    <3>3. rn.pc = "renewing"
      BY <3>2 DEF OneBeat
    <3>4. ASSUME H[y].ops[j].op = "beat" PROVE x = y /\ i = j
      <4>1. PICK j0 \in 1..Len(G[y].ops) : /\ G[y].ops[j0].op = "beat"
                                           /\ j0 = IF y = u THEN j + 1 ELSE j
        BY <1>1, <3>4 DEF BeatsLeft
      <4>2. x = y /\ i0 = j0
        BY <3>2, <4>1 DEF OneBeat
      <4>3. i \in Int /\ j \in Int
        BY <1>2
      <4>4. QED
        BY <3>2, <4>1, <4>2, <4>3
    <3>5. QED
      BY <3>3, <3>4
  <2>2. CASE rn.pc # "renewing"
    BY <1>1, <2>2 DEF OneBeat, BeatsLeft
  <2>3. QED
    BY <2>1, <2>2
<1>4. QED
  BY <1>3 DEF H

\* No heartbeat is left without the one that waited.
Beats(g, k) == g.ops[k].op = "beat"

LEMMA LastBeat ==
  ASSUME NEW G \in [Utterances -> GenRecords], NEW rn, OneBeat(G, rn),
         NEW u \in Utterances, InTurn(u, G[u], rn),
         NEW k \in 1..Len(G[u].ops), G[u].ops[k].claim # NoClaim, Beats(G[u], k),
         NEW h, h.ops = RemoveAt(G[u].ops, k), NEW rn2
  PROVE  OneBeat([G EXCEPT ![u] = h], rn2)
<1> DEFINE H == [G EXCEPT ![u] = h]
<1>1. BeatsLeft(G, H, u, k)
  BY AnsweredBeats
<1>2. \A v \in Utterances : \A i \in 1..Len(H[v].ops) : i \in Int
  OBVIOUS
<1> HIDE DEF H
<1>3. \A v \in Utterances : \A i \in 1..Len(H[v].ops) : H[v].ops[i].op # "beat"
  BY <1>1, <1>2 DEF OneBeat, BeatsLeft, Beats
<1>4. OneBeat(H, rn2)
  BY <1>3 DEF OneBeat
<1>5. QED
  BY <1>4 DEF H

\* A refused generation only has to keep its operations in turn.
LEMMA RefusedSound ==
  ASSUME NEW u, NEW g, NEW c, NEW op, NEW gen, NEW rn, g.refused,
         InTurn(u, g, rn), c # NoClaim
  PROVE  GenSound(u, g, c, op, gen, rn)
BY DEF GenSound

LEMMA ClaimTypes ==
  /\ NoClaim \in ClaimRecords /\ Claimed \in ClaimRecords
  /\ Claimed # NoClaim /\ Claimed.phase = "claimed"
  /\ \A c \in ClaimRecords :
       \A p \in {"claimed", "started", "completed", "released"} :
         /\ Renewed(c, p) \in ClaimRecords /\ Renewed(c, p) # NoClaim
         /\ Renewed(c, p).phase = p
BY DEF ClaimRecords, NoClaim, Claimed, Renewed

\* The facts about a generation whose store call is answered.
LEMMA AnsweredSound ==
  ASSUME IInv, NEW u \in Utterances, NEW k \in 1..Len(gens[u].ops),
         gens[u].ops[k].claim # NoClaim
  PROVE  /\ gens \in [Utterances -> GenRecords] /\ row \in [Utterances -> ClaimRecords]
         /\ gens[u] \in GenRecords /\ row[u] \in ClaimRecords /\ generating \in BOOLEAN
         /\ OneBeat(gens, run) /\ u # None
         /\ GenSound(u, gens[u], row[u], operation, generating, run)
         /\ InTurn(u, gens[u], run) /\ k = 1 /\ Len(gens[u].ops) \in Nat
         /\ Busy(u, gens[u], operation) /\ row[u] # NoClaim
         /\ gens[u].ops[k].op \in {"start", "release", "beat", "complete"}
         /\ (~gens[u].refused => gens[u].claim = row[u])
         /\ RunShape(run)
<1>1. /\ gens \in [Utterances -> GenRecords] /\ row \in [Utterances -> ClaimRecords]
      /\ gens[u] \in GenRecords /\ row[u] \in ClaimRecords /\ generating \in BOOLEAN
      /\ OneBeat(gens, run) /\ u # None
      /\ GenSound(u, gens[u], row[u], operation, generating, run)
      /\ RunShape(run)
  BY RelayAssumption DEF IInv, Sound, Shapes
<1>2. InTurn(u, gens[u], run) /\ k = 1
  BY <1>1 DEF GenSound, InTurn
<1>3. gens[u].ops \in Seq(OpRecords)
  BY <1>1 DEF GenRecords
<1>4. Len(gens[u].ops) \in Nat /\ Len(gens[u].ops) > 0 /\ gens[u].ops[k] \in OpRecords
  BY <1>2, <1>3
<1>5. Busy(u, gens[u], operation)
  BY <1>4 DEF Busy
<1>6. gens[u].ops[k].op \in {"start", "release", "beat", "complete"}
  BY <1>4 DEF OpRecords
<1>7. row[u] # NoClaim /\ (~gens[u].refused => gens[u].claim = row[u])
  BY <1>1, <1>5 DEF GenSound, Knows
<1>8. QED
  BY <1>1, <1>2, <1>4, <1>5, <1>6, <1>7

\* A store call that is refused leaves the row as it was or renewed.
LEMMA StoreRefusedSound ==
  ASSUME IInv, NEW u \in Utterances, NEW k \in 1..Len(gens[u].ops),
         gens[u].ops[k].claim # NoClaim,
         NEW p \in {"started", "completed", "released"}, StoreFails(u, k, p),
         NEW q, q = gens[u].pc \/ q = "over", NEW rn,
         \/ rn = run
         \/ /\ (run.pc = "start" /\ run.event.u = u) \/ gens[u].ops[k].op = "beat"
            /\ rn.pc \notin Waits
  PROVE  Sound(With(u, [StoreRefuses(u, k) EXCEPT !.pc = q]), row', operation,
               generating, active.u, rn)
<1> DEFINE g == [StoreRefuses(u, k) EXCEPT !.pc = q]
<1>1. /\ gens \in [Utterances -> GenRecords] /\ row \in [Utterances -> ClaimRecords]
      /\ gens[u] \in GenRecords /\ row[u] \in ClaimRecords /\ generating \in BOOLEAN
      /\ OneBeat(gens, run) /\ u # None /\ row[u] # NoClaim
      /\ GenSound(u, gens[u], row[u], operation, generating, run)
      /\ InTurn(u, gens[u], run)
  BY AnsweredSound
<1>2. PICK c \in ClaimRecords : row' = [row EXCEPT ![u] = c] /\ c # NoClaim
  BY <1>1, ClaimTypes DEF StoreFails, Fails
<1>3. g.ops = RemoveAt(gens[u].ops, k) /\ g.refused
  BY <1>1 DEF StoreRefuses, GenRecords
<1>4. g.ops \in Seq(OpRecords) /\ \A rn2 : InTurn(u, g, rn2)
  <2>1. Shifted(u, gens[u], k, g)
    BY <1>1, <1>3, Rest
  <2>2. QED
    BY <2>1 DEF Shifted
<1>5. g \in GenRecords
  BY <1>1, <1>4 DEF StoreRefuses, GenRecords
<1> HIDE DEF g
<1>6. Becomes(u, g, c, operation, generating, rn)
  BY <1>2, <1>3, <1>4, <1>5, RefusedSound DEF Becomes
<1>7. OneBeat(With(u, g), rn)
  <2>1. CASE rn = run \/ run.pc # "renewing"
    BY <1>1, <1>3, <2>1, FewerBeats DEF With
  <2>2. CASE ~(rn = run \/ run.pc # "renewing")
    <3>1. Beats(gens[u], k)
      BY <2>2 DEF Beats
    <3>2. QED
      BY <1>1, <1>3, <3>1, LastBeat DEF With
  <2>3. QED
    BY <2>1, <2>2
<1>8. Sound(gens, row, operation, generating, active.u, run)
  BY DEF IInv
<1>9. Concerns(u, active.u, operation, generating, run, operation, generating, rn)
  <2>1. /\ operation # None => operation = active.u
        /\ generating => operation # None
    BY <1>8 DEF Sound
  <2>2. gens[u].ops[k].op = "beat" => run.pc = "renewing"
    BY <1>1 DEF OneBeat
  <2>3. run.pc = "start" => rn = run \/ run.event.u = u
    BY <1>1 DEF OneBeat, InTurn
  <2>4. QED
    BY <1>1, <2>1, <2>2, <2>3 DEF Concerns, Waits
<1>10. QED
  BY <1>2, <1>6, <1>7, <1>9, OneStep DEF g

\* The row keeps its claim, or takes another.
LEMMA RowStep ==
  ASSUME IInv, NEW u \in Utterances
  PROVE  row = [row EXCEPT ![u] = row[u]] /\ row[u] \in ClaimRecords
BY DEF IInv, Sound, Shapes

\* What a step that leaves the host's work alone concerns.
LEMMA SameConcerns ==
  ASSUME IInv, NEW u
  PROVE  Concerns(u, active.u, operation, generating, run, operation, generating, run)
BY DEF IInv, Sound, Shapes, Concerns

\* A store call is made with the claim that the generation knows.
LEMMA CallSound ==
  ASSUME IInv, NEW u \in Utterances, NEW k \in 1..Len(gens[u].ops), CallStore(u, k)
  PROVE  IInv'
<1> DEFINE o == [gens[u].ops[k] EXCEPT !.claim = gens[u].claim]
           s == [gens[u].ops EXCEPT ![k] = o]
           g == [gens[u] EXCEPT !.ops = s]
<1>1. /\ gens \in [Utterances -> GenRecords] /\ gens[u] \in GenRecords
      /\ GenSound(u, gens[u], row[u], operation, generating, run) /\ OneBeat(gens, run)
      /\ RunShape(run)
  BY DEF IInv, Sound, Shapes
<1>2. gens[u].ops \in Seq(OpRecords) /\ gens[u].claim \in ClaimRecords
  BY <1>1 DEF GenRecords
<1>3. gens[u].ops[k] \in OpRecords
  BY <1>2
<1>4. o \in OpRecords /\ o.op = gens[u].ops[k].op /\ o.claim = gens[u].claim
  BY <1>2, <1>3 DEF OpRecords
<1>5. gens' = [gens EXCEPT ![u] = g] /\ k = 1
  BY DEF CallStore, MayCall
<1> HIDE DEF o
<1>6. /\ s \in Seq(OpRecords) /\ Len(s) = Len(gens[u].ops) /\ s[k] = o
      /\ \A j \in 1..Len(s) : j # k => s[j] = gens[u].ops[j]
  BY <1>2, <1>4
<1> HIDE DEF s
<1>7. /\ g \in GenRecords /\ g.ops = s /\ g.claim = gens[u].claim /\ g.pc = gens[u].pc
      /\ g.refused = gens[u].refused
  BY <1>1, <1>6 DEF GenRecords
<1> HIDE DEF g
<1>8. /\ Len(g.ops) = Len(gens[u].ops)
      /\ \A j \in 1..Len(g.ops) :
           /\ g.ops[j].op = gens[u].ops[j].op
           /\ j # k => g.ops[j].claim = gens[u].ops[j].claim
      /\ g.ops[k].claim = gens[u].claim
  BY <1>4, <1>6, <1>7
<1>9. /\ Busy(u, gens[u], operation) /\ (Busy(u, g, operation) <=> Busy(u, gens[u], operation))
      /\ \A kinds : Has(g, kinds) <=> Has(gens[u], kinds)
  <2>1. Len(gens[u].ops) > 0
    BY <1>2, <1>5
  <2>2. QED
    BY <1>7, <1>8, <2>1 DEF Busy, Has
<1>10. InTurn(u, g, run)
  BY <1>1, <1>5, <1>8 DEF GenSound, InTurn
<1>11. ASSUME ~g.refused
       PROVE  /\ Knows(u, g, row[u], operation)
              /\ Waiting(u, g, row[u], operation, generating)
              /\ Owned(u, g, row[u], operation, run)
  <2>1. /\ Knows(u, gens[u], row[u], operation)
        /\ Waiting(u, gens[u], row[u], operation, generating)
        /\ Owned(u, gens[u], row[u], operation, run)
    BY <1>1, <1>7, <1>11 DEF GenSound
  <2>2. Knows(u, g, row[u], operation)
    BY <1>7, <1>8, <1>9, <2>1 DEF Knows
  <2>3. Waiting(u, g, row[u], operation, generating)
    BY <1>7, <1>8, <1>9, <2>1 DEF Waiting
  <2>4. Owned(u, g, row[u], operation, run)
    BY <1>7, <1>9, <2>1 DEF Owned
  <2>5. QED
    BY <2>2, <2>3, <2>4
<1>12. GenSound(u, g, row[u], operation, generating, run)
  BY <1>1, <1>9, <1>10, <1>11 DEF GenSound
<1>13. OneBeat(With(u, g), run)
  <2>1. \A v \in Utterances : \A j \in 1..Len(With(u, g)[v].ops) :
          j \in 1..Len(gens[v].ops) /\ With(u, g)[v].ops[j].op = gens[v].ops[j].op
    BY <1>1, <1>8 DEF With
  <2>2. BeatsAmong(gens, With(u, g))
    BY <2>1 DEF BeatsAmong
  <2>3. QED
    BY <1>1, <2>2, NoNewBeat
<1>14. row' = [row EXCEPT ![u] = row[u]] /\ row[u] \in ClaimRecords
  BY RowStep DEF CallStore
<1>15. Becomes(u, g, row[u], operation, generating, run)
  BY <1>7, <1>12, <1>14 DEF Becomes
<1>16. Sound(With(u, g), row', operation, generating, active.u, run)
  BY <1>13, <1>14, <1>15, SameConcerns, OneStep
<1>17. RunShape(run') /\ run' = run /\ Kept(With(u, g))
  <2>1. gens' \in [Utterances -> GenRecords] /\ gens' = With(u, g)
    BY <1>1, <1>5, <1>7 DEF With
  <2>2. /\ run' = run /\ operation' = operation /\ generating' = generating
        /\ active' = active
    BY DEF CallStore, hostVars
  <2>3. QED
    BY <1>1, <2>1, <2>2 DEF Kept, Alike, IInv
<1>18. QED
  BY <1>16, <1>17, StepSound

\* The start of a claim is permitted: the generation service takes it over, or
\* the release that waits does.
LEMMA PermittedSound ==
  ASSUME IInv, NEW u \in Utterances, NEW k \in 1..Len(gens[u].ops),
         StartPermitted(u, k) \/ StartConsumed(u, k)
  PROVE  IInv'
<1> DEFINE c == Renewed(row[u], "started")
<1>1. /\ run.pc = "start" /\ gens[u].ops[k].op = "start"
      /\ gens[u].ops[k].claim # NoClaim /\ row' = [row EXCEPT ![u] = c]
  BY DEF StartPermitted, StartConsumed, Answered, StoreGrants
<1>2. /\ gens \in [Utterances -> GenRecords] /\ row[u] \in ClaimRecords
      /\ gens[u] \in GenRecords /\ generating \in BOOLEAN
      /\ OneBeat(gens, run) /\ u # None
      /\ GenSound(u, gens[u], row[u], operation, generating, run)
      /\ InTurn(u, gens[u], run) /\ k = 1 /\ Len(gens[u].ops) \in Nat
      /\ RunShape(run) /\ run.event.u = u
  BY <1>1, AnsweredSound DEF InTurn
<1>3. c \in ClaimRecords /\ c # NoClaim /\ c.phase = "started"
  BY <1>2, ClaimTypes
<1>4. RunShape(run') /\ run'.pc = "drain"
  BY <1>2, ContinueShape DEF StartPermitted, StartConsumed
<1> HIDE DEF c
<1>5. ASSUME NEW g, g.ops = RemoveAt(gens[u].ops, k)
      PROVE  Shifted(u, gens[u], k, g) /\ OneBeat(With(u, g), run')
  <2>1. Shifted(u, gens[u], k, g)
    BY <1>1, <1>2, <1>5, Rest
  <2>2. OneBeat(With(u, g), run')
    BY <1>1, <1>2, <1>5, FewerBeats DEF With
  <2>3. QED
    BY <2>1, <2>2
<1>7. Has(gens[u], {"start"})
  BY <1>1 DEF Has
<1>8. ~gens[u].refused =>
        /\ Waiting(u, gens[u], row[u], operation, generating)
        /\ row[u].phase = "claimed" /\ ~Has(gens[u], {"beat", "complete"})
        /\ gens[u].pc # "calling"
        /\ operation = u \/ Has(gens[u], {"release"})
  BY <1>2, <1>7 DEF GenSound, Waiting
<1>9. CASE StartPermitted(u, k) /\ operation = u
  <2> DEFINE g == [Granted(u, k, "started") EXCEPT !.pc = "calling"]
  <2>1. /\ g.ops = RemoveAt(gens[u].ops, k) /\ g.claim = c /\ g.pc = "calling"
        /\ g.refused = gens[u].refused
    BY <1>2 DEF Granted, GenRecords, c
  <2>2. Shifted(u, gens[u], k, g) /\ OneBeat(With(u, g), run')
    BY <1>5, <2>1
  <2>3. g \in GenRecords
    BY <1>2, <1>3, <2>2 DEF Granted, GenRecords, c, Shifted
  <2>4. /\ gens' = With(u, g) /\ generating' = TRUE /\ operation' = u
        /\ active' = active
    BY <1>1, <1>2, <1>9 DEF StartPermitted
  <2> HIDE DEF g
  <2>5. ASSUME ~g.refused
        PROVE  Knows(u, g, c, u) /\ Waiting(u, g, c, u, TRUE) /\ Owned(u, g, c, u, run')
    <3>1. Waiting(u, gens[u], row[u], operation, generating)
      BY <1>8, <2>1, <2>5
    <3>2. ~Has(gens[u], {"release"})
      BY <1>9, <3>1 DEF Waiting, Has
    <3>3. ~Has(g, {"release"}) /\ ~Has(g, {"start"})
      BY <2>2, <3>2 DEF Shifted
    <3>4. Knows(u, g, c, u)
      BY <2>1, <2>2 DEF Knows, Shifted
    <3>5. Waiting(u, g, c, u, TRUE)
      BY <1>3, <3>3 DEF Waiting, Has
    <3>6. Owned(u, g, c, u, run')
      BY <1>4, <2>1 DEF Owned, Releasing
    <3>7. QED
      BY <3>4, <3>5, <3>6
  <2>6. GenSound(u, g, c, u, TRUE, run')
    BY <1>3, <2>2, <2>5 DEF GenSound, Shifted
  <2>7. Becomes(u, g, c, u, TRUE, run')
    BY <1>3, <2>3, <2>6 DEF Becomes
  <2>8. Concerns(u, active.u, operation, generating, run, u, TRUE, run')
    BY <1>2, <1>4, <1>9 DEF Concerns, IInv, Sound
  <2>9. Sound(With(u, g), row', u, TRUE, active.u, run')
    BY <1>1, <2>2, <2>7, <2>8, OneStep
  <2>10. QED
    BY <1>4, <2>4, <2>9 DEF IInv
<1>10. CASE StartPermitted(u, k) /\ operation = None
  <2> DEFINE g == Granted(u, k, "started")
  <2>1. /\ g.ops = RemoveAt(gens[u].ops, k) /\ g.claim = c /\ g.pc = gens[u].pc
        /\ g.refused = gens[u].refused
    BY <1>2 DEF Granted, GenRecords, c
  <2>2. Shifted(u, gens[u], k, g) /\ OneBeat(With(u, g), run')
    BY <1>5, <2>1
  <2>3. g \in GenRecords
    BY <1>2, <1>3, <2>2 DEF Granted, GenRecords, c, Shifted
  <2>4. Ended(With(u, g))
    BY <1>2, <1>10, FinishEnds DEF StartPermitted
  <2> HIDE DEF g
  <2>5. ASSUME ~g.refused
        PROVE  /\ Knows(u, g, c, operation) /\ Waiting(u, g, c, operation, generating)
               /\ Owned(u, g, c, operation, run')
    <3>1. /\ Waiting(u, gens[u], row[u], operation, generating)
          /\ Has(gens[u], {"release"}) /\ gens[u].pc # "calling"
      BY <1>2, <1>8, <1>10, <2>1, <2>5
    <3>2. Has(g, {"release"}) /\ ~Has(g, {"start"})
      BY <1>1, <2>2, <3>1 DEF Shifted
    <3>3. Has(g, {"start", "release", "complete"})
      BY <3>2 DEF Has
    <3>4. Knows(u, g, c, operation)
      BY <2>1, <2>2 DEF Knows, Shifted
    <3>5. \A j \in 1..Len(g.ops) :
            g.ops[j].op = "release" => j = Len(g.ops)
      BY <2>2, <3>1 DEF Waiting, Shifted
    <3>6. Waiting(u, g, c, operation, generating)
      BY <1>2, <1>3, <1>10, <2>1, <3>1, <3>2, <3>5 DEF Waiting
    <3>7. Owned(u, g, c, operation, run')
      BY <1>4, <3>3 DEF Owned, Releasing
    <3>8. QED
      BY <3>4, <3>6, <3>7
  <2>6. GenSound(u, g, c, operation, generating, run')
    BY <1>3, <2>2, <2>5 DEF GenSound, Shifted
  <2>7. Becomes(u, g, c, operation, generating, run')
    BY <1>3, <2>3, <2>6 DEF Becomes
  <2>8. Concerns(u, active.u, operation, generating, run, operation, generating, run')
    BY <1>2, <1>4 DEF Concerns, IInv, Sound
  <2>9. Sound(With(u, g), row', operation, generating, active.u, run')
    BY <1>1, <2>2, <2>7, <2>8, OneStep
  <2>10. QED
    BY <1>4, <2>4, <2>9, StepSound
<1>11. CASE StartConsumed(u, k)
  <2> DEFINE g == [Granted(u, k, "started") EXCEPT !.refused = TRUE]
  <2>1. g.ops = RemoveAt(gens[u].ops, k) /\ g.refused
    BY <1>2 DEF Granted, GenRecords, c
  <2>2. Shifted(u, gens[u], k, g) /\ OneBeat(With(u, g), run')
    BY <1>5, <2>1
  <2>3. g \in GenRecords
    BY <1>2, <1>3, <2>2 DEF Granted, GenRecords, c, Shifted
  <2>4. Ended(With(u, g))
    BY <1>11, FinishEnds DEF StartConsumed
  <2> HIDE DEF g
  <2>5. GenSound(u, g, c, operation, generating, run')
    BY <1>3, <2>1, <2>2, RefusedSound DEF Shifted
  <2>6. Becomes(u, g, c, operation, generating, run')
    BY <1>3, <2>3, <2>5 DEF Becomes
  <2>7. Concerns(u, active.u, operation, generating, run, operation, generating, run')
    BY <1>2, <1>4 DEF Concerns, IInv, Sound
  <2>8. Sound(With(u, g), row', operation, generating, active.u, run')
    BY <1>1, <2>2, <2>6, <2>7, OneStep
  <2>9. QED
    BY <1>4, <2>4, <2>8, StepSound
<1>12. QED
  BY <1>9, <1>10, <1>11 DEF StartPermitted

\* A start that fails leaves the row claimed or started, and is the last call.
LEMMA StartFailedSound ==
  ASSUME IInv, NEW u \in Utterances, NEW k \in 1..Len(gens[u].ops), StartFailed(u, k)
  PROVE  IInv'
<1> DEFINE G == With(u, StoreRefuses(u, k))
<1>1. /\ run.pc = "start" /\ gens[u].ops[k].op = "start"
      /\ gens[u].ops[k].claim # NoClaim /\ StoreFails(u, k, "started")
  BY DEF StartFailed, Answered
<1>2. /\ gens \in [Utterances -> GenRecords] /\ gens[u] \in GenRecords
      /\ InTurn(u, gens[u], run) /\ RunShape(run)
  BY <1>1, AnsweredSound
<1>3. run.event.u = u
  BY <1>1, <1>2 DEF InTurn
<1>4. RunShape(run') /\ run'.pc = "drain"
  BY <1>2, ContinueShape DEF StartFailed
<1>5. [StoreRefuses(u, k) EXCEPT !.pc = gens[u].pc] = StoreRefuses(u, k)
  BY <1>2 DEF StoreRefuses, GenRecords
<1>6. Sound(With(u, [StoreRefuses(u, k) EXCEPT !.pc = gens[u].pc]), row', operation,
            generating, active.u, run')
  BY <1>1, <1>3, <1>4, StoreRefusedSound DEF Waits
<1>7. Sound(G, row', operation, generating, active.u, run')
  BY <1>5, <1>6
<1>8. Ended(G) \/ Kept(G)
  <2>1. CASE Finish(G, FALSE)
    BY <2>1, FinishEnds
  <2>2. CASE ~Finish(G, FALSE)
    <3>1. /\ gens' = G /\ operation' = operation /\ generating' = generating
          /\ active' = active
      BY <2>2 DEF StartFailed
    <3>2. G \in [Utterances -> GenRecords] /\ ActiveShape(active)
      BY <1>7 DEF Sound, Shapes, IInv
    <3>3. QED
      BY <3>1, <3>2 DEF Kept, Alike
  <2>3. QED
    BY <2>1, <2>2
<1>9. QED
  BY <1>4, <1>7, <1>8, StepSound

\* A released claim has no operation behind it, and nobody works on it.
LEMMA ReleasedSound ==
  ASSUME IInv, NEW u \in Utterances, NEW k \in 1..Len(gens[u].ops), ReleaseAnswered(u, k)
  PROVE  IInv'
<1>1. gens[u].ops[k].op = "release" /\ gens[u].ops[k].claim # NoClaim
  BY DEF ReleaseAnswered, Answered
<1>2. /\ gens \in [Utterances -> GenRecords] /\ row[u] \in ClaimRecords
      /\ gens[u] \in GenRecords /\ OneBeat(gens, run) /\ u # None
      /\ GenSound(u, gens[u], row[u], operation, generating, run)
      /\ InTurn(u, gens[u], run) /\ k = 1 /\ Len(gens[u].ops) \in Nat
      /\ Busy(u, gens[u], operation) /\ RunShape(run)
  BY <1>1, AnsweredSound
<1>3. /\ run' = run /\ operation' = operation /\ generating' = generating
      /\ active' = active /\ ActiveShape(active)
  BY DEF ReleaseAnswered, hostVars, IInv
<1>4. CASE StoreGrants(u, k, "released")
           /\ gens' = With(u, [Granted(u, k, "released") EXCEPT !.claim = gens[u].claim])
  <2> DEFINE g == [Granted(u, k, "released") EXCEPT !.claim = gens[u].claim]
             c == Renewed(row[u], "released")
  <2>1. c \in ClaimRecords /\ c # NoClaim /\ c.phase = "released"
    BY <1>2, ClaimTypes
  <2>2. row' = [row EXCEPT ![u] = c]
    BY <1>4 DEF StoreGrants
  <2>3. /\ g.ops = RemoveAt(gens[u].ops, k) /\ g.pc = gens[u].pc
        /\ g.refused = gens[u].refused /\ g.claim = gens[u].claim
    BY <1>2 DEF Granted, GenRecords
  <2>4. Shifted(u, gens[u], k, g)
    BY <1>1, <1>2, <2>3, Rest
  <2>5. g \in GenRecords
    BY <1>2, <2>4 DEF Granted, GenRecords, Shifted
  <2> HIDE DEF g, c
  <2>6. OneBeat(With(u, g), run)
    BY <1>1, <1>2, <2>3, FewerBeats DEF With
  <2>7. ASSUME ~g.refused
        PROVE  /\ Knows(u, g, c, operation) /\ Waiting(u, g, c, operation, generating)
               /\ Owned(u, g, c, operation, run)
    <3>1. /\ Waiting(u, gens[u], row[u], operation, generating)
          /\ Owned(u, gens[u], row[u], operation, run)
      BY <1>2, <2>3, <2>7 DEF GenSound
    <3>2. 1 = Len(gens[u].ops) /\ operation # u /\ gens[u].pc # "calling"
      BY <1>1, <1>2, <3>1 DEF Waiting
    <3>3. \A j \in 1..Len(g.ops) : FALSE
      BY <2>4, <3>2 DEF Shifted
    <3>4. Len(g.ops) = 0
      <4>1. Len(g.ops) \in Nat
        BY <2>4 DEF Shifted
      <4>2. QED
        BY <3>3, <4>1
    <3>5. ~Busy(u, g, operation) /\ \A kinds : ~Has(g, kinds)
      BY <2>3, <3>2, <3>3, <3>4 DEF Busy, Has
    <3>6. ~Releasing(u, run)
      BY <1>2, <3>1 DEF Owned
    <3>7. QED
      BY <2>1, <2>3, <3>2, <3>3, <3>5, <3>6 DEF Knows, Waiting, Owned
  <2>8. GenSound(u, g, c, operation, generating, run)
    BY <2>1, <2>4, <2>7 DEF GenSound, Shifted
  <2>9. Becomes(u, g, c, operation, generating, run)
    BY <2>1, <2>5, <2>8 DEF Becomes
  <2>10. Sound(With(u, g), row', operation, generating, active.u, run)
    BY <2>2, <2>6, <2>9, SameConcerns, OneStep
  <2>11. gens' = With(u, g)
    BY <1>4 DEF g
  <2>12. QED
    BY <1>2, <1>3, <2>10, <2>11 DEF IInv
<1>5. CASE gens' = With(u, StoreRefuses(u, k)) /\ StoreFails(u, k, "released")
  <2>1. [StoreRefuses(u, k) EXCEPT !.pc = gens[u].pc] = StoreRefuses(u, k)
    BY <1>2 DEF StoreRefuses, GenRecords
  <2>2. Sound(With(u, [StoreRefuses(u, k) EXCEPT !.pc = gens[u].pc]), row', operation,
              generating, active.u, run)
    BY <1>1, <1>5, StoreRefusedSound
  <2>3. QED
    BY <1>2, <1>3, <1>5, <2>1, <2>2 DEF IInv
<1>6. QED
  BY <1>4, <1>5 DEF ReleaseAnswered

\* The service hands the claim over to the completion.
LEMMA SettleSound ==
  ASSUME IInv, NEW u \in Utterances, NEW result \in {"success", "failure"},
         GenerationSettles(u, result)
  PROVE  IInv'
<1> DEFINE h == Enqueued(gens[u], "complete")
           g == [h EXCEPT !.pc = result]
           n == Len(gens[u].ops)
<1>1. /\ gens \in [Utterances -> GenRecords] /\ gens[u] \in GenRecords
      /\ OneBeat(gens, run) /\ gens[u].pc = "calling"
      /\ GenSound(u, gens[u], row[u], operation, generating, run)
      /\ RunShape(run) /\ ActiveShape(active) /\ row[u] \in ClaimRecords
  BY DEF IInv, Sound, Shapes, GenerationSettles
<1>2. "complete" \in {"start", "release", "beat", "complete"}
  OBVIOUS
<1>3. LET e == Enqueued(gens[u], "complete") IN
      /\ e \in GenRecords /\ Len(e.ops) = Len(gens[u].ops) + 1 /\ Len(gens[u].ops) \in Nat
      /\ e.ops[Len(gens[u].ops) + 1].op = "complete"
      /\ e.ops[Len(gens[u].ops) + 1].claim = NoClaim
      /\ \A k \in 1..Len(gens[u].ops) : e.ops[k] = gens[u].ops[k]
      /\ e.claim = gens[u].claim /\ e.pc = gens[u].pc /\ e.refused = gens[u].refused
      /\ e.aborted = gens[u].aborted
  BY <1>1, <1>2, EnqueuedLast
<1>4. h \in GenRecords
  BY <1>3
<1> HIDE DEF h
<1>5. /\ g \in GenRecords /\ g.ops = h.ops /\ g.pc = result /\ g.claim = h.claim
      /\ g.refused = h.refused
  BY <1>4 DEF GenRecords
<1> HIDE DEF g
<1>6. /\ n \in Nat /\ Len(g.ops) = n + 1
      /\ g.ops[n + 1].op = "complete" /\ g.ops[n + 1].claim = NoClaim
      /\ \A k \in 1..n : g.ops[k] = gens[u].ops[k]
      /\ g.claim = gens[u].claim /\ g.refused = gens[u].refused
  BY <1>3, <1>5 DEF h
<1>7. /\ \A k \in 1..Len(g.ops) : k \in 1..n \/ k = n + 1
      /\ n + 1 \in 1..Len(g.ops)
  BY <1>6
<1>8. InTurn(u, g, run)
  BY <1>1, <1>6, <1>7 DEF GenSound, InTurn
<1>9. Busy(u, gens[u], operation) /\ row[u] # NoClaim
  BY <1>1 DEF Busy, GenSound
<1>10. ASSUME ~g.refused
       PROVE  /\ Knows(u, g, row[u], operation)
              /\ Waiting(u, g, row[u], operation, generating)
              /\ Owned(u, g, row[u], operation, run)
  <2>1. /\ Knows(u, gens[u], row[u], operation)
        /\ Waiting(u, gens[u], row[u], operation, generating)
        /\ Owned(u, gens[u], row[u], operation, run)
    BY <1>1, <1>6, <1>10 DEF GenSound
  <2>2. row[u].phase # "claimed" /\ \A k \in 1..n : gens[u].ops[k].op # "release"
    BY <1>1, <2>1 DEF Waiting
  <2>3. ~Has(gens[u], {"start"})
    BY <2>1, <2>2 DEF Waiting
  <2>4. Knows(u, g, row[u], operation)
    BY <1>6, <1>7, <1>9, <2>1 DEF Knows
  <2>5. ~Has(g, {"start"}) /\ Has(g, {"start", "release", "complete"})
    BY <1>6, <1>7, <2>3 DEF Has
  <2>6. \A k \in 1..Len(g.ops) : g.ops[k].op # "release"
    BY <1>6, <1>7, <2>2
  <2>7. Waiting(u, g, row[u], operation, generating)
    BY <2>2, <2>5, <2>6 DEF Waiting
  <2>8. Owned(u, g, row[u], operation, run)
    BY <1>9, <2>1, <2>5 DEF Owned
  <2>9. QED
    BY <2>4, <2>7, <2>8
<1>11. GenSound(u, g, row[u], operation, generating, run)
  BY <1>8, <1>9, <1>10 DEF GenSound
<1>12. OneBeat(With(u, g), run)
  <2>1. ASSUME NEW v \in Utterances, NEW k \in 1..Len(With(u, g)[v].ops),
               With(u, g)[v].ops[k].op = "beat"
        PROVE  k \in 1..Len(gens[v].ops) /\ gens[v].ops[k].op = "beat"
    <3>1. CASE v = u
      <4>1. With(u, g)[v] = g
        BY <1>1, <3>1 DEF With
      <4>2. k # n + 1
        BY <1>6, <2>1, <4>1
      <4>3. QED
        BY <1>6, <1>7, <2>1, <3>1, <4>1, <4>2
    <3>2. CASE v # u
      BY <1>1, <2>1, <3>2 DEF With
    <3>3. QED
      BY <3>1, <3>2
  <2>2. BeatsAmong(gens, With(u, g))
    BY <2>1 DEF BeatsAmong
  <2>3. QED
    BY <1>1, <2>2, NoNewBeat
<1>13. row' = [row EXCEPT ![u] = row[u]]
  BY RowStep DEF GenerationSettles
<1>14. Becomes(u, g, row[u], operation, generating, run)
  BY <1>1, <1>5, <1>11 DEF Becomes
<1>15. Sound(With(u, g), row', operation, generating, active.u, run)
  BY <1>12, <1>13, <1>14, SameConcerns, OneStep
<1>16. /\ gens' = With(u, g) /\ run' = run /\ operation' = operation
       /\ generating' = generating /\ active' = active
  BY DEF GenerationSettles, hostVars, g, h
<1>17. QED
  BY <1>1, <1>15, <1>16 DEF IInv

\* A completion is answered: its claim is over, or the call was refused.
LEMMA CompletedSound ==
  ASSUME IInv, NEW u \in Utterances, NEW k \in 1..Len(gens[u].ops), CompleteAnswered(u, k)
  PROVE  IInv'
<1>1. gens[u].ops[k].op = "complete" /\ gens[u].ops[k].claim # NoClaim
  BY DEF CompleteAnswered, Answered
<1>2. /\ gens \in [Utterances -> GenRecords] /\ row[u] \in ClaimRecords
      /\ gens[u] \in GenRecords /\ OneBeat(gens, run) /\ u # None
      /\ GenSound(u, gens[u], row[u], operation, generating, run)
      /\ InTurn(u, gens[u], run) /\ k = 1 /\ Len(gens[u].ops) \in Nat
      /\ Busy(u, gens[u], operation) /\ RunShape(run)
  BY <1>1, AnsweredSound
<1>3. /\ run' = run /\ operation' = operation /\ generating' = generating
      /\ active' = active /\ ActiveShape(active)
  BY DEF CompleteAnswered, IInv
<1>4. ASSUME NEW G, NEW kind, G \in [Utterances -> GenRecords], Told(G, u, kind)
      PROVE  Kept(G)
  <2>1. gens' \in [Utterances -> GenRecords] /\ Alike(G, gens')
    BY <1>4, AppendAlike DEF Told, Alike
  <2>2. QED
    BY <1>3, <2>1 DEF Kept
<1>5. CASE /\ StoreGrants(u, k, "completed")
           /\ Told(With(u, [Granted(u, k, "completed") EXCEPT !.pc = "over"]), u,
                   IF gens[u].pc = "success" THEN "completed" ELSE "broken")
  <2> DEFINE g == [Granted(u, k, "completed") EXCEPT !.pc = "over"]
             c == Renewed(row[u], "completed")
  <2>1. c \in ClaimRecords /\ c # NoClaim /\ c.phase = "completed"
    BY <1>2, ClaimTypes
  <2>2. row' = [row EXCEPT ![u] = c]
    BY <1>5 DEF StoreGrants
  <2>3. /\ g.ops = RemoveAt(gens[u].ops, k) /\ g.pc = "over"
        /\ g.refused = gens[u].refused /\ g.claim = c
    BY <1>2 DEF Granted, GenRecords
  <2> HIDE DEF c
  <2>4. Shifted(u, gens[u], k, g)
    BY <1>1, <1>2, <2>3, Rest
  <2>5. g \in GenRecords
    BY <1>2, <2>1, <2>4 DEF Granted, GenRecords, Shifted, c
  <2>6. \E kind : Told(With(u, g), u, kind)
    BY <1>5
  <2> HIDE DEF g
  <2>7. OneBeat(With(u, g), run)
    BY <1>1, <1>2, <2>3, FewerBeats DEF With
  <2>8. ASSUME ~g.refused
        PROVE  /\ Knows(u, g, c, operation) /\ Waiting(u, g, c, operation, generating)
               /\ Owned(u, g, c, operation, run)
    <3>1. /\ Waiting(u, gens[u], row[u], operation, generating)
          /\ Owned(u, gens[u], row[u], operation, run)
      BY <1>2, <2>3, <2>8 DEF GenSound
    <3>2. Knows(u, g, c, operation)
      BY <2>3, <2>4 DEF Knows, Shifted
    <3>3. \A j \in 1..Len(g.ops) :
            g.ops[j].op = "release" => j = Len(g.ops) /\ operation # u
      BY <2>4, <3>1 DEF Waiting, Shifted
    <3>4. Waiting(u, g, c, operation, generating)
      BY <2>1, <2>3, <2>4, <3>3 DEF Waiting, Shifted
    <3>5. Owned(u, g, c, operation, run)
      BY <1>2, <2>1, <3>1 DEF Owned
    <3>6. QED
      BY <3>2, <3>4, <3>5
  <2>9. GenSound(u, g, c, operation, generating, run)
    BY <2>1, <2>4, <2>8 DEF GenSound, Shifted
  <2>10. Becomes(u, g, c, operation, generating, run)
    BY <2>1, <2>5, <2>9 DEF Becomes
  <2>11. Sound(With(u, g), row', operation, generating, active.u, run)
    BY <2>2, <2>7, <2>10, SameConcerns, OneStep
  <2>12. Kept(With(u, g))
    BY <1>2, <1>4, <2>5, <2>6 DEF With
  <2>13. QED
    BY <1>2, <1>3, <2>11, <2>12, StepSound
<1>6. CASE /\ Told(With(u, [StoreRefuses(u, k) EXCEPT !.pc = "over"]), u, "broken")
           /\ StoreFails(u, k, "completed")
  <2> DEFINE G == With(u, [StoreRefuses(u, k) EXCEPT !.pc = "over"])
  <2>1. Sound(G, row', operation, generating, active.u, run)
    BY <1>1, <1>6, StoreRefusedSound
  <2>2. Kept(G)
    BY <1>4, <1>6, <2>1 DEF Sound, Shapes
  <2>3. QED
    BY <1>2, <1>3, <2>1, <2>2, StepSound
<1>7. QED
  BY <1>5, <1>6 DEF CompleteAnswered

(***************************************************************************)
(* Heartbeats                                                              *)
(***************************************************************************)
\* A heartbeat has the claim renewed behind the calls that wait already.
LEMMA HeartbeatSound == ASSUME IInv, HeartbeatAnswered PROVE IInv'
<1>1. /\ gens \in [Utterances -> GenRecords] /\ row \in [Utterances -> ClaimRecords]
      /\ OneBeat(gens, run) /\ RunShape(run) /\ ActiveShape(active)
      /\ generating \in BOOLEAN
      /\ run.pc = "beat" /\ row' = row
  BY DEF IInv, Sound, Shapes, HeartbeatAnswered
<1>2. CASE /\ operation # None /\ generating
           /\ gens' = With(operation, Enqueued(gens[operation], "beat"))
           /\ Wait("renewing")
           /\ UNCHANGED <<active, operation, generating>>
  <2> DEFINE u == operation
             g == Enqueued(gens[u], "beat")
             n == Len(gens[u].ops)
  <2>1. RunShape(run') /\ run'.pc = "renewing"
    BY <1>1, <1>2, WaitShape
  <2>2. \A v \in Utterances : \A k \in 1..Len(gens[v].ops) : gens[v].ops[k].op # "beat"
    BY <1>1 DEF OneBeat
  <2>3. ASSUME u \in Utterances
        PROVE  /\ g \in GenRecords /\ Len(g.ops) = n + 1 /\ n \in Nat
               /\ g.ops[n + 1].op = "beat" /\ g.ops[n + 1].claim = NoClaim
               /\ \A k \in 1..n : g.ops[k] = gens[u].ops[k]
               /\ g.claim = gens[u].claim /\ g.pc = gens[u].pc
               /\ g.refused = gens[u].refused
    <3>1. gens[u] \in GenRecords /\ "beat" \in {"start", "release", "beat", "complete"}
      BY <1>1, <2>3
    <3>2. LET e == Enqueued(gens[u], "beat") IN
          /\ e \in GenRecords /\ Len(e.ops) = Len(gens[u].ops) + 1
          /\ Len(gens[u].ops) \in Nat
          /\ e.ops[Len(gens[u].ops) + 1].op = "beat"
          /\ e.ops[Len(gens[u].ops) + 1].claim = NoClaim
          /\ \A k \in 1..Len(gens[u].ops) : e.ops[k] = gens[u].ops[k]
          /\ e.claim = gens[u].claim /\ e.pc = gens[u].pc
          /\ e.refused = gens[u].refused /\ e.aborted = gens[u].aborted
      BY <3>1, EnqueuedLast
    <3>3. QED
      BY <3>2
  <2> HIDE DEF g
  <2>4. ASSUME u \in Utterances
        PROVE  GenSound(u, g, row[u], operation, generating, run')
    <3> HIDE DEF u
    <3>1. GenSound(u, gens[u], row[u], operation, generating, run) /\ operation = u
      BY <2>4 DEF IInv, Sound, u
    <3>2. /\ \A k \in 1..Len(g.ops) : k \in 1..n \/ k = n + 1
          /\ n + 1 \in 1..Len(g.ops) /\ 1..n \subseteq 1..Len(g.ops)
      BY <2>3, <2>4
    <3> HIDE DEF n
    <3>3. InTurn(u, g, run')
      BY <1>1, <2>3, <2>4, <3>1, <3>2 DEF GenSound, InTurn, n
    <3>4. Busy(u, gens[u], operation) /\ row[u] # NoClaim
      BY <3>1 DEF GenSound, Busy
    <3>5. ASSUME ~g.refused
          PROVE  /\ Knows(u, g, row[u], operation)
                 /\ Waiting(u, g, row[u], operation, generating)
                 /\ Owned(u, g, row[u], operation, run')
      <4>1. /\ Knows(u, gens[u], row[u], operation)
            /\ Waiting(u, gens[u], row[u], operation, generating)
            /\ Owned(u, gens[u], row[u], operation, run)
        BY <2>3, <2>4, <3>1, <3>5 DEF GenSound
      <4>2. row[u].phase # "claimed" /\ ~Has(gens[u], {"start"})
        BY <1>2, <3>1, <4>1 DEF Waiting
      <4>3. \A k \in 1..n : gens[u].ops[k].op # "release"
        BY <3>1, <4>1 DEF Waiting, n
      <4>4. Knows(u, g, row[u], operation)
        BY <2>3, <2>4, <3>2, <3>4, <4>1 DEF Knows, n
      <4>5. ~Has(g, {"start"})
        BY <2>3, <2>4, <3>2, <4>2 DEF Has, n
      <4>6. \A k \in 1..Len(g.ops) : g.ops[k].op # "release"
        BY <2>3, <2>4, <3>2, <4>3
      <4>7. Waiting(u, g, row[u], operation, generating)
        BY <4>2, <4>5, <4>6 DEF Waiting
      <4>8. \A kinds : Has(gens[u], kinds) => Has(g, kinds)
        BY <2>3, <2>4, <3>2 DEF Has, n
      <4>9. Owned(u, g, row[u], operation, run')
        BY <1>1, <2>1, <2>3, <2>4, <4>1, <4>8 DEF Owned, Releasing
      <4>10. QED
        BY <4>4, <4>7, <4>9
    <3>6. QED
      BY <3>3, <3>4, <3>5 DEF GenSound
  <2>5. Becomes(u, g, row[u], operation, generating, run')
    BY <1>1, <2>3, <2>4 DEF Becomes
  <2>6. OneBeat(With(u, g), run')
    <3> HIDE DEF u
    <3>1. ASSUME NEW v \in Utterances, NEW k \in 1..Len(With(u, g)[v].ops),
                 With(u, g)[v].ops[k].op = "beat"
          PROVE  v = u /\ k = n + 1
      <4>1. CASE v = u
        <5>1. With(u, g)[v] = g /\ u \in Utterances
          BY <1>1, <4>1 DEF With
        <5>2. k \in 1..n \/ k = n + 1
          BY <2>3, <3>1, <5>1
        <5>3. QED
          BY <2>2, <2>3, <3>1, <4>1, <5>1, <5>2
      <4>2. CASE v # u
        BY <1>1, <2>2, <3>1, <4>2 DEF With
      <4>3. QED
        BY <4>1, <4>2
    <3>2. QED
      BY <2>1, <3>1 DEF OneBeat
  <2>7. Concerns(u, active.u, operation, generating, run, operation, generating, run')
    BY <1>1, <2>1 DEF Concerns, IInv, Sound
  <2>8. row' = [row EXCEPT ![u] = row[u]]
    BY <1>1
  <2>9. Sound(With(u, g), row', operation, generating, active.u, run')
    BY <2>5, <2>6, <2>7, <2>8, OneStep
  <2>10. gens' = With(u, g)
    BY <1>2 DEF g
  <2>11. QED
    BY <1>1, <1>2, <2>1, <2>9, <2>10 DEF IInv
<1>3. CASE run' = Idle /\ UNCHANGED coreVars
  BY <1>1, <1>3, KeptSame, AnswerQuiet DEF coreVars, Waits
<1>4. CASE SecurityFailure(gens)
  BY <1>1, <1>4, FailureEnds, KeptSame, AnswerQuiet DEF Waits
<1>5. QED
  BY <1>2, <1>3, <1>4 DEF HeartbeatAnswered

\* The one heartbeat that waits is answered.
LEMMA RenewalSound ==
  ASSUME IInv, NEW u \in Utterances, NEW k \in 1..Len(gens[u].ops), RenewalAnswered(u, k)
  PROVE  IInv'
<1>1. gens[u].ops[k].op = "beat" /\ gens[u].ops[k].claim # NoClaim
  BY DEF RenewalAnswered, Answered
<1>2. /\ gens \in [Utterances -> GenRecords] /\ row[u] \in ClaimRecords
      /\ gens[u] \in GenRecords /\ OneBeat(gens, run) /\ u # None
      /\ GenSound(u, gens[u], row[u], operation, generating, run)
      /\ InTurn(u, gens[u], run) /\ k = 1 /\ Len(gens[u].ops) \in Nat
      /\ Busy(u, gens[u], operation) /\ RunShape(run) /\ row[u] # NoClaim
      /\ (~gens[u].refused => gens[u].claim = row[u])
  BY <1>1, AnsweredSound
<1>3. run.pc = "renewing"
  BY <1>1, <1>2 DEF OneBeat
<1>4. ActiveShape(active) /\ run' = Idle /\ RunShape(Idle) /\ Idle.pc = "idle"
  BY IdleShape, FailureEnds DEF RenewalAnswered, IInv
<1>5. Concerns(u, active.u, operation, generating, run, operation, generating, Idle)
  BY <1>3, <1>4 DEF Concerns, IInv, Sound, Shapes
<1>b. ASSUME NEW h, h.ops = RemoveAt(gens[u].ops, k) PROVE OneBeat(With(u, h), Idle)
  <2>1. OneBeat([gens EXCEPT ![u] = h], Idle)
    BY <1>1, <1>2, <1>b, LastBeat DEF Beats
  <2>2. QED
    BY <2>1 DEF With
\* the generation without the heartbeat, and with its claim as it is or renewed
<1>6. ASSUME NEW g \in GenRecords, NEW c \in ClaimRecords,
             g.ops = RemoveAt(gens[u].ops, k), g.pc = gens[u].pc,
             g.refused = gens[u].refused, ~g.refused => g.claim = c,
             row' = [row EXCEPT ![u] = c], c = row[u] \/ c.phase = "started",
             c = row[u] \/ g.refused \/ row[u].phase = "started"
      PROVE  Sound(With(u, g), row', operation, generating, active.u, Idle)
  <2>1. Shifted(u, gens[u], k, g)
    BY <1>1, <1>2, <1>6, Rest
  <2>2. OneBeat(With(u, g), Idle)
    <3>1. g.ops = RemoveAt(gens[u].ops, k)
      BY <1>6
    <3>2. QED
      BY <1>b, <3>1
  <2>3. c # NoClaim
    BY <1>2, <1>6 DEF NoClaim
  <2>4. ASSUME ~g.refused
        PROVE  /\ Knows(u, g, c, operation) /\ Waiting(u, g, c, operation, generating)
               /\ Owned(u, g, c, operation, Idle)
    <3>1. /\ Waiting(u, gens[u], row[u], operation, generating)
          /\ Owned(u, gens[u], row[u], operation, run)
      BY <1>2, <1>6, <2>4 DEF GenSound
    <3>2. Knows(u, g, c, operation)
      BY <1>6, <2>1, <2>4 DEF Knows, Shifted
    <3>3. \A j \in 1..Len(g.ops) :
            g.ops[j].op = "release" => j = Len(g.ops) /\ operation # u /\ g.pc # "calling"
      BY <1>6, <2>1, <3>1 DEF Waiting, Shifted
    <3>4. row[u].phase # "claimed"
      <4>1. Has(gens[u], {"beat", "complete"})
        BY <1>1 DEF Has
      <4>2. QED
        BY <3>1, <4>1 DEF Waiting
    <3>5. Waiting(u, g, c, operation, generating)
      BY <1>6, <2>1, <3>3, <3>4 DEF Waiting, Shifted
    <3>6. Has(gens[u], {"start", "release", "complete"})
            => Has(g, {"start", "release", "complete"})
      BY <1>1, <2>1 DEF Shifted
    <3>7. ~Releasing(u, run) /\ ~Releasing(u, Idle)
      BY <1>3, <1>4 DEF Releasing
    <3>8. c.phase \in {"claimed", "started"} => row[u].phase \in {"claimed", "started"}
      BY <1>6, <2>4
    <3>9. Owned(u, g, c, operation, Idle)
      BY <1>6, <3>1, <3>6, <3>7, <3>8 DEF Owned
    <3>10. QED
      BY <3>2, <3>5, <3>9
  <2>5. GenSound(u, g, c, operation, generating, Idle)
    BY <2>1, <2>3, <2>4 DEF GenSound, Shifted
  <2>6. Becomes(u, g, c, operation, generating, Idle)
    BY <1>6, <2>5 DEF Becomes
  <2>7. QED
    BY <1>5, <1>6, <2>2, <2>6, OneStep
<1>7. CASE /\ gens' = With(u, [gens[u] EXCEPT !.ops = RemoveAt(@, k)])
           /\ UNCHANGED <<row, active, operation, generating>>
  <2> DEFINE g == [gens[u] EXCEPT !.ops = RemoveAt(@, k)]
  <2>1. /\ g.ops = RemoveAt(gens[u].ops, k) /\ g.pc = gens[u].pc
        /\ g.refused = gens[u].refused /\ g.claim = gens[u].claim
    BY <1>2 DEF GenRecords
  <2>2. RemoveAt(gens[u].ops, k) \in Seq(OpRecords)
    BY <1>1, <1>2, AnsweredFirst
  <2>3. g \in GenRecords
    BY <1>2, <2>2 DEF GenRecords
  <2> HIDE DEF g
  <2>4. row' = [row EXCEPT ![u] = row[u]]
    BY <1>7, RowStep
  <2>5. Sound(With(u, g), row', operation, generating, active.u, Idle)
    BY <1>2, <1>6, <2>1, <2>3, <2>4
  <2>6. gens' = With(u, g)
    BY <1>7 DEF g
  <2>7. QED
    BY <1>4, <1>7, <2>5, <2>6 DEF IInv
<1>8. CASE /\ gens[u].ops[k].claim.phase = "started"
           /\ StoreGrants(u, k, "started")
           /\ gens' = With(u, Granted(u, k, "started"))
           /\ UNCHANGED <<active, operation, generating>>
  <2> DEFINE g == Granted(u, k, "started")
             c == Renewed(row[u], "started")
  <2>1. c \in ClaimRecords /\ c.phase = "started"
    BY <1>2, ClaimTypes
  <2>2. row' = [row EXCEPT ![u] = c] /\ row[u].phase = "started"
    BY <1>8 DEF StoreGrants
  <2>3. /\ g.ops = RemoveAt(gens[u].ops, k) /\ g.pc = gens[u].pc
        /\ g.refused = gens[u].refused /\ g.claim = c
    BY <1>2 DEF Granted, GenRecords
  <2>4. RemoveAt(gens[u].ops, k) \in Seq(OpRecords)
    BY <1>1, <1>2, AnsweredFirst
  <2>5. g \in GenRecords
    BY <1>2, <2>1, <2>4 DEF Granted, GenRecords
  <2> HIDE DEF g, c
  <2>6. Sound(With(u, g), row', operation, generating, active.u, Idle)
    BY <1>6, <2>1, <2>2, <2>3, <2>5
  <2>7. gens' = With(u, g)
    BY <1>8 DEF g
  <2>8. QED
    BY <1>4, <1>8, <2>6, <2>7 DEF IInv
<1>9. CASE SecurityFailure(With(u, StoreRefuses(u, k))) /\ StoreFails(u, k, "started")
  <2> DEFINE G == With(u, StoreRefuses(u, k))
  <2>1. [StoreRefuses(u, k) EXCEPT !.pc = gens[u].pc] = StoreRefuses(u, k)
    BY <1>2 DEF StoreRefuses, GenRecords
  <2>2. Sound(With(u, [StoreRefuses(u, k) EXCEPT !.pc = gens[u].pc]), row', operation,
              generating, active.u, Idle)
    BY <1>1, <1>4, <1>9, StoreRefusedSound DEF Waits
  <2>3. Sound(G, row', operation, generating, active.u, run')
    BY <1>4, <2>1, <2>2
  <2>4. Ended(G) \/ Kept(G)
    <3>1. G \in [Utterances -> GenRecords]
      BY <2>3 DEF Sound, Shapes
    <3>2. SecurityFailure(G)
      BY <1>9
    <3> HIDE DEF G
    <3>3. QED
      BY <1>4, <3>1, <3>2, FailureEnds DEF Kept, Alike
  <2>5. QED
    BY <1>4, <2>3, <2>4, StepSound
<1>10. QED
  BY <1>7, <1>8, <1>9 DEF RenewalAnswered

(***************************************************************************)
(* The claim of an utterance                                               *)
(***************************************************************************)
\* While the drain works on a claim no heartbeat waits, and the invariant holds
\* of a generation for which nothing was done.
LEMMA DrainAtWork ==
  ASSUME IInv, run.pc \in {"authorize", "release"}
  PROVE  /\ gens \in [Utterances -> GenRecords] /\ row \in [Utterances -> ClaimRecords]
         /\ generating \in BOOLEAN /\ RunShape(run) /\ ActiveShape(active)
         /\ \A v \in Utterances :
              /\ GenSound(v, gens[v], row[v], operation, generating, run)
              /\ \A k \in 1..Len(gens[v].ops) : gens[v].ops[k].op \notin {"beat", "start"}
         /\ operation # None => operation = active.u
         /\ generating => operation # None
<1>1. /\ gens \in [Utterances -> GenRecords] /\ row \in [Utterances -> ClaimRecords]
      /\ generating \in BOOLEAN /\ RunShape(run) /\ ActiveShape(active) /\ OneBeat(gens, run)
      /\ \A v \in Utterances : GenSound(v, gens[v], row[v], operation, generating, run)
      /\ operation # None => operation = active.u
      /\ generating => operation # None
  BY DEF IInv, Sound, Shapes
<1>2. \A v \in Utterances : \A k \in 1..Len(gens[v].ops) :
        gens[v].ops[k].op \notin {"beat", "start"}
  BY <1>1 DEF GenSound, InTurn, OneBeat
<1>3. QED
  BY <1>1, <1>2

\* A generation whose operations are the ones it had brings no heartbeat.
LEMMA NoBeat ==
  ASSUME IInv, run.pc \in {"authorize", "release"}, NEW u, NEW g,
         u \in Utterances => \A k \in 1..Len(g.ops) : g.ops[k].op # "beat",
         NEW rn
  PROVE  OneBeat(With(u, g), rn)
<1>1. \A v \in Utterances : \A k \in 1..Len(With(u, g)[v].ops) :
        With(u, g)[v].ops[k].op # "beat"
  BY DrainAtWork DEF With
<1>2. QED
  BY <1>1 DEF OneBeat

LEMMA AcquiredSound == ASSUME IInv, ClaimAcquired PROVE IInv'
<1> DEFINE u == run.event.u
<1>1. /\ run.pc = "authorize" /\ row[u] = NoClaim /\ row' = [row EXCEPT ![u] = Claimed]
      /\ active' = active /\ generating' = generating
  BY DEF ClaimAcquired
<1>2. /\ gens \in [Utterances -> GenRecords] /\ row \in [Utterances -> ClaimRecords]
      /\ generating \in BOOLEAN /\ RunShape(run) /\ ActiveShape(active)
      /\ \A v \in Utterances :
           /\ GenSound(v, gens[v], row[v], operation, generating, run)
           /\ \A k \in 1..Len(gens[v].ops) : gens[v].ops[k].op \notin {"beat", "start"}
      /\ operation # None => operation = active.u
      /\ generating => operation # None
  BY <1>1, DrainAtWork
<1> HIDE DEF u
\* no claim, so nothing was done for this utterance
<1>3. ASSUME u \in Utterances
      PROVE  /\ gens[u] \in GenRecords /\ gens[u].ops = <<>> /\ gens[u].pc # "calling"
             /\ operation # u /\ u # None
  <2>1. ~Busy(u, gens[u], operation)
    BY <1>1, <1>2, <1>3 DEF GenSound
  <2>2. gens[u].ops \in Seq(OpRecords) /\ gens[u] \in GenRecords
    BY <1>2, <1>3 DEF GenRecords
  <2>3. QED
    BY <1>3, <2>1, <2>2, RelayAssumption DEF Busy
<1>4. CASE /\ CurrentEvent(run.event) /\ operation' = u
           /\ gens' = [gens EXCEPT ![u] = Enqueued([@ EXCEPT !.claim = Claimed], "start")]
           /\ Wait("start")
  <2> DEFINE b == [gens[u] EXCEPT !.claim = Claimed]
             g == Enqueued(b, "start")
  <2>1. RunShape(run') /\ run'.pc = "start" /\ run'.event.u = u
    BY <1>2, <1>4, WaitShape DEF u
  <2>2. active.u = u
    BY <1>4 DEF CurrentEvent, u
  <2>3. gens' = With(u, g)
    BY <1>4 DEF With
  <2>4. ASSUME u \in Utterances
        PROVE  /\ g \in GenRecords /\ Len(g.ops) = 1 /\ g.ops[1].op = "start"
               /\ g.ops[1].claim = NoClaim /\ g.claim = Claimed /\ g.pc # "calling"
    <3>1. /\ b \in GenRecords /\ b.ops = <<>> /\ b.claim = Claimed /\ b.pc # "calling"
          /\ "start" \in {"start", "release", "beat", "complete"}
      BY <1>3, <2>4, ClaimTypes DEF GenRecords
    <3> HIDE DEF b
    <3>2. LET e == Enqueued(b, "start") IN
          /\ e \in GenRecords /\ Len(e.ops) = Len(b.ops) + 1 /\ Len(b.ops) \in Nat
          /\ e.ops[Len(b.ops) + 1].op = "start" /\ e.ops[Len(b.ops) + 1].claim = NoClaim
          /\ \A k \in 1..Len(b.ops) : e.ops[k] = b.ops[k]
          /\ e.claim = b.claim /\ e.pc = b.pc /\ e.refused = b.refused
          /\ e.aborted = b.aborted
      BY <3>1, EnqueuedLast
    <3>3. Len(b.ops) = 0
      BY <3>1
    <3>4. QED
      BY <3>1, <3>2, <3>3
  <2> HIDE DEF g, b
  <2>5. ASSUME u \in Utterances
        PROVE  GenSound(u, g, Claimed, u, generating, run') /\ ~generating
    <3>1. ~generating
      BY <1>2, <1>3, <2>2, <2>5
    <3>2. 1..Len(g.ops) = {1}
      <4>1. Len(g.ops) = 1
        BY <2>4, <2>5
      <4>2. QED
        BY <4>1
    <3>3. InTurn(u, g, run')
      BY <2>1, <2>4, <2>5, <3>2 DEF InTurn
    <3>4. Knows(u, g, Claimed, u)
      BY <2>4, <2>5, <3>2 DEF Knows
    <3>5. Has(g, {"start"}) /\ Has(g, {"start", "release", "complete"})
          /\ ~Has(g, {"beat", "complete"})
      BY <2>4, <2>5, <3>2 DEF Has
    <3>6. Waiting(u, g, Claimed, u, generating)
      BY <2>4, <2>5, <3>1, <3>2, <3>5, ClaimTypes DEF Waiting
    <3>7. Owned(u, g, Claimed, u, run')
      BY <2>1, <3>5 DEF Owned, Releasing
    <3>8. QED
      BY <3>1, <3>3, <3>4, <3>6, <3>7, ClaimTypes DEF GenSound
  <2>6. Becomes(u, g, Claimed, u, generating, run')
    BY <2>4, <2>5, ClaimTypes DEF Becomes
  <2>7. OneBeat(With(u, g), run')
    <3>1. u \in Utterances => \A k \in 1..Len(g.ops) : g.ops[k].op # "beat"
      BY <2>4
    <3>2. QED
      BY <1>1, <3>1, NoBeat
  <2>8. Concerns(u, active.u, operation, generating, run, u, generating, run')
    BY <1>1, <1>2, <2>1, <2>2 DEF Concerns
  <2>9. Sound(With(u, g), row', u, generating, active.u, run')
    BY <1>1, <2>6, <2>7, <2>8, OneStep
  <2>10. QED
    BY <1>1, <1>2, <1>4, <2>1, <2>3, <2>9 DEF IInv
<1>5. CASE UNCHANGED <<gens, operation>> /\ Wait("release")
  <2> DEFINE g == gens[u]
  <2>1. RunShape(run') /\ run'.pc = "release" /\ run'.event.u = u
    BY <1>2, <1>5, WaitShape DEF u
  <2>2. gens' = With(u, g)
    BY <1>2, <1>5 DEF With
  <2> HIDE DEF g
  <2>3. ASSUME u \in Utterances
        PROVE  GenSound(u, g, Claimed, operation, generating, run') /\ g \in GenRecords
    <3>1. /\ g \in GenRecords /\ Len(g.ops) = 0 /\ g.pc # "calling" /\ operation # u
      BY <1>3, <2>3 DEF g
    <3>2. ~Busy(u, g, operation) /\ (\A kinds : ~Has(g, kinds)) /\ 1..Len(g.ops) = {}
      BY <3>1 DEF Busy, Has
    <3>3. Owned(u, g, Claimed, operation, run')
      BY <2>1, <3>2, ClaimTypes DEF Owned, Releasing
    <3>4. QED
      BY <3>1, <3>2, <3>3, ClaimTypes DEF GenSound, InTurn, Knows, Waiting
  <2>4. Becomes(u, g, Claimed, operation, generating, run')
    BY <2>3, ClaimTypes DEF Becomes
  <2>5. OneBeat(With(u, g), run')
    BY <1>1, <1>2, NoBeat DEF g
  <2>6. Concerns(u, active.u, operation, generating, run, operation, generating, run')
    BY <1>1, <1>2, <2>1 DEF Concerns
  <2>7. Sound(With(u, g), row', operation, generating, active.u, run')
    BY <1>1, <2>4, <2>5, <2>6, OneStep
  <2>8. QED
    BY <1>1, <1>2, <1>5, <2>1, <2>2, <2>7 DEF IInv
<1>6. QED
  BY <1>4, <1>5 DEF ClaimAcquired, u

\* A call that was refused leaves the claim to its lease.
LEMMA RefusalSound ==
  ASSUME IInv, run.pc \in {"authorize", "release"}, RunShape(run'), run'.pc = "drain",
         NEW c \in ClaimRecords, c # NoClaim, Fails(run.event.u, c)
  PROVE  Sound([gens EXCEPT ![run.event.u].refused = TRUE], row', operation, generating,
               active.u, run')
<1> DEFINE u == run.event.u
           g == [gens[u] EXCEPT !.refused = TRUE]
<1>1. /\ gens \in [Utterances -> GenRecords] /\ row \in [Utterances -> ClaimRecords]
      /\ generating \in BOOLEAN
      /\ \A v \in Utterances :
           /\ GenSound(v, gens[v], row[v], operation, generating, run)
           /\ \A k \in 1..Len(gens[v].ops) : gens[v].ops[k].op \notin {"beat", "start"}
      /\ operation # None => operation = active.u
      /\ generating => operation # None
  BY DrainAtWork
<1>2. Fails(u, c) /\ [gens EXCEPT ![run.event.u].refused = TRUE] = With(u, g)
  BY DEF With
<1>3. run.event.u = u
  OBVIOUS
<1> HIDE DEF u
<1>4. ASSUME u \in Utterances
      PROVE  /\ g \in GenRecords /\ g.refused /\ g.ops = gens[u].ops /\ g.pc = gens[u].pc
  BY <1>1, <1>4 DEF GenRecords
<1> HIDE DEF g
<1>5. PICK d : row' = [row EXCEPT ![u] = d] /\ (d = row[u] \/ d = c)
  BY <1>1, <1>2 DEF Fails
<1>6. ASSUME u \in Utterances PROVE GenSound(u, g, d, operation, generating, run')
  <2>1. GenSound(u, gens[u], row[u], operation, generating, run)
    BY <1>1, <1>6
  <2>2. InTurn(u, g, run')
    BY <1>1, <1>4, <1>6, <2>1 DEF GenSound, InTurn
  <2>3. Busy(u, g, operation) => d # NoClaim
    BY <1>4, <1>5, <1>6, <2>1 DEF GenSound, Busy
  <2>4. QED
    BY <1>4, <1>6, <2>2, <2>3 DEF GenSound
<1>7. Becomes(u, g, d, operation, generating, run')
  BY <1>1, <1>4, <1>5, <1>6 DEF Becomes
<1>8. OneBeat(With(u, g), run')
  <2>1. u \in Utterances => \A k \in 1..Len(g.ops) : g.ops[k].op # "beat"
    BY <1>1, <1>4
  <2>2. QED
    BY <2>1, NoBeat
<1>9. Concerns(u, active.u, operation, generating, run, operation, generating, run')
  BY <1>1, <1>3 DEF Concerns
<1>10. Sound(With(u, g), row', operation, generating, active.u, run')
  BY <1>5, <1>7, <1>8, <1>9, OneStep
<1>11. QED
  BY <1>2, <1>10

LEMMA RefusedClaimSound == ASSUME IInv, ClaimRefused PROVE IInv'
<1> DEFINE G == [gens EXCEPT ![run.event.u].refused = TRUE]
<1>1. run.pc = "authorize" /\ Fails(run.event.u, Claimed)
  BY DEF ClaimRefused
<1>2. RunShape(run') /\ run'.pc = "drain"
  BY ContinueShape DEF ClaimRefused, IInv
<1>3. Sound(G, row', operation, generating, active.u, run')
  BY <1>1, <1>2, ClaimTypes, RefusalSound
<1>4. CASE Finish(G, FALSE)
  BY <1>2, <1>3, <1>4, FinishEnds, StepSound
<1>5. CASE ~Finish(G, FALSE)
  <2>1. /\ gens' = G /\ operation' = operation /\ generating' = generating
        /\ active' = active
    BY <1>5 DEF ClaimRefused
  <2>2. QED
    BY <1>2, <1>3, <2>1 DEF IInv
<1>6. QED
  BY <1>4, <1>5

LEMMA ClaimReleasedSound == ASSUME IInv, ClaimReleased PROVE IInv'
<1> DEFINE u == run.event.u
<1>1. /\ run.pc = "release" /\ operation' = operation /\ generating' = generating
      /\ active' = active
  BY DEF ClaimReleased
<1>2. RunShape(run') /\ run'.pc = "drain"
  BY ContinueShape DEF ClaimReleased, IInv
<1>3. /\ gens \in [Utterances -> GenRecords] /\ row \in [Utterances -> ClaimRecords]
      /\ generating \in BOOLEAN /\ ActiveShape(active)
      /\ \A v \in Utterances :
           /\ GenSound(v, gens[v], row[v], operation, generating, run)
           /\ \A k \in 1..Len(gens[v].ops) : gens[v].ops[k].op \notin {"beat", "start"}
      /\ operation # None => operation = active.u
      /\ generating => operation # None
  BY <1>1, DrainAtWork
<1>4. run.event.u = u
  OBVIOUS
<1> HIDE DEF u
<1>5. CASE row' = [row EXCEPT ![u] = Renewed(@, "released")] /\ UNCHANGED gens
  <2> DEFINE g == gens[u]
             c == Renewed(row[u], "released")
  <2>1. row' = [row EXCEPT ![u] = c] /\ gens' = With(u, g)
    BY <1>3, <1>5 DEF With
  <2>2. ASSUME u \in Utterances
        PROVE  /\ GenSound(u, g, c, operation, generating, run')
               /\ g \in GenRecords /\ c \in ClaimRecords
    <3>1. c \in ClaimRecords /\ c # NoClaim /\ c.phase = "released"
      BY <1>3, <2>2, ClaimTypes
    <3> HIDE DEF c
    <3>2. g \in GenRecords /\ GenSound(u, g, row[u], operation, generating, run)
      BY <1>3, <2>2
    <3>3. InTurn(u, g, run')
      BY <1>3, <2>2, <3>2 DEF GenSound, InTurn
    <3>4. ASSUME ~g.refused
          PROVE  /\ Knows(u, g, c, operation) /\ Waiting(u, g, c, operation, generating)
                 /\ Owned(u, g, c, operation, run')
      <4>1. ~Busy(u, g, operation)
        BY <1>1, <1>4, <3>2, <3>4 DEF GenSound, Owned, Releasing
      <4>2. g.ops \in Seq(OpRecords)
        BY <3>2 DEF GenRecords
      <4>3. Len(g.ops) = 0 /\ g.pc # "calling" /\ operation # u
        BY <4>1, <4>2 DEF Busy
      <4>4. 1..Len(g.ops) = {} /\ \A kinds : ~Has(g, kinds)
        BY <4>3 DEF Has
      <4>5. ~Releasing(u, run')
        BY <1>2 DEF Releasing
      <4>6. QED
        BY <3>1, <4>1, <4>3, <4>4, <4>5 DEF Knows, Waiting, Owned
    <3>5. QED
      BY <3>1, <3>2, <3>3, <3>4 DEF GenSound
  <2>3. Becomes(u, g, c, operation, generating, run')
    BY <2>2 DEF Becomes
  <2>4. OneBeat(With(u, g), run')
    BY <1>1, <1>3, NoBeat
  <2>5. Concerns(u, active.u, operation, generating, run, operation, generating, run')
    BY <1>2, <1>3, <1>4 DEF Concerns
  <2>6. Sound(With(u, g), row', operation, generating, active.u, run')
    BY <2>1, <2>3, <2>4, <2>5, OneStep
  <2>7. QED
    BY <1>1, <1>2, <1>3, <2>1, <2>6 DEF IInv
<1>6. CASE /\ gens' = [gens EXCEPT ![u].refused = TRUE]
           /\ Fails(u, Renewed(row[u], "released"))
  <2>1. CASE u \in Utterances
    <3>1. Renewed(row[u], "released") \in ClaimRecords /\ Renewed(row[u], "released") # NoClaim
      BY <1>3, <2>1, ClaimTypes
    <3>2. Sound([gens EXCEPT ![run.event.u].refused = TRUE], row', operation, generating,
                active.u, run')
      BY <1>1, <1>2, <1>4, <1>6, <3>1, RefusalSound
    <3>3. QED
      BY <1>1, <1>2, <1>3, <1>4, <1>6, <3>2 DEF IInv
  <2>2. CASE u \notin Utterances
    <3>1. row' = row /\ gens' = gens
      BY <1>3, <1>6, <2>2 DEF Fails
    <3>2. Fails(u, Claimed)
      BY <3>1 DEF Fails
    <3>3. Sound([gens EXCEPT ![run.event.u].refused = TRUE], row', operation, generating,
                active.u, run')
      BY <1>1, <1>2, <1>4, <3>2, ClaimTypes, RefusalSound
    <3>4. QED
      BY <1>1, <1>2, <1>3, <1>4, <1>6, <3>3 DEF IInv
  <2>3. QED
    BY <2>1, <2>2
<1>7. QED
  BY <1>5, <1>6 DEF ClaimReleased, u

(***************************************************************************)
(* The theorem                                                             *)
(***************************************************************************)
LEMMA InitSound == ASSUME Init PROVE IInv
<1>1. /\ \A u \in Utterances :
           gens[u] \in GenRecords /\ gens[u].ops = <<>> /\ gens[u].pc = "none"
      /\ gens \in [Utterances -> GenRecords] /\ row \in [Utterances -> ClaimRecords]
  BY DEF Init, NoGeneration, GenRecords, ClaimRecords, NoClaim
<1>2. RunShape(run) /\ run.pc = "idle" /\ ActiveShape(active)
  BY IdleShape DEF Init, ActiveShape, NoUtterance
<1>3. /\ operation = None /\ generating = FALSE
      /\ \A u \in Utterances : row[u].phase = "none" /\ u # None
  BY RelayAssumption DEF Init, NoClaim
<1>4. \A u \in Utterances : Len(gens[u].ops) = 0 /\ 1..Len(gens[u].ops) = {}
  BY <1>1
<1>5. ASSUME NEW u \in Utterances
      PROVE  GenSound(u, gens[u], row[u], operation, generating, run)
  <2>1. ~Busy(u, gens[u], operation) /\ \A kinds : ~Has(gens[u], kinds)
    BY <1>1, <1>3, <1>4 DEF Busy, Has
  <2>2. QED
    BY <1>1, <1>2, <1>3, <1>4, <2>1
    DEF GenSound, InTurn, Knows, Waiting, Owned, Releasing
<1>6. OneBeat(gens, run)
  BY <1>4 DEF OneBeat
<1>7. QED
  BY <1>1, <1>2, <1>3, <1>5, <1>6 DEF IInv, Sound, Shapes

LEMMA StepInvariant == ASSUME IInv, [Next]_vars PROVE IInv'
<1>1. CASE ClientStep
  BY <1>1, ClientQuiet
<1>2. CASE MessageStep
  BY <1>2, MessageQuiet
<1>3. CASE DrainStep
  BY <1>3, DrainQuiet, AcquiredSound, RefusedClaimSound, ClaimReleasedSound DEF DrainStep
<1>4. CASE HeartbeatDue \/ BeginHeartbeat \/ SocketClosed \/ Revoked
  BY <1>4, RestQuiet
<1>5. CASE HeartbeatAnswered
  BY <1>5, HeartbeatSound
<1>6. CASE \E u \in Utterances : ProviderStep(u)
  BY <1>6, CallbackQuiet
<1>7. CASE \E u \in Utterances : StoreStep(u)
  <2>1. PICK u \in Utterances : StoreStep(u)
    BY <1>7
  <2>2. PICK k \in 1..Len(gens[u].ops) :
          \/ CallStore(u, k) \/ StartPermitted(u, k) \/ StartConsumed(u, k)
          \/ StartFailed(u, k) \/ ReleaseAnswered(u, k) \/ CompleteAnswered(u, k)
          \/ RenewalAnswered(u, k)
    BY <2>1 DEF StoreStep
  <2>3. QED
    BY <2>2, CallSound, PermittedSound, StartFailedSound, ReleasedSound, CompletedSound,
       RenewalSound
<1>8. CASE \E u \in Utterances : \E result \in {"success", "failure"} :
             GenerationSettles(u, result)
  BY <1>8, SettleSound
<1>9. CASE UNCHANGED vars
  <2>1. /\ gens' = gens /\ row' = row /\ operation' = operation
        /\ generating' = generating /\ active' = active /\ run' = run
    BY <1>9 DEF vars, hostVars, coreVars
  <2>2. QED
    BY <2>1 DEF IInv
<1>10. QED
  BY <1>1, <1>2, <1>3, <1>4, <1>5, <1>6, <1>7, <1>8, <1>9 DEF Next

\* A durable claim that is neither completed nor released is in someone's
\* hands, and the store is never called with a claim that another call of this
\* relay has already replaced (#runGenerationSecurityOperation, #finishActive
\* and the continuations of authorizeGeneration and complete), whichever way
\* messages, provider callbacks, store answers, heartbeats, revocations and
\* the end of the socket interleave.
THEOREM ClaimsStayInHand == Spec => []ClaimsInHand
<1>1. Init => IInv
  BY InitSound
<1>2. IInv /\ [Next]_vars => IInv'
  BY StepInvariant
<1>3. IInv => ClaimsInHand
  BY SoundInHand
<1>4. QED
  BY <1>1, <1>2, <1>3, PTL DEF Spec
=============================================================================
