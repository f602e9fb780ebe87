----------------------- MODULE RelayConversationProofs -----------------------
(***************************************************************************)
(* What a relay tells its client about an utterance, for any number of     *)
(* utterances and segments, a queue of any capacity, clients of any kind   *)
(* and answers in any order:                                               *)
(*   a failure waits for the drain alone and before anything else, and no  *)
(*     event is left waiting on a connection with nothing to do;           *)
(*   it has one outcome at most, and a translation is sent only of what    *)
(*     was transcribed, permitted and completed;                           *)
(*   a final transcript is never dropped from the queue without a word.    *)
(***************************************************************************)
EXTENDS RelaySessionProofs, SequenceTheorems, FiniteSetTheorems, WellFoundedInduction, TLAPS

(***************************************************************************)
(* The queue of events                                                     *)
(***************************************************************************)
\* A non-empty set of numbers has a least one.
LEMMA Least ==
  ASSUME NEW S \in SUBSET Nat, S # {} PROVE \E n \in S : \A m \in S : n <= m
<1>1. PICK n \in S : \A m \in S : ~ (<<m, n>> \in OpToRel(<, Nat))
  BY NatLessThanWellFounded, WFMin
<1>2. ASSUME NEW m \in S PROVE n <= m
  <2>1. n \in Nat /\ m \in Nat /\ ~ (m < n)
    BY <1>1 DEF OpToRel
  <2>2. QED
    BY <2>1
<1>3. QED
  BY <1>1, <1>2

LEMMA FirstIn ==
  ASSUME NEW S \in SUBSET Nat, S # {} PROVE First(S) \in S
BY Least DEF First

\* what stays of the first n events of p, function or not
Sifted(p, u, f, n) ==
  f = [k \in 0..n |-> IF k = 0 THEN <<>>
                      ELSE IF p[k].u = u THEN f[k - 1] ELSE Append(f[k - 1], p[k])]

LEMMA SiftedExists ==
  ASSUME NEW p, NEW u, NEW n \in Nat PROVE \E f : Sifted(p, u, f, n)
<1> DEFINE Bad == {m \in Nat : ~ \E f : Sifted(p, u, f, m)}
<1>1. SUFFICES ASSUME Bad # {} PROVE FALSE
  OBVIOUS
<1>2. PICK m \in Bad : \A j \in Bad : m <= j
  BY <1>1, Least
<1>3. m # 0
  <2>1. Sifted(p, u, [k \in 0..0 |-> <<>>], 0)
    <3>1. 0..0 = {0}
      OBVIOUS
    <3>2. QED
      BY <3>1 DEF Sifted
  <2>2. QED
    BY <1>2, <2>1
<1>4. m - 1 \in Nat /\ m \in Nat /\ ~ (m <= m - 1)
  BY <1>2, <1>3
<1>5. PICK f : Sifted(p, u, f, m - 1)
  BY <1>2, <1>4
<1> DEFINE step(h, k) == IF p[k].u = u THEN h[k - 1] ELSE Append(h[k - 1], p[k])
           g == [k \in 0..m |-> IF k <= m - 1 THEN f[k] ELSE step(f, m)]
<1>6. \A k \in 0..(m - 1) : f[k] = IF k = 0 THEN <<>> ELSE step(f, k)
  BY <1>5 DEF Sifted
<1>7. ASSUME NEW k \in 0..m PROVE g[k] = IF k = 0 THEN <<>> ELSE step(g, k)
  <2>1. k <= m - 1 \/ k = m
    BY <1>4
  <2>2. CASE k = 0
    BY <1>4, <1>6, <2>2
  <2>3. CASE k # 0 /\ k <= m - 1
    <3>1. k \in 0..(m - 1) /\ k - 1 \in 0..m /\ k - 1 <= m - 1
      BY <1>4, <2>3
    <3>2. g[k] = f[k] /\ g[k - 1] = f[k - 1]
      BY <2>3, <3>1
    <3>3. QED
      BY <1>6, <2>3, <3>1, <3>2
  <2>4. CASE k = m
    <3>1. m - 1 \in 0..m /\ m - 1 <= m - 1
      BY <1>4
    <3>2. g[m] = step(f, m) /\ g[m - 1] = f[m - 1]
      BY <1>4, <3>1
    <3>3. QED
      BY <1>3, <2>4, <3>2
  <2>5. QED
    BY <2>1, <2>2, <2>3, <2>4
<1>8. g = [k \in 0..m |-> g[k]]
  OBVIOUS
<1> HIDE DEF g
<1>9. Sifted(p, u, g, m)
  BY <1>7, <1>8 DEF Sifted
<1>10. QED
  BY <1>2, <1>9

\* Without keeps the events of the others, and no more.
LEMMA WithoutKeeps ==
  ASSUME NEW S, NEW p \in Seq(S), NEW u
  PROVE  /\ Without(p, u) \in Seq(S) /\ Len(Without(p, u)) <= Len(p)
         /\ \A i \in 1..Len(Without(p, u)) :
              \E k \in 1..Len(p) : Without(p, u)[i] = p[k] /\ p[k].u # u
         /\ \A k \in 1..Len(p) : p[k].u # u =>
              \E i \in 1..Len(Without(p, u)) : Without(p, u)[i] = p[k]
<1> DEFINE f == CHOOSE f : Sifted(p, u, f, Len(p))
<1>1. Without(p, u) = f[Len(p)]
  BY DEF Without, Sifted
<1>2. Len(p) \in Nat
  OBVIOUS
<1>3. Sifted(p, u, f, Len(p))
  BY <1>2, SiftedExists
<1> HIDE DEF f
<1>4. /\ f[0] = <<>>
      /\ \A k \in 1..Len(p) : f[k] = IF p[k].u = u THEN f[k - 1] ELSE Append(f[k - 1], p[k])
  <2>1. \A k \in 0..Len(p) :
          f[k] = IF k = 0 THEN <<>>
                 ELSE IF p[k].u = u THEN f[k - 1] ELSE Append(f[k - 1], p[k])
    BY <1>3 DEF Sifted
  <2>2. 0 \in 0..Len(p) /\ \A k \in 1..Len(p) : k \in 0..Len(p) /\ k # 0
    BY <1>2
  <2>3. QED
    BY <2>1, <2>2
<1> DEFINE Good(n) ==
             /\ f[n] \in Seq(S) /\ Len(f[n]) <= n
             /\ \A i \in 1..Len(f[n]) : \E k \in 1..n : f[n][i] = p[k] /\ p[k].u # u
             /\ \A k \in 1..n : p[k].u # u => \E i \in 1..Len(f[n]) : f[n][i] = p[k]
           Bad == {n \in 0..Len(p) : ~ Good(n)}
<1>5. Bad = {}
  <2>1. SUFFICES ASSUME Bad # {} PROVE FALSE
    OBVIOUS
  <2>2. Bad \in SUBSET Nat
    BY <1>2
  <2>3. PICK m \in Bad : \A j \in Bad : m <= j
    BY <2>1, <2>2, Least
  <2>4. m # 0
    <3>1. <<>> \in Seq(S) /\ Len(<<>>) = 0 /\ 1..0 = {}
      OBVIOUS
    <3>2. Good(0)
      BY <1>4, <3>1
    <3>3. QED
      BY <2>3, <3>2
  <2>5. m \in 1..Len(p) /\ m - 1 \in 0..Len(p) /\ ~ (m <= m - 1) /\ m - 1 \in Nat /\ m \in Nat
    BY <1>2, <2>3, <2>4
  <2>6. Good(m - 1)
    BY <2>3, <2>5
  <2>7. f[m] = IF p[m].u = u THEN f[m - 1] ELSE Append(f[m - 1], p[m])
    BY <1>4, <2>5
  <2>8. \A k \in 1..m : k \in 1..(m - 1) \/ k = m
    BY <2>5
  <2>9. 1..(m - 1) \subseteq 1..m /\ m \in 1..m
    BY <2>5
  <2>10. Good(m)
    <3> DEFINE h == f[m - 1]
    <3>b. \A q \in Seq(S) : Len(q) \in Nat
      OBVIOUS
    <3>0. /\ h \in Seq(S) /\ Len(h) <= m - 1 /\ Len(h) \in Nat
          /\ \A i \in 1..Len(h) : \E k \in 1..(m - 1) : h[i] = p[k] /\ p[k].u # u
          /\ \A k \in 1..(m - 1) : p[k].u # u => \E i \in 1..Len(h) : h[i] = p[k]
      BY <2>6, <3>b
    <3>a. f[m] = IF p[m].u = u THEN h ELSE Append(h, p[m])
      BY <2>7
    <3> HIDE DEF h
    <3>1. CASE p[m].u = u
      <4>1. f[m] = h /\ Len(h) <= m
        BY <3>0, <3>a, <3>1, <2>5
      <4>2. \A i \in 1..Len(h) : \E k \in 1..m : h[i] = p[k] /\ p[k].u # u
        BY <3>0, <2>9
      <4>3. \A k \in 1..m : p[k].u # u => \E i \in 1..Len(h) : h[i] = p[k]
        BY <3>0, <2>8, <3>1
      <4>4. QED
        BY <3>0, <4>1, <4>2, <4>3
    <3>2. CASE p[m].u # u
      <4> DEFINE q == Append(h, p[m])
      <4>1. p[m] \in S
        BY <2>5
      <4>2. /\ q \in Seq(S) /\ Len(q) = Len(h) + 1 /\ q[Len(h) + 1] = p[m]
            /\ \A i \in 1..Len(h) : q[i] = h[i]
        BY <3>0, <4>1
      <4>3. f[m] = q
        BY <3>a, <3>2
      <4> HIDE DEF q
      <4>4. \A i \in 1..Len(q) : i \in 1..Len(h) \/ i = Len(h) + 1
        BY <3>0, <4>2
      <4>5. 1..Len(h) \subseteq 1..Len(q) /\ Len(h) + 1 \in 1..Len(q) /\ Len(q) <= m
        BY <3>0, <4>2, <2>5
      <4>6. ASSUME NEW i \in 1..Len(q)
            PROVE  \E k \in 1..m : q[i] = p[k] /\ p[k].u # u
        <5>1. CASE i \in 1..Len(h)
          <6>1. q[i] = h[i] /\ \E k \in 1..(m - 1) : h[i] = p[k] /\ p[k].u # u
            BY <3>0, <4>2, <5>1
          <6>2. QED
            BY <2>9, <6>1
        <5>2. CASE i = Len(h) + 1
          <6>1. q[i] = p[m] /\ p[m].u # u /\ m \in 1..m
            BY <4>2, <5>2, <2>9, <3>2
          <6>2. QED
            BY <6>1
        <5>3. QED
          BY <4>4, <5>1, <5>2
      <4>7. \A k \in 1..m : p[k].u # u => \E i \in 1..Len(q) : q[i] = p[k]
        BY <3>0, <4>2, <4>5, <2>8
      <4>8. QED
        BY <4>2, <4>3, <4>5, <4>6, <4>7
    <3>3. QED
      BY <3>1, <3>2
  <2>11. QED
    BY <2>3, <2>10
<1>6. Good(Len(p))
  <2>1. Len(p) \in 0..Len(p)
    BY <1>2
  <2> HIDE DEF Good
  <2>2. QED
    BY <1>5, <2>1
<1>7. QED
  BY <1>1, <1>6

LEMMA RemovedAt ==
  ASSUME NEW S, NEW s \in Seq(S), NEW i \in 1..Len(s)
  PROVE  /\ RemoveAt(s, i) \in Seq(S) /\ Len(RemoveAt(s, i)) = Len(s) - 1
         /\ \A j \in 1..(Len(s) - 1) : RemoveAt(s, i)[j] = IF j < i THEN s[j] ELSE s[j + 1]
<1> DEFINE n == Len(s)
           p == SubSeq(s, 1, i - 1)
           q == SubSeq(s, i + 1, n)
<1>1. n \in Nat /\ i \in Int /\ 1 <= i /\ i <= n /\ i - 1 \in Int /\ i + 1 \in Int /\ n \in Int
  OBVIOUS
<1>2. \A j \in 1..n : s[j] \in S
  OBVIOUS
<1> HIDE DEF n
<1>3. /\ p \in Seq(S) /\ Len(p) = i - 1
      /\ \A j \in 1..(i - 1) : p[j] = s[j]
  <2>1. \A j \in 1..(i - 1) : s[j] \in S
    BY <1>1, <1>2
  <2>2. /\ p \in Seq(S) /\ Len(p) = IF 1 <= i - 1 THEN i - 1 - 1 + 1 ELSE 0
        /\ \A j \in 1..(i - 1 - 1 + 1) : p[j] = s[1 + j - 1]
    BY <1>1, <2>1, SubSeqProperties
  <2> HIDE DEF p
  <2>3. Len(p) = i - 1
    BY <1>1, <2>2
  <2>4. ASSUME NEW j \in 1..(i - 1) PROVE p[j] = s[j]
    <3>1. j \in 1..(i - 1 - 1 + 1) /\ 1 + j - 1 = j
      BY <1>1
    <3>2. QED
      BY <2>2, <3>1
  <2>5. QED
    BY <2>2, <2>3, <2>4
<1>4. /\ q \in Seq(S) /\ Len(q) = n - i
      /\ \A j \in 1..(n - i) : q[j] = s[i + j]
  <2>1. \A j \in (i + 1)..n : s[j] \in S
    BY <1>1, <1>2
  <2>2. /\ q \in Seq(S) /\ Len(q) = IF i + 1 <= n THEN n - (i + 1) + 1 ELSE 0
        /\ \A j \in 1..(n - (i + 1) + 1) : q[j] = s[(i + 1) + j - 1]
    BY <1>1, <2>1, SubSeqProperties
  <2> HIDE DEF q
  <2>3. Len(q) = n - i
    BY <1>1, <2>2
  <2>4. ASSUME NEW j \in 1..(n - i) PROVE q[j] = s[i + j]
    <3>1. j \in 1..(n - (i + 1) + 1) /\ (i + 1) + j - 1 = i + j
      BY <1>1
    <3>2. QED
      BY <2>2, <3>1
  <2>5. QED
    BY <2>2, <2>3, <2>4
<1>5. RemoveAt(s, i) = p \o q
  BY DEF RemoveAt, n
<1> HIDE DEF p, q
<1>6. /\ p \o q \in Seq(S) /\ Len(p \o q) = Len(p) + Len(q)
      /\ \A j \in 1..(Len(p) + Len(q)) :
           (p \o q)[j] = IF j <= Len(p) THEN p[j] ELSE q[j - Len(p)]
  BY <1>3, <1>4, ConcatProperties
<1>7. Len(p) + Len(q) = n - 1
  BY <1>1, <1>3, <1>4
<1>8. ASSUME NEW j \in 1..(n - 1)
      PROVE  (p \o q)[j] = IF j < i THEN s[j] ELSE s[j + 1]
  <2>1. (p \o q)[j] = IF j <= i - 1 THEN p[j] ELSE q[j - (i - 1)]
    BY <1>3, <1>6, <1>7
  <2>2. CASE j < i
    <3>1. j <= i - 1 /\ j \in 1..(i - 1)
      BY <1>1, <2>2
    <3>2. QED
      BY <1>3, <2>1, <2>2, <3>1
  <2>3. CASE ~ (j < i)
    <3>1. ~ (j <= i - 1) /\ j - (i - 1) \in 1..(n - i) /\ i + (j - (i - 1)) = j + 1
      BY <1>1, <2>3
    <3>2. QED
      BY <1>4, <2>1, <2>3, <3>1
  <2>4. QED
    BY <2>2, <2>3
<1>9. QED
  BY <1>5, <1>6, <1>7, <1>8 DEF n

\* Every event but the one removed stays, and no other comes.
LEMMA RemovedElements ==
  ASSUME NEW S, NEW s \in Seq(S), NEW i \in 1..Len(s)
  PROVE  /\ RemoveAt(s, i) \in Seq(S) /\ Len(RemoveAt(s, i)) = Len(s) - 1
         /\ \A j \in 1..Len(RemoveAt(s, i)) : \E k \in 1..Len(s) : RemoveAt(s, i)[j] = s[k]
         /\ \A k \in 1..Len(s) : k # i =>
              \E j \in 1..Len(RemoveAt(s, i)) : RemoveAt(s, i)[j] = s[k]
<1> DEFINE r == RemoveAt(s, i)
           n == Len(s)
<1>1. n \in Nat /\ i \in Int /\ 1 <= i /\ i <= n
  OBVIOUS
<1>2. /\ r \in Seq(S) /\ Len(r) = n - 1
      /\ \A j \in 1..(n - 1) : r[j] = IF j < i THEN s[j] ELSE s[j + 1]
  BY RemovedAt
<1> HIDE DEF r, n
<1>3. ASSUME NEW j \in 1..Len(r) PROVE \E k \in 1..n : r[j] = s[k]
  <2>1. j \in 1..(n - 1) /\ j \in 1..n /\ j + 1 \in 1..n
    BY <1>1, <1>2
  <2>2. r[j] = s[j] \/ r[j] = s[j + 1]
    BY <1>2, <2>1
  <2>3. QED
    BY <2>1, <2>2
<1>4. ASSUME NEW k \in 1..n, k # i PROVE \E j \in 1..Len(r) : r[j] = s[k]
  <2>1. CASE k < i
    <3>1. k \in 1..(n - 1) /\ k \in 1..Len(r)
      BY <1>1, <1>2, <2>1
    <3>2. QED
      BY <1>2, <2>1, <3>1
  <2>2. CASE ~ (k < i)
    <3>1. k - 1 \in 1..(n - 1) /\ k - 1 \in 1..Len(r) /\ ~ (k - 1 < i) /\ (k - 1) + 1 = k
      BY <1>1, <1>2, <1>4, <2>2
    <3>2. QED
      BY <1>2, <3>1
  <2>3. QED
    BY <2>1, <2>2
<1>5. QED
  BY <1>2, <1>3, <1>4 DEF r, n

\* the sequence p with all but perhaps its i-th element, and e behind
Renews(r, p, e, i) ==
  /\ \A j \in 1..Len(r) : r[j] = e \/ \E k \in 1..Len(p) : r[j] = p[k]
  /\ \A k \in 1..Len(p) : k # i => \E j \in 1..Len(r) : r[j] = p[k]

LEMMA AppendRenews ==
  ASSUME NEW S, NEW p \in Seq(S), NEW e \in S, NEW q \in Seq(S), NEW i,
         \A j \in 1..Len(q) : \E k \in 1..Len(p) : q[j] = p[k],
         \A k \in 1..Len(p) : k # i => \E j \in 1..Len(q) : q[j] = p[k]
  PROVE  /\ Append(q, e) \in Seq(S) /\ Len(Append(q, e)) = Len(q) + 1
         /\ Append(q, e)[Len(q) + 1] = e
         /\ Renews(Append(q, e), p, e, i)
<1> DEFINE r == Append(q, e)
<1>1. /\ r \in Seq(S) /\ Len(r) = Len(q) + 1 /\ Len(q) \in Nat /\ r[Len(q) + 1] = e
      /\ \A j \in 1..Len(q) : r[j] = q[j]
  OBVIOUS
<1> HIDE DEF r
<1>2. (\A j \in 1..Len(r) : j \in 1..Len(q) \/ j = Len(q) + 1) /\ 1..Len(q) \subseteq 1..Len(r)
  BY <1>1
<1>3. ASSUME NEW j \in 1..Len(r) PROVE r[j] = e \/ \E k \in 1..Len(p) : r[j] = p[k]
  <2>1. CASE j \in 1..Len(q)
    <3>1. r[j] = q[j] /\ \E k \in 1..Len(p) : q[j] = p[k]
      BY <1>1, <2>1
    <3>2. QED
      BY <3>1
  <2>2. CASE j = Len(q) + 1
    BY <1>1, <2>2
  <2>3. QED
    BY <1>2, <2>1, <2>2
<1>4. ASSUME NEW k \in 1..Len(p), k # i PROVE \E j \in 1..Len(r) : r[j] = p[k]
  <2>1. PICK j \in 1..Len(q) : q[j] = p[k]
    BY <1>4
  <2>2. QED
    BY <1>1, <1>2, <2>1
<1>5. QED
  BY <1>1, <1>3, <1>4 DEF Renews, r

\* An event that is offered is appended, in place of a partial transcript or
\* not, unless the queue is full of other events.
LEMMA OfferedRenews ==
  ASSUME NEW S, NEW p \in Seq(S), NEW e \in S
  PROVE  LET r == Offered(p, e) IN
         /\ r \in Seq(S) /\ Len(r) > 0
         /\ \E i : /\ i \in 1..Len(p) => p[i].kind = "partial"
                   /\ Renews(r, p, e, i)
         /\ Len(p) < QueueCapacity => \E j \in 1..Len(r) : r[j] = e
         /\ Len(p) = 0 => Len(r) = 1 /\ r[1] = e
<1> DEFINE n == Len(p)
           r == Offered(p, e)
<1>1. n \in Nat /\ QueueCapacity \in Nat /\ QueueCapacity > 0 /\ 0 \notin 1..n
  BY QueueAssumption
<1>2. ASSUME NEW i \in 1..n, p[i].kind = "partial", r = Append(RemoveAt(p, i), e)
      PROVE  /\ r \in Seq(S) /\ Len(r) > 0 /\ Renews(r, p, e, i)
             /\ (\E j \in 1..Len(r) : r[j] = e) /\ n # 0
  <2> DEFINE q == RemoveAt(p, i)
  <2>1. /\ q \in Seq(S)
        /\ \A j \in 1..Len(q) : \E k \in 1..Len(p) : q[j] = p[k]
        /\ \A k \in 1..Len(p) : k # i => \E j \in 1..Len(q) : q[j] = p[k]
    BY RemovedElements
  <2>2. r = Append(q, e)
    BY <1>2
  <2> HIDE DEF q, r
  <2>a. /\ Append(q, e) \in Seq(S) /\ Len(Append(q, e)) = Len(q) + 1
        /\ Append(q, e)[Len(q) + 1] = e
        /\ Renews(Append(q, e), p, e, i)
    BY <2>1, AppendRenews, Zenon
  <2>3. r \in Seq(S) /\ Len(r) = Len(q) + 1 /\ r[Len(q) + 1] = e /\ Renews(r, p, e, i)
    BY <2>2, <2>a
  <2>4. Len(q) \in Nat /\ Len(q) + 1 \in 1..Len(r) /\ Len(r) > 0
    BY <2>1, <2>3
  <2>5. n # 0
    BY <1>1
  <2>6. QED
    BY <2>3, <2>4, <2>5
<1>3. CASE Coalesced(p, e) # {}
  <2>a. Coalesced(p, e) \in SUBSET Nat
    BY <1>1 DEF Coalesced
  <2>1. First(Coalesced(p, e)) \in Coalesced(p, e)
    BY <2>a, <1>3, FirstIn
  <2>2. PICK i \in 1..n : p[i].kind = "partial" /\ r = Append(RemoveAt(p, i), e)
    BY <1>3, <2>1 DEF Offered, Coalesced
  <2>3. QED
    BY <1>2, <2>2
<1>4. CASE Coalesced(p, e) = {} /\ n < QueueCapacity
  <2>1. r = Append(p, e)
    BY <1>4 DEF Offered
  <2> HIDE DEF r
  <2>2. r \in Seq(S) /\ Len(r) = n + 1 /\ r[n + 1] = e /\ Renews(r, p, e, 0)
    BY <2>1, AppendRenews
  <2>3. n + 1 \in 1..Len(r) /\ Len(r) > 0 /\ (n = 0 => Len(r) = 1 /\ r[1] = e)
    BY <1>1, <2>2
  <2>4. QED
    BY <1>1, <2>2, <2>3 DEF r
<1>5. CASE Coalesced(p, e) = {} /\ ~ (n < QueueCapacity) /\ Evictable(p) # {}
  <2>a. Evictable(p) \in SUBSET Nat
    BY <1>1 DEF Evictable
  <2>1. First(Evictable(p)) \in Evictable(p)
    BY <2>a, <1>5, FirstIn
  <2>2. PICK i \in 1..n : p[i].kind = "partial" /\ r = Append(RemoveAt(p, i), e)
    BY <1>5, <2>1 DEF Offered, Evictable
  <2>3. QED
    BY <1>2, <2>2
<1>6. CASE Coalesced(p, e) = {} /\ ~ (n < QueueCapacity) /\ Evictable(p) = {}
  <2>1. r = p
    BY <1>6 DEF Offered
  <2> HIDE DEF r
  <2>2. Renews(r, p, e, 0) /\ r \in Seq(S) /\ Len(r) > 0
    BY <1>1, <1>6, <2>1 DEF Renews
  <2>3. QED
    BY <1>1, <1>6, <2>2 DEF r
<1>7. QED
  BY <1>3, <1>4, <1>5, <1>6

(***************************************************************************)
(* appendAsyncEvent                                                        *)
(***************************************************************************)
QueueShape(q, S) ==
  /\ q = [events |-> q.events, head |-> q.head, overflow |-> q.overflow]
  /\ q.events \in Seq(S) /\ q.head \in Nat /\ q.head <= Len(q.events)
  /\ q.overflow \in BOOLEAN

\* every event of r is one of p
From(r, p) == \A j \in 1..Len(r) : \E k \in 1..Len(p) : r[j] = p[k]

LEMMA PendingShape ==
  ASSUME NEW S, NEW q, QueueShape(q, S)
  PROVE  /\ Pending(q) \in Seq(S) /\ Len(Pending(q)) = Len(q.events) - q.head
         /\ \A j \in 1..Len(Pending(q)) :
              q.head + j \in 1..Len(q.events) /\ Pending(q)[j] = q.events[q.head + j]
<1> DEFINE n == Len(q.events)
           h == q.head
           s == q.events
<1>1. s \in Seq(S) /\ n \in Nat /\ h \in Nat /\ h <= n /\ h + 1 \in Int /\ n \in Int
  BY DEF QueueShape
<1>2. \A j \in (h + 1)..n : s[j] \in S
  BY <1>1
<1> DEFINE p == SubSeq(s, h + 1, n)
<1>3. p = Pending(q)
  BY DEF Pending
<1> HIDE DEF n, h, s
<1>4. /\ p \in Seq(S) /\ Len(p) = IF h + 1 <= n THEN n - (h + 1) + 1 ELSE 0
      /\ \A j \in 1..(n - (h + 1) + 1) : p[j] = s[(h + 1) + j - 1]
  BY <1>1, <1>2, SubSeqProperties
<1> HIDE DEF p
<1>5. Len(p) = n - h
  BY <1>1, <1>4
<1>6. ASSUME NEW j \in 1..Len(p) PROVE h + j \in 1..n /\ p[j] = s[h + j]
  <2>1. j \in 1..(n - (h + 1) + 1) /\ (h + 1) + j - 1 = h + j /\ h + j \in 1..n
    BY <1>1, <1>5
  <2>2. QED
    BY <1>4, <2>1
<1>7. QED
  BY <1>3, <1>4, <1>5, <1>6 DEF n, h, s

\* What is pending is what the positions behind the head hold.
LEMMA PendingFrom ==
  ASSUME NEW S, NEW q, QueueShape(q, S), NEW k \in (q.head + 1)..Len(q.events)
  PROVE  k - q.head \in 1..Len(Pending(q)) /\ Pending(q)[k - q.head] = q.events[k]
<1>1. q.events \in Seq(S) /\ Len(q.events) \in Nat /\ q.head \in Nat
  BY DEF QueueShape
<1>2. k - q.head \in 1..(Len(q.events) - q.head) /\ q.head + (k - q.head) = k
  BY <1>1
<1>3. QED
  BY <1>2, PendingShape

LEMMA CompactShape ==
  ASSUME NEW S, NEW q, QueueShape(q, S)
  PROVE  /\ QueueShape(Compact(q), S) /\ Pending(Compact(q)) = Pending(q)
         /\ From(Compact(q).events, q.events)
         /\ Compact(q).overflow = q.overflow
         /\ HasPending(Compact(q)) <=> HasPending(q)
<1>1. CASE Compact(q) = q
  <2>1. From(q.events, q.events)
    BY DEF From
  <2>2. QED
    BY <1>1, <2>1
<1>2. CASE Compact(q) # q
  <2> DEFINE c == [q EXCEPT !.events = Pending(q), !.head = 0]
             p == Pending(q)
  <2>1. Compact(q) = c
    BY <1>2 DEF Compact
  <2>2. /\ p \in Seq(S) /\ Len(p) = Len(q.events) - q.head
        /\ \A j \in 1..Len(p) : q.head + j \in 1..Len(q.events) /\ p[j] = q.events[q.head + j]
    BY PendingShape
  <2> HIDE DEF p
  <2>3. c = [events |-> p, head |-> 0, overflow |-> q.overflow]
    <3> DEFINE ev == q.events
               hd == q.head
               ov == q.overflow
    <3>1. q = [events |-> ev, head |-> hd, overflow |-> ov]
      BY DEF QueueShape
    <3>2. c = [[q EXCEPT !.events = p] EXCEPT !.head = 0]
      BY DEF p
    <3> HIDE DEF ev, hd, ov, c
    <3>3. [q EXCEPT !.events = p] = [events |-> p, head |-> hd, overflow |-> ov]
      BY <3>1
    <3>4. c = [events |-> p, head |-> 0, overflow |-> ov]
      BY <3>2, <3>3
    <3>5. QED
      BY <3>4 DEF ov
  <2> HIDE DEF c
  <2>4. c.events = p /\ c.head = 0 /\ c.overflow = q.overflow
    BY <2>3
  <2>5. QueueShape(c, S)
    <3>1. Len(p) \in Nat /\ 0 <= Len(p) /\ q.overflow \in BOOLEAN
      BY <2>2 DEF QueueShape
    <3>2. c = [events |-> c.events, head |-> c.head, overflow |-> c.overflow]
      BY <2>3, <2>4
    <3>3. QED
      BY <2>2, <2>4, <3>1, <3>2 DEF QueueShape
  <2>6. Pending(c) = p
    <3>1. Pending(c) = SubSeq(p, 1, Len(p))
      BY <2>4 DEF Pending
    <3>2. SubSeq(p, 1, Len(p)) = p
      BY <2>2, SubSeqFull
    <3>3. QED
      BY <3>1, <3>2
  <2>7. From(c.events, q.events)
    BY <2>2, <2>4 DEF From
  <2>8. HasPending(c) <=> HasPending(q)
    <3>1. q.head \in Nat /\ Len(q.events) \in Nat /\ Len(p) \in Nat
      BY <2>2 DEF QueueShape
    <3>2. 0 < Len(p) <=> q.head < Len(q.events)
      BY <2>2, <3>1
    <3>3. QED
      BY <2>4, <3>2 DEF HasPending
  <2>9. QED
    BY <2>1, <2>5, <2>6, <2>7, <2>4, <2>8 DEF p
<1>3. QED
  BY <1>1, <1>2

\* The events that were taken stay in front of the new pending ones.
Replaced(r, q, p) ==
  /\ r.head = q.head /\ Len(r.events) = q.head + Len(p)
  /\ \A j \in 1..q.head : j \in 1..Len(q.events) /\ r.events[j] = q.events[j]
  /\ \A j \in 1..Len(p) : r.events[q.head + j] = p[j]

LEMMA ReplacedShape ==
  ASSUME NEW S, NEW q, QueueShape(q, S), NEW p \in Seq(S), NEW o, o \in {TRUE, FALSE},
         NEW r, r = [WithPending(q, p) EXCEPT !.overflow = o]
  PROVE  QueueShape(r, S) /\ Replaced(r, q, p) /\ r.overflow = o
<1> DEFINE s == q.events
           h == q.head
           a == SubSeq(s, 1, h)
           t == a \o p
<1>1. s \in Seq(S) /\ Len(s) \in Nat /\ h \in Nat /\ h <= Len(s) /\ h \in Int
  BY DEF QueueShape
<1>2. \A j \in 1..h : j \in 1..Len(s) /\ s[j] \in S
  BY <1>1
<1>3. r = [events |-> t, head |-> h, overflow |-> o]
  BY DEF WithPending, QueueShape
<1> HIDE DEF s, h
<1>4. /\ a \in Seq(S) /\ Len(a) = h /\ \A j \in 1..h : a[j] = s[j]
  <2>1. /\ a \in Seq(S) /\ Len(a) = IF 1 <= h THEN h - 1 + 1 ELSE 0
        /\ \A j \in 1..(h - 1 + 1) : a[j] = s[1 + j - 1]
    BY <1>1, <1>2, SubSeqProperties
  <2> HIDE DEF a
  <2>2. Len(a) = h
    BY <1>1, <2>1
  <2>3. ASSUME NEW j \in 1..h PROVE a[j] = s[j]
    <3>1. j \in 1..(h - 1 + 1) /\ 1 + j - 1 = j
      BY <1>1
    <3>2. QED
      BY <2>1, <3>1
  <2>4. QED
    BY <2>1, <2>2, <2>3
<1> HIDE DEF a
<1>5. /\ t \in Seq(S) /\ Len(t) = Len(a) + Len(p)
      /\ \A j \in 1..(Len(a) + Len(p)) : t[j] = IF j <= Len(a) THEN a[j] ELSE p[j - Len(a)]
  BY <1>4, ConcatProperties
<1> HIDE DEF t
<1>6. Len(p) \in Nat
  OBVIOUS
<1>7. ASSUME NEW j \in 1..h PROVE t[j] = s[j]
  <2>1. j \in 1..(Len(a) + Len(p)) /\ j <= Len(a)
    BY <1>1, <1>4, <1>6
  <2>2. QED
    BY <1>4, <1>5, <2>1
<1>8. ASSUME NEW j \in 1..Len(p) PROVE t[h + j] = p[j]
  <2>1. h + j \in 1..(Len(a) + Len(p)) /\ ~ (h + j <= Len(a)) /\ (h + j) - Len(a) = j
    BY <1>1, <1>4, <1>6
  <2>2. QED
    BY <1>5, <2>1
<1>9. r.events = t /\ r.head = h /\ r.overflow = o
  BY <1>3
<1>10. QueueShape(r, S)
  <2>1. h <= Len(t)
    BY <1>1, <1>4, <1>5, <1>6
  <2>2. QED
    BY <1>1, <1>3, <1>5, <1>9, <2>1 DEF QueueShape
<1>11. QED
  BY <1>2, <1>4, <1>5, <1>7, <1>8, <1>9, <1>10 DEF s, h, Replaced

\* r is p without the events that e supersedes
Purged(r, p, e) ==
  /\ From(r, p)
  /\ e.kind = "failed" => \A j \in 1..Len(r) : r[j].u # e.u
  /\ \A k \in 1..Len(p) : e.kind # "failed" \/ p[k].u # e.u =>
       \E j \in 1..Len(r) : r[j] = p[k]

LEMMA PurgeKeeps ==
  ASSUME NEW S, NEW p \in Seq(S), NEW e
  PROVE  Purge(p, e) \in Seq(S) /\ Purged(Purge(p, e), p, e)
<1>1. CASE e.kind = "failed"
  <2> DEFINE r == Without(p, e.u)
  <2>1. /\ r \in Seq(S)
        /\ \A i \in 1..Len(r) : \E k \in 1..Len(p) : r[i] = p[k] /\ p[k].u # e.u
        /\ \A k \in 1..Len(p) : p[k].u # e.u => \E i \in 1..Len(r) : r[i] = p[k]
    BY WithoutKeeps
  <2>2. Purge(p, e) = r
    BY <1>1 DEF Purge
  <2> HIDE DEF r
  <2>3. From(r, p) /\ \A j \in 1..Len(r) : r[j].u # e.u
    BY <2>1 DEF From
  <2>4. QED
    BY <1>1, <2>1, <2>2, <2>3 DEF Purged
<1>2. CASE e.kind # "failed"
  BY <1>2 DEF Purge, From, Purged
<1>3. QED
  BY <1>1, <1>2

\* What appendAsyncEvent does to the events of the queue: none comes but e;
\* none goes but a partial transcript, or what a failure supersedes; and what
\* nobody is told of was waiting before.
Grown(r, q, e, S) ==
  /\ QueueShape(r, S)
  /\ \A j \in 1..Len(r.events) :
       r.events[j] = e \/ \E k \in 1..Len(q.events) : r.events[j] = q.events[k]
  /\ \A j \in (r.head + 1)..Len(r.events) :
       \/ r.events[j] = e
       \/ \E k \in (q.head + 1)..Len(q.events) : r.events[j] = q.events[k]
  /\ HasPending(r) /\ ~Notifies(q, e) => HasPending(q)
  /\ e.kind = "failed" /\ (\A k \in (q.head + 1)..Len(q.events) : q.events[k].u = e.u)
       => r.head + 1 = Len(r.events) /\ r.events[r.head + 1] = e
  /\ \A k \in (q.head + 1)..Len(q.events) :
       /\ q.events[k].kind # "partial"
       /\ e.kind # "failed" \/ q.events[k].u # e.u
       => \E j \in (r.head + 1)..Len(r.events) : r.events[j] = q.events[k]
  /\ r.overflow = IF Refuses(q, e) THEN q.overflow ELSE Overflows(q, e)

LEMMA AppendedShape ==
  ASSUME NEW S, NEW q, QueueShape(q, S), NEW e \in S
  PROVE  Grown(Appended(q, e), q, e, S)
<1> DEFINE c == Compact(q)
           p == Purge(Pending(q), e)
           w == Offered(p, e)
           o == Overflows(q, e)
           r == Appended(q, e)
<1>1. /\ q.events \in Seq(S) /\ Len(q.events) \in Nat /\ q.head \in Nat
      /\ q.head <= Len(q.events)
  BY DEF QueueShape
<1>2. CASE Refuses(q, e)
  <2>1. r = q /\ e.kind # "failed"
    BY <1>2 DEF Appended, Refuses
  <2>2. \A k \in (q.head + 1)..Len(q.events) : k \in 1..Len(q.events)
    BY <1>1
  <2> HIDE DEF r
  <2>3. Grown(q, q, e, S)
    BY <1>2, <2>1, <2>2 DEF Grown
  <2>4. QED
    BY <2>1, <2>3 DEF r
<1>3. CASE ~Refuses(q, e)
  <2>1. /\ QueueShape(c, S) /\ Pending(c) = Pending(q) /\ From(c.events, q.events)
    BY CompactShape
  <2>2. /\ Pending(q) \in Seq(S) /\ Len(Pending(q)) = Len(q.events) - q.head
        /\ \A j \in 1..Len(Pending(q)) :
             q.head + j \in 1..Len(q.events) /\ Pending(q)[j] = q.events[q.head + j]
    BY PendingShape
  <2>3. /\ p \in Seq(S) /\ From(p, Pending(q))
        /\ e.kind = "failed" => \A j \in 1..Len(p) : p[j].u # e.u
        /\ \A k \in 1..Len(Pending(q)) : e.kind # "failed" \/ Pending(q)[k].u # e.u =>
             \E j \in 1..Len(p) : p[j] = Pending(q)[k]
    <3>1. Pending(q) \in Seq(S)
      BY <2>2
    <3>2. QED
      <4>1. Purge(Pending(q), e) \in Seq(S) /\ Purged(Purge(Pending(q), e), Pending(q), e)
        BY <3>1, PurgeKeeps
      <4>2. QED
        BY <4>1 DEF Purged
  <2>4. r = [WithPending(c, w) EXCEPT !.overflow = o] /\ o \in BOOLEAN
    BY <1>3, <2>1 DEF Appended, Overflows
  <2>5. ~Notifies(q, e) => ~o /\ w = Pending(q)
    BY <1>3 DEF Notifies
  <2> HIDE DEF c, p, r, o
  <2>6. /\ w \in Seq(S) /\ Len(w) > 0
        /\ \E i : (i \in 1..Len(p) => p[i].kind = "partial") /\ Renews(w, p, e, i)
        /\ Len(p) = 0 => Len(w) = 1 /\ w[1] = e
    BY <2>3, OfferedRenews
  <2> HIDE DEF w
  <2>7. /\ QueueShape(r, S) /\ r.head = c.head /\ r.overflow = o
        /\ Len(r.events) = c.head + Len(w)
        /\ \A j \in 1..c.head : j \in 1..Len(c.events) /\ r.events[j] = c.events[j]
        /\ \A j \in 1..Len(w) : r.events[c.head + j] = w[j]
    <3>1. /\ QueueShape(c, S) /\ w \in Seq(S) /\ o \in {TRUE, FALSE}
          /\ r = [WithPending(c, w) EXCEPT !.overflow = o]
      BY <2>1, <2>4, <2>6
    <3>2. QueueShape(r, S) /\ Replaced(r, c, w) /\ r.overflow = o
      BY <3>1, ReplacedShape, Zenon
    <3>3. QED
      BY <3>2 DEF Replaced
  <2>8. c.head \in Nat /\ Len(w) \in Nat /\ Len(Pending(q)) \in Nat /\ Len(p) \in Nat
    BY <2>1, <2>2, <2>3, <2>6 DEF QueueShape
  <2>9. ASSUME NEW j \in 1..Len(w)
        PROVE  w[j] = e \/ \E k \in (q.head + 1)..Len(q.events) : w[j] = q.events[k]
    <3>1. w[j] = e \/ \E k \in 1..Len(p) : w[j] = p[k]
      BY <2>6 DEF Renews
    <3>2. ASSUME NEW k \in 1..Len(p), w[j] = p[k]
          PROVE  \E i \in (q.head + 1)..Len(q.events) : w[j] = q.events[i]
      <4>1. PICK i \in 1..Len(Pending(q)) : p[k] = Pending(q)[i]
        BY <2>3 DEF From
      <4>2. q.head + i \in (q.head + 1)..Len(q.events) /\ p[k] = q.events[q.head + i]
        BY <1>1, <2>2, <4>1
      <4>3. QED
        BY <3>2, <4>2
    <3>3. QED
      BY <3>1, <3>2
  <2>10. ASSUME NEW j \in (r.head + 1)..Len(r.events)
         PROVE  j - c.head \in 1..Len(w) /\ r.events[j] = w[j - c.head]
    <3>1. j - c.head \in 1..Len(w) /\ c.head + (j - c.head) = j
      BY <2>7, <2>8
    <3>2. QED
      BY <2>7, <3>1
  <2>11. \A j \in (r.head + 1)..Len(r.events) :
           r.events[j] = e \/ \E k \in (q.head + 1)..Len(q.events) : r.events[j] = q.events[k]
    BY <2>9, <2>10
  <2>12. ASSUME NEW j \in 1..Len(r.events)
         PROVE  r.events[j] = e \/ \E k \in 1..Len(q.events) : r.events[j] = q.events[k]
    <3>1. CASE j \in 1..c.head
      <4>1. r.events[j] = c.events[j] /\ j \in 1..Len(c.events)
        BY <2>7, <3>1
      <4>2. QED
        BY <2>1, <4>1 DEF From
    <3>2. CASE j \notin 1..c.head
      <4>1. j \in (r.head + 1)..Len(r.events)
        BY <2>7, <2>8, <3>2
      <4>2. (q.head + 1)..Len(q.events) \subseteq 1..Len(q.events)
        BY <1>1
      <4>3. QED
        BY <2>11, <4>1, <4>2
    <3>3. QED
      BY <3>1, <3>2
  <2>13. HasPending(r) /\ ~Notifies(q, e) => HasPending(q)
    <3>1. ASSUME w = Pending(q) PROVE q.head < Len(q.events)
      BY <1>1, <2>2, <2>6, <3>1
    <3>2. QED
      BY <2>5, <3>1 DEF HasPending
  <2>14. ASSUME e.kind = "failed",
                \A k \in (q.head + 1)..Len(q.events) : q.events[k].u = e.u
         PROVE  r.head + 1 = Len(r.events) /\ r.events[r.head + 1] = e
    <3>1. ASSUME NEW j \in 1..Len(p) PROVE FALSE
      <4>1. p[j].u # e.u
        BY <2>3, <2>14
      <4>2. PICK i \in 1..Len(Pending(q)) : p[j] = Pending(q)[i]
        BY <2>3 DEF From
      <4>3. q.head + i \in (q.head + 1)..Len(q.events) /\ p[j] = q.events[q.head + i]
        BY <1>1, <2>2, <4>2
      <4>4. QED
        BY <2>14, <4>1, <4>3
    <3>2. Len(p) = 0
      <4>1. Len(p) # 0 => 1 \in 1..Len(p)
        BY <2>8
      <4>2. QED
        BY <3>1, <4>1
    <3>3. Len(w) = 1 /\ w[1] = e /\ 1 \in 1..Len(w)
      BY <2>6, <3>2
    <3>4. QED
      BY <2>7, <3>3
  <2>15. ASSUME NEW k \in (q.head + 1)..Len(q.events), q.events[k].kind # "partial",
                e.kind # "failed" \/ q.events[k].u # e.u
         PROVE  \E j \in (r.head + 1)..Len(r.events) : r.events[j] = q.events[k]
    <3>1. k - q.head \in 1..Len(Pending(q)) /\ Pending(q)[k - q.head] = q.events[k]
      BY PendingFrom
    <3>2. PICK i \in 1..Len(p) : p[i] = q.events[k]
      BY <2>3, <2>15, <3>1
    <3>3. PICK j \in 1..Len(w) : w[j] = p[i]
      BY <2>6, <2>15, <3>2 DEF Renews
    <3>4. /\ r.head = c.head /\ Len(r.events) = c.head + Len(w) /\ 1 <= j /\ j <= Len(w)
          /\ r.events[c.head + j] = w[j]
      BY <2>7, <3>3
    <3>5. c.head + j \in (r.head + 1)..Len(r.events)
      <4>1. j \in Nat /\ c.head \in Nat /\ Len(w) \in Nat
        BY <2>8
      <4>2. QED
        BY <3>4, <4>1
    <3>6. QED
      BY <3>2, <3>3, <3>4, <3>5
  <2>16. r.overflow = IF Refuses(q, e) THEN q.overflow ELSE Overflows(q, e)
    BY <1>3, <2>7 DEF o
  <2>17. Grown(r, q, e, S)
    BY <2>7, <2>11, <2>12, <2>13, <2>14, <2>15, <2>16 DEF Grown
  <2>18. QED
    BY <2>17 DEF r
<1>4. QED
  BY <1>2, <1>3

(***************************************************************************)
(* The messages, events and work of a connection                           *)
(***************************************************************************)
Kinds ==
  {"session.start", "session.end", "malformed", "utterance.start", "audio",
   "utterance.commit", "utterance.cancel", "drain", "beat", "none", "ready",
   "rejected", "error", "aborted", "decision", "final", "target", "translation"}
Work == [kind : Kinds, u : Utterances \cup {None}]
Events ==
  [kind : {"partial", "final", "failed", "completed", "broken"}, u : Utterances,
   segment : Segments \cup {None}, revision : Nat]
ActiveRecords ==
  [u : Utterances \cup {None}, committed : BOOLEAN, final : BOOLEAN,
   failed : BOOLEAN, revision : Nat]

EventWork == {"classify", "authorize", "start", "release"}
DrainWork == {"drain"} \cup EventWork
MessageWork == {"message", "store", "granted"}

StartOf(u) == Message("utterance.start", u)

LEMMA MessageIsWork ==
  ASSUME NEW k \in Kinds, NEW u \in Utterances \cup {None} PROVE Message(k, u) \in Work
BY DEF Message, Work

LEMMA KnownWork ==
  /\ Drain \in Work /\ Beat \in Work /\ Messages \subseteq Work
  /\ \A u : Drain # StartOf(u) /\ Beat # StartOf(u)
  /\ Said("error") \in Work /\ Said("rejected") \in Work /\ Said("ready") \in Work
<1>1. Messages \subseteq Work
  <2>1. ASSUME NEW m \in Messages PROVE m \in Work
    BY DEF Messages, Work, Kinds, Message, Said
  <2>2. QED
    BY <2>1
<1>2. QED
  BY <1>1 DEF Drain, Beat, Work, Kinds, Message, Said, StartOf

(***************************************************************************)
(* The queue of work                                                       *)
(***************************************************************************)
\* no utterance.start comes to the work t
TasksKeep(t, t2) ==
  \/ t2 = t
  \/ \E w \in Work : t2 = Append(t, w) /\ \A u : w # StartOf(u)
  \/ t # <<>> /\ t2 = Tail(t)
  \/ t2 = <<>>

LEMMA ScheduledKeeps == TasksKeep(tasks, Scheduled(tasks))
BY KnownWork DEF Scheduled, TasksKeep

LEMMA RequestKeeps == ASSUME RequestDrain PROVE TasksKeep(tasks, tasks')
BY ScheduledKeeps DEF RequestDrain, TasksKeep

LEMMA AppendKeeps ==
  ASSUME NEW G, NEW e, AppendEvent(G, e) PROVE TasksKeep(tasks, tasks')
BY RequestKeeps DEF AppendEvent, TasksKeep

LEMMA AnswerKeeps == ASSUME NEW out, Answer(out) PROVE TasksKeep(tasks, tasks')
BY ScheduledKeeps DEF Answer, TasksKeep

LEMMA CloseKeeps == ASSUME NEW out, AnswerAndClose(out) PROVE tasks' = tasks
BY DEF AnswerAndClose

LEMMA FailureKeeps == ASSUME NEW G, SecurityFailure(G) PROVE tasks' = tasks
BY CloseKeeps DEF SecurityFailure, Refuse, ProviderLoss

\* Only the client brings an utterance.start.
LEMMA TasksStep ==
  ASSUME [Next]_vars
  PROVE  (\E m \in Messages : ClientSends(m)) \/ TasksKeep(tasks, tasks')
<1> USE DEF TasksKeep
<1>1. CASE ClientStep
  BY <1>1 DEF ClientStep, ClientReads, hostVars
<1>2. CASE MessageStep
  <2>1. CASE SkipMessage \/ (\E m \in Messages : BeginMessage(m))
    BY <2>1 DEF SkipMessage, BeginMessage, Begin, NextTask
  <2>2. CASE \/ SessionStart \/ UtteranceStart \/ Binary \/ UtteranceCommit \/ UtteranceCancel
    BY <2>2, AnswerKeeps, CloseKeeps
    DEF SessionStart, UtteranceStart, Binary, UtteranceCommit, UtteranceCancel, Refuse,
        ProviderLoss
  <2>3. CASE \/ AudioNeedsGrant \/ StoreAnswers \/ AlreadyTerminal \/ NotYetOpen \/ Malformed
             \/ SessionEnd \/ SessionEnded
    BY <2>3, CloseKeeps, FailureKeeps
    DEF AudioNeedsGrant, StoreAnswers, AlreadyTerminal, NotYetOpen, Malformed, SessionEnd,
        SessionEnded, Refuse
  <2>4. QED
    BY <1>2, <2>1, <2>2, <2>3 DEF MessageStep
<1>3. CASE DrainStep
  <2>1. CASE BeginDrain \/ SkipDrain \/ DrainOverflow
    BY <2>1 DEF BeginDrain, SkipDrain, DrainOverflow, Begin, NextTask
  <2>2. CASE EndDrain
    BY <2>2, KnownWork DEF EndDrain
  <2>3. CASE TakePartial \/ TakeFinal \/ DenyFinal \/ TakeFailure \/ TakeResult
    BY <2>3, CloseKeeps
    DEF TakePartial, TakeFinal, DenyFinal, TakeFailure, TakeResult, Continue, ProviderLoss,
        Refuse
  <2>4. CASE ClassifierAnswers \/ ClaimAcquired \/ ClaimRefused \/ ClaimReleased
    BY <2>4 DEF ClassifierAnswers, ClaimAcquired, ClaimRefused, ClaimReleased, Continue
  <2>5. QED
    BY <1>3, <2>1, <2>2, <2>3, <2>4 DEF DrainStep
<1>4. CASE HeartbeatDue \/ BeginHeartbeat \/ HeartbeatAnswered \/ SocketClosed \/ Revoked
  BY <1>4, KnownWork, FailureKeeps
  DEF HeartbeatDue, BeginHeartbeat, HeartbeatAnswered, SocketClosed, Revoked, Begin, NextTask
<1>5. ASSUME NEW u \in Utterances, ProviderStep(u) PROVE TasksKeep(tasks, tasks')
  BY <1>5, AppendKeeps DEF ProviderStep, TranscriptionFailed, TranscriptionEvent
<1>6. ASSUME NEW u \in Utterances, StoreStep(u) PROVE TasksKeep(tasks, tasks')
  <2>1. PICK k \in 1..Len(gens[u].ops) :
          \/ CallStore(u, k) \/ StartPermitted(u, k) \/ StartConsumed(u, k)
          \/ StartFailed(u, k) \/ ReleaseAnswered(u, k) \/ CompleteAnswered(u, k)
          \/ RenewalAnswered(u, k)
    BY <1>6 DEF StoreStep
  <2>2. CASE CallStore(u, k) \/ ReleaseAnswered(u, k)
    BY <2>2 DEF CallStore, ReleaseAnswered, hostVars
  <2>3. CASE StartPermitted(u, k) \/ StartConsumed(u, k) \/ StartFailed(u, k)
    BY <2>3 DEF StartPermitted, StartConsumed, StartFailed, Continue
  <2>4. CASE CompleteAnswered(u, k)
    BY <2>4, AppendKeeps DEF CompleteAnswered, Told
  <2>5. CASE RenewalAnswered(u, k)
    BY <2>5, FailureKeeps DEF RenewalAnswered
  <2>6. QED
    BY <2>1, <2>2, <2>3, <2>4, <2>5
<1>7. ASSUME NEW u \in Utterances, NEW result \in {"success", "failure"},
             GenerationSettles(u, result)
      PROVE  TasksKeep(tasks, tasks')
  BY <1>7 DEF GenerationSettles, hostVars
<1>8. CASE UNCHANGED vars
  BY <1>8 DEF vars, hostVars
<1>9. QED
  BY <1>1, <1>2, <1>3, <1>4, <1>5, <1>6, <1>7, <1>8 DEF Next

(***************************************************************************)
(* What a step does to the utterance and the queue of events               *)
(***************************************************************************)
HoldsSame == token' = token /\ operation' = operation /\ generating' = generating

CoreSame == active' = active /\ queue' = queue /\ HoldsSame

\* the utterance is over
Overs ==
  /\ active' = NoUtterance /\ token' = None /\ operation' = None /\ generating' = FALSE
  /\ \/ queue' = EmptyQueue /\ phase' = "terminal"
     \/ queue' = [EmptyQueue EXCEPT !.overflow = queue.overflow]

Begins ==
  /\ active.u = None /\ active' = [NoUtterance EXCEPT !.u = run.task.u]
  /\ run.task.kind = "utterance.start" /\ run.pc \in MessageWork /\ run' = Idle
  /\ queue' = queue /\ HoldsSame

Commits ==
  active' = [active EXCEPT !.committed = TRUE] /\ queue' = queue /\ HoldsSame

\* the drain takes the event at the head
Takes ==
  /\ run.pc = "drain" /\ queue.head < Len(queue.events)
  /\ queue' = TakenQueue /\ HoldsSame
  /\ \/ /\ active' = active /\ run'.pc = "drain"
        /\ ~ (Taken.kind = "failed" /\ active.u = Taken.u /\ active.failed /\ ~active.final)
     \/ /\ Taken.kind = "partial" /\ run'.pc = "drain"
        /\ active' = [active EXCEPT !.revision = Taken.revision]
     \/ /\ Taken.kind = "final" /\ active.u = Taken.u /\ ~active.final
        /\ active' = [active EXCEPT !.revision = Taken.revision, !.final = TRUE]
        /\ run'.pc = "classify" /\ run'.event = Taken

Compacts == queue' = Compact(queue) /\ active' = active /\ HoldsSame

\* a callback appends e
Appends(e) ==
  /\ e.u = active.u /\ e.u \in Utterances
  /\ queue' = Appended(queue, e)
  /\ IF Notifies(queue, e) THEN RequestDrain ELSE UNCHANGED <<tasks, drainScheduled>>
  /\ socket' = socket /\ run' = run /\ HoldsSame
  /\ \/ /\ e.kind \in {"partial", "final"} /\ active' = active /\ ~active.failed
     \/ /\ e.kind = "failed" /\ ~active.failed /\ ~active.final
        /\ active' = [active EXCEPT !.failed = TRUE]
     \/ /\ e.kind \in {"completed", "broken"} /\ active' = active /\ token = e.u
        /\ e.kind = "completed" => row'[e.u].phase = "completed"

Acquires ==
  /\ run.pc = "authorize" /\ active.u = run.event.u /\ operation' = run.event.u
  /\ active' = active /\ queue' = queue /\ token' = token /\ generating' = generating

Permits ==
  /\ active' = active /\ queue' = queue /\ operation' = operation
  /\ token' = operation /\ generating' = TRUE /\ operation \in Utterances

CoreStep ==
  \/ CoreSame \/ Overs \/ Begins \/ Commits \/ Takes \/ Compacts \/ Acquires \/ Permits
  \/ \E e \in Events : Appends(e)

LEMMA FinishOvers ==
  ASSUME NEW G, NEW cancel, queue.overflow \in BOOLEAN, Finish(G, cancel) PROVE Overs
BY DEF Finish, FinishActive, Overs

LEMMA TerminateOvers ==
  ASSUME NEW G, NEW reason, queue.overflow \in BOOLEAN, Terminate(G, reason) PROVE Overs
BY DEF Terminate, FinishActive, Overs, EmptyQueue

LEMMA FailureOvers ==
  ASSUME NEW G, queue.overflow \in BOOLEAN, SecurityFailure(G) PROVE Overs \/ CoreSame
BY TerminateOvers DEF SecurityFailure, Refuse, ProviderLoss, CoreSame, HoldsSame

\* the parts of the state that the events come from
Sources ==
  /\ row \in [Utterances -> ClaimRecords] /\ emitted \in [Utterances -> Nat]
  /\ queue.overflow \in BOOLEAN

LEMMA MessageCore == ASSUME Sources, MessageStep PROVE CoreStep
<1>0. queue.overflow \in BOOLEAN
  BY DEF Sources
<1> USE DEF CoreStep, CoreSame, HoldsSame
<1>1. CASE SkipMessage \/ (\E m \in Messages : BeginMessage(m)) \/ AudioNeedsGrant
  BY <1>1 DEF SkipMessage, BeginMessage, AudioNeedsGrant, coreVars
<1>2. CASE StoreAnswers
  BY <1>2, <1>0, FailureOvers DEF StoreAnswers, coreVars
<1>3. CASE AlreadyTerminal \/ SessionEnded
  BY <1>3 DEF AlreadyTerminal, SessionEnded, coreVars
<1>4. CASE SessionStart \/ NotYetOpen \/ Malformed \/ SessionEnd
  BY <1>0, <1>4, TerminateOvers DEF SessionStart, NotYetOpen, Malformed, SessionEnd, Refuse
<1>5. CASE UtteranceStart
  BY <1>0, <1>5, TerminateOvers
  DEF UtteranceStart, Refuse, Handling, Answer, Begins, MessageWork, coreVars
<1>6. CASE Binary
  BY <1>0, <1>6, TerminateOvers DEF Binary, Refuse, ProviderLoss, coreVars
<1>7. CASE UtteranceCommit
  BY <1>0, <1>7, TerminateOvers DEF UtteranceCommit, Refuse, ProviderLoss, Commits
<1>8. CASE UtteranceCancel
  <2>1. \/ Finish(gens, TRUE)
        \/ UNCHANGED coreVars
        \/ Terminate(gens, "protocol")
    BY <1>8 DEF UtteranceCancel, Refuse
  <2>2. CASE Finish(gens, TRUE)
    BY <1>0, <2>2, FinishOvers
  <2>3. CASE UNCHANGED coreVars
    BY <2>3 DEF coreVars
  <2>4. CASE Terminate(gens, "protocol")
    BY <1>0, <2>4, TerminateOvers
  <2>5. QED
    BY <2>1, <2>2, <2>3, <2>4
<1>9. QED
  BY <1>1, <1>2, <1>3, <1>4, <1>5, <1>6, <1>7, <1>8 DEF MessageStep

LEMMA DrainCore == ASSUME Sources, DrainStep, RunShape(run) PROVE CoreStep
<1>0. queue.overflow \in BOOLEAN
  BY DEF Sources
<1> USE DEF CoreStep, CoreSame, HoldsSame
<1>1. CASE BeginDrain \/ SkipDrain
  BY <1>1 DEF BeginDrain, SkipDrain, coreVars
<1>2. CASE DrainOverflow
  BY <1>0, <1>2, TerminateOvers DEF DrainOverflow
<1>3. CASE TakePartial
  <2>1. run'.pc = "drain"
    BY <1>3, ContinueShape DEF TakePartial
  <2>2. Taken.kind = "partial"
    BY <1>3 DEF TakePartial, Taking, Taken
  <2>3. QED
    BY <1>3, <2>1, <2>2 DEF TakePartial, Taking, Takes
<1>4. CASE TakeFinal
  <2>1. Taken.kind = "final" /\ run.pc = "drain" /\ queue.head < Len(queue.events)
    BY <1>4 DEF TakeFinal, Taking, Taken
  <2>2. CASE Fresh(Taken)
    <3>1. run'.pc = "classify" /\ run'.event = Taken
      BY <1>4, <2>2 DEF TakeFinal, RunShape
    <3>2. QED
      BY <1>4, <2>1, <2>2, <3>1 DEF TakeFinal, Takes, Fresh
  <2>3. CASE ~Fresh(Taken)
    <3>1. run'.pc = "drain"
      BY <1>4, <2>3, ContinueShape DEF TakeFinal
    <3>2. QED
      BY <1>4, <2>1, <2>3, <3>1 DEF TakeFinal, Takes
  <2>4. QED
    BY <2>2, <2>3
<1>5. CASE DenyFinal
  BY <1>0, <1>5, FinishOvers DEF DenyFinal
<1>6. CASE TakeFailure
  <2>1. CASE ProviderLoss(gens, run.out)
    BY <1>0, <2>1, TerminateOvers DEF ProviderLoss, Refuse
  <2>2. CASE ~ProviderLoss(gens, run.out)
    <3>1. run'.pc = "drain"
      BY <1>6, <2>2, ContinueShape DEF TakeFailure
    <3>2. QED
      BY <1>6, <2>2, <3>1 DEF TakeFailure, Taking, Takes
  <2>3. QED
    BY <2>1, <2>2
<1>7. CASE TakeResult
  <2>1. CASE Finish(gens, FALSE)
    BY <1>0, <2>1, FinishOvers
  <2>2. CASE ~Finish(gens, FALSE)
    <3>1. run'.pc = "drain" /\ Taken.kind # "failed"
      BY <1>7, <2>2, ContinueShape DEF TakeResult, Taking, Taken
    <3>2. QED
      BY <1>7, <2>2, <3>1 DEF TakeResult, Taking, Takes
  <2>3. QED
    BY <2>1, <2>2
<1>8. CASE EndDrain
  BY <1>8 DEF EndDrain, Compacts
<1>9. CASE ClassifierAnswers \/ ClaimRefused \/ ClaimReleased
  BY <1>0, <1>9, FinishOvers DEF ClassifierAnswers, ClaimRefused, ClaimReleased, coreVars
<1>10. CASE ClaimAcquired
  BY <1>10 DEF ClaimAcquired, CurrentEvent, Acquires
<1>11. QED
  BY <1>1, <1>2, <1>3, <1>4, <1>5, <1>6, <1>7, <1>8, <1>9, <1>10 DEF DrainStep

LEMMA ProviderCore ==
  ASSUME Sources, NEW u \in Utterances, ProviderStep(u) PROVE CoreStep
<1> USE DEF CoreStep
<1>1. CASE TranscriptionFailed(u)
  <2> DEFINE e == [kind |-> "failed", u |-> u, segment |-> None, revision |-> 0]
  <2>1. e \in Events /\ e.u = u /\ e.kind = "failed"
    BY DEF Events
  <2>2. /\ active.u = u /\ ~active.failed /\ ~active.final /\ AppendEvent(gens, e)
        /\ active' = [active EXCEPT !.failed = TRUE]
        /\ socket' = socket /\ run' = run /\ HoldsSame
    BY <1>1 DEF TranscriptionFailed, HoldsSame
  <2> HIDE DEF e
  <2>3. Appends(e)
    BY <2>1, <2>2 DEF Appends, AppendEvent
  <2>4. QED
    BY <2>1, <2>3
<1>2. ASSUME NEW kind \in {"partial", "final"}, NEW segment \in Segments,
             TranscriptionEvent(u, kind, segment)
      PROVE  CoreStep
  <2> DEFINE e == [kind |-> kind, u |-> u, segment |-> segment, revision |-> emitted[u] + 1]
  <2>1. e \in Events /\ e.u = u /\ e.kind \in {"partial", "final"}
    <3>1. emitted[u] + 1 \in Nat
      BY DEF Sources
    <3>2. QED
      BY <3>1 DEF Events
  <2>2. /\ active.u = u /\ ~active.failed /\ AppendEvent(gens, e)
        /\ active' = active /\ socket' = socket /\ run' = run /\ HoldsSame
    BY <1>2 DEF TranscriptionEvent, HoldsSame
  <2> HIDE DEF e
  <2>3. Appends(e)
    BY <2>1, <2>2 DEF Appends, AppendEvent
  <2>4. QED
    BY <2>1, <2>3
<1>3. QED
  BY <1>1, <1>2 DEF ProviderStep

\* The result of a generation is told to the utterance that waits for it.
LEMMA ToldCore ==
  ASSUME NEW u \in Utterances, NEW G, NEW kind \in {"completed", "broken"},
         Told(G, u, kind), socket' = socket, run' = run, active' = active, HoldsSame,
         kind = "completed" => row'[u].phase = "completed"
  PROVE  CoreStep
<1> DEFINE e == [kind |-> kind, u |-> u, segment |-> None, revision |-> 0]
<1>1. e \in Events /\ e.u = u /\ e.kind = kind
  BY DEF Events
<1>2. CASE ~Tells(u)
  BY <1>2 DEF Told, CoreStep, CoreSame
<1>3. CASE Tells(u)
  <2>1. AppendEvent(G, e) /\ active.u = u /\ token = u
    BY <1>3 DEF Told, Tells, CurrentToken
  <2> HIDE DEF e
  <2>2. Appends(e)
    BY <1>1, <2>1 DEF Appends, AppendEvent
  <2>3. QED
    BY <1>1, <2>2 DEF CoreStep
<1>4. QED
  BY <1>2, <1>3

LEMMA StoreCore ==
  ASSUME Sources, NEW u \in Utterances, StoreStep(u) PROVE CoreStep
<1>0. queue.overflow \in BOOLEAN /\ row \in [Utterances -> ClaimRecords]
  BY DEF Sources
<1> USE DEF CoreStep, CoreSame, HoldsSame
<1>1. PICK k \in 1..Len(gens[u].ops) :
        \/ CallStore(u, k) \/ StartPermitted(u, k) \/ StartConsumed(u, k)
        \/ StartFailed(u, k) \/ ReleaseAnswered(u, k) \/ CompleteAnswered(u, k)
        \/ RenewalAnswered(u, k)
  BY DEF StoreStep
<1>2. CASE CallStore(u, k) \/ ReleaseAnswered(u, k)
  BY <1>2 DEF CallStore, ReleaseAnswered
<1>3. CASE StartPermitted(u, k)
  <2>1. CASE operation = u
    BY <1>3, <2>1, RelayAssumption DEF StartPermitted, Permits
  <2>2. CASE operation # u
    <3>1. Finish(With(u, Granted(u, k, "started")), FALSE)
      BY <1>3, <2>2 DEF StartPermitted
    <3>2. QED
      BY <1>0, <3>1, FinishOvers
  <2>3. QED
    BY <2>1, <2>2
<1>4. CASE StartConsumed(u, k) \/ StartFailed(u, k)
  BY <1>0, <1>4, FinishOvers DEF StartConsumed, StartFailed
<1>5. CASE CompleteAnswered(u, k)
  <2>1. socket' = socket /\ run' = run /\ active' = active /\ HoldsSame
    BY <1>5 DEF CompleteAnswered
  <2>2. \/ /\ StoreGrants(u, k, "completed")
           /\ Told(With(u, [Granted(u, k, "completed") EXCEPT !.pc = "over"]), u,
                   IF gens[u].pc = "success" THEN "completed" ELSE "broken")
        \/ Told(With(u, [StoreRefuses(u, k) EXCEPT !.pc = "over"]), u, "broken")
    BY <1>5 DEF CompleteAnswered
  <2>3. StoreGrants(u, k, "completed") => row'[u].phase = "completed"
    BY <1>0 DEF StoreGrants, Renewed
  <2>4. (IF gens[u].pc = "success" THEN "completed" ELSE "broken") \in {"completed", "broken"}
    OBVIOUS
  <2>5. QED
    BY <2>1, <2>2, <2>3, <2>4, ToldCore
<1>6. CASE RenewalAnswered(u, k)
  BY <1>0, <1>6, FailureOvers DEF RenewalAnswered
<1>7. QED
  BY <1>1, <1>2, <1>3, <1>4, <1>5, <1>6

\* Every step is one of these for the core.
LEMMA EveryCoreStep ==
  ASSUME Sources, RunShape(run), [Next]_vars PROVE CoreStep
<1>0. queue.overflow \in BOOLEAN
  BY DEF Sources
<1>1. CASE ClientStep
  BY <1>1 DEF ClientStep, ClientReads, ClientSends, coreVars, CoreStep, CoreSame, HoldsSame
<1>2. CASE HeartbeatDue \/ BeginHeartbeat
  BY <1>2 DEF HeartbeatDue, BeginHeartbeat, coreVars, CoreStep, CoreSame, HoldsSame
<1>3. CASE HeartbeatAnswered
  BY <1>0, <1>3, FailureOvers DEF HeartbeatAnswered, coreVars, CoreStep, CoreSame, HoldsSame
<1>4. CASE SocketClosed \/ Revoked
  BY <1>0, <1>4, TerminateOvers
  DEF SocketClosed, Revoked, coreVars, CoreStep, CoreSame, HoldsSame
<1>5. CASE UNCHANGED vars
  BY <1>5 DEF vars, coreVars, CoreStep, CoreSame, HoldsSame
<1>6. ASSUME NEW u \in Utterances, NEW result, GenerationSettles(u, result) PROVE CoreStep
  BY <1>6 DEF GenerationSettles, CoreStep, CoreSame, HoldsSame
<1>7. QED
  BY <1>1, <1>2, <1>3, <1>4, <1>5, <1>6, MessageCore, DrainCore, ProviderCore, StoreCore
  DEF Next

(***************************************************************************)
(* What a step does to the work that is running                            *)
(***************************************************************************)
TakesWork ==
  /\ run.pc = "idle" /\ tasks # <<>> /\ tasks' = Tail(tasks)
  /\ run'.task = Head(tasks) /\ run'.out = <<>>
  /\ \/ run'.pc \in {"store", "message"}
     \/ run'.pc \in {"drain", "beat"}

Asks ==
  /\ run'.task = run.task /\ run'.out = run.out
  /\ \/ run.pc \in MessageWork /\ run'.pc \in MessageWork \cup {"ending"}
     \/ run.pc = "beat" /\ run'.pc = "renewing"

\* what a drain does next; e is the event that it takes
Drains(e) ==
  /\ run'.task = run.task
  /\ \/ run.pc \in DrainWork /\ run'.pc = "drain"
     \/ /\ run.pc = "drain" /\ run'.pc = "classify" /\ run'.event = e
        /\ queue.head < Len(queue.events) /\ active.u = e.u /\ ~active.final
        /\ active' = [active EXCEPT !.revision = e.revision, !.final = TRUE]
     \/ run.pc = "classify" /\ run'.pc = "authorize" /\ run'.event = run.event
     \/ run.pc = "authorize" /\ run'.pc \in {"start", "release"} /\ run'.event = run.event

RunStep == run' = run \/ run' = Idle \/ TakesWork \/ Asks \/ Drains(Taken)

LEMMA WaitFields ==
  ASSUME NEW pc, RunShape(run), Wait(pc)
  PROVE  /\ run'.pc = pc /\ run'.task = run.task /\ run'.event = run.event
         /\ run'.out = run.out
BY DEF RunShape, Wait

LEMMA ContinueFields ==
  ASSUME NEW out, RunShape(run), Continue(out)
  PROVE  run'.pc = "drain" /\ run'.task = run.task /\ run'.out = run.out \o out
BY DEF RunShape, Continue

LEMMA MessageRun == ASSUME RunShape(run), MessageStep PROVE RunStep
<1> USE DEF RunStep
<1>1. CASE SkipMessage
  BY <1>1 DEF SkipMessage
<1>2. CASE \E m \in Messages : BeginMessage(m)
  <2>1. PICK m \in Messages : BeginMessage(m)
    BY <1>2
  <2>2. run'.task = m /\ run'.pc \in {"store", "message"} /\ run'.out = <<>>
    BY <2>1 DEF BeginMessage, Idle
  <2>3. QED
    BY <2>1, <2>2 DEF BeginMessage, Begin, NextTask, TakesWork
<1>3. CASE AudioNeedsGrant
  BY <1>3, WaitFields DEF AudioNeedsGrant, Asks, MessageWork
<1>4. CASE StoreAnswers
  BY <1>4, WaitFields, FailureEnds DEF StoreAnswers, Asks, MessageWork
<1>5. CASE AlreadyTerminal \/ SessionEnded \/ NotYetOpen \/ Malformed
  BY <1>5 DEF AlreadyTerminal, SessionEnded, NotYetOpen, Malformed, Refuse, AnswerAndClose
<1>6. CASE SessionStart \/ UtteranceStart \/ Binary
  BY <1>6 DEF SessionStart, UtteranceStart, Binary, Refuse, ProviderLoss, AnswerAndClose, Answer
<1>7. CASE UtteranceCommit \/ UtteranceCancel
  BY <1>7 DEF UtteranceCommit, UtteranceCancel, Refuse, ProviderLoss, AnswerAndClose, Answer
<1>8. CASE SessionEnd
  BY <1>8, WaitFields DEF SessionEnd, Handling, Asks, MessageWork
<1>9. QED
  BY <1>1, <1>2, <1>3, <1>4, <1>5, <1>6, <1>7, <1>8 DEF MessageStep

LEMMA DrainRun == ASSUME RunShape(run), DrainStep PROVE RunStep
<1> USE DEF RunStep, DrainWork, EventWork
<1>1. CASE BeginDrain
  <2>1. run'.task = Drain /\ run'.pc = "drain" /\ run'.out = <<>>
    BY <1>1 DEF BeginDrain, Idle
  <2>2. QED
    BY <1>1, <2>1 DEF BeginDrain, Begin, NextTask, TakesWork
<1>2. CASE SkipDrain \/ DrainOverflow \/ EndDrain
  BY <1>2 DEF SkipDrain, DrainOverflow, EndDrain
<1>3. CASE TakePartial \/ DenyFinal \/ TakeResult
  <2>1. run.pc = "drain" /\ \E out : Continue(out)
    BY <1>3 DEF TakePartial, DenyFinal, TakeResult, Taking
  <2>2. QED
    BY <2>1, ContinueFields DEF Drains
<1>4. CASE TakeFinal
  <2>1. run.pc = "drain" /\ queue.head < Len(queue.events)
    BY <1>4 DEF TakeFinal, Taking
  <2>2. CASE Fresh(Taken)
    <3>1. /\ run'.pc = "classify" /\ run'.event = Taken /\ run'.task = run.task
          /\ active' = [active EXCEPT !.revision = Taken.revision, !.final = TRUE]
      BY <1>4, <2>2 DEF TakeFinal, RunShape
    <3>2. QED
      BY <2>1, <2>2, <3>1 DEF Drains, Fresh
  <2>3. CASE ~Fresh(Taken)
    BY <1>4, <2>1, <2>3, ContinueFields DEF TakeFinal, Drains
  <2>4. QED
    BY <2>2, <2>3
<1>5. CASE TakeFailure
  <2>1. CASE ProviderLoss(gens, run.out)
    BY <2>1, LossEnds
  <2>2. CASE ~ProviderLoss(gens, run.out)
    BY <1>5, <2>2, ContinueFields DEF TakeFailure, Taking, Drains
  <2>3. QED
    BY <2>1, <2>2
<1>6. CASE ClassifierAnswers
  BY <1>6, ContinueFields, WaitFields DEF ClassifierAnswers, Drains
<1>7. CASE ClaimAcquired
  BY <1>7, WaitFields DEF ClaimAcquired, Drains
<1>8. CASE ClaimRefused \/ ClaimReleased
  <2>1. run.pc \in {"authorize", "release"} /\ \E out : Continue(out)
    BY <1>8 DEF ClaimRefused, ClaimReleased
  <2>2. QED
    BY <2>1, ContinueFields DEF Drains
<1>9. QED
  BY <1>1, <1>2, <1>3, <1>4, <1>5, <1>6, <1>7, <1>8 DEF DrainStep

LEMMA StoreRun ==
  ASSUME RunShape(run), NEW u \in Utterances, StoreStep(u) PROVE RunStep
<1> USE DEF RunStep
<1>1. PICK k \in 1..Len(gens[u].ops) :
        \/ CallStore(u, k) \/ StartPermitted(u, k) \/ StartConsumed(u, k)
        \/ StartFailed(u, k) \/ ReleaseAnswered(u, k) \/ CompleteAnswered(u, k)
        \/ RenewalAnswered(u, k)
  BY DEF StoreStep
<1>2. CASE CallStore(u, k) \/ ReleaseAnswered(u, k) \/ CompleteAnswered(u, k)
  BY <1>2 DEF CallStore, ReleaseAnswered, CompleteAnswered, hostVars
<1>3. CASE StartPermitted(u, k) \/ StartConsumed(u, k) \/ StartFailed(u, k)
  <2>1. run.pc = "start" /\ \E out : Continue(out)
    BY <1>3 DEF StartPermitted, StartConsumed, StartFailed
  <2>2. QED
    BY <2>1, ContinueFields DEF Drains, DrainWork, EventWork
<1>4. CASE RenewalAnswered(u, k)
  BY <1>4, FailureEnds DEF RenewalAnswered
<1>5. QED
  BY <1>1, <1>2, <1>3, <1>4

LEMMA EveryRunStep == ASSUME RunShape(run), [Next]_vars PROVE RunStep
<1> USE DEF RunStep
<1>1. CASE ClientStep
  BY <1>1 DEF ClientStep, ClientReads, ClientSends, hostVars
<1>2. CASE HeartbeatDue \/ SocketClosed \/ Revoked
  BY <1>2 DEF HeartbeatDue, SocketClosed, Revoked
<1>3. CASE BeginHeartbeat
  <2>1. run'.task = Beat /\ run'.pc = "beat" /\ run'.out = <<>>
    BY <1>3 DEF BeginHeartbeat, Idle
  <2>2. QED
    BY <1>3, <2>1 DEF BeginHeartbeat, Begin, NextTask, TakesWork
<1>4. CASE HeartbeatAnswered
  BY <1>4, WaitFields, FailureEnds DEF HeartbeatAnswered, Asks
<1>5. CASE UNCHANGED vars
  BY <1>5 DEF vars, hostVars
<1>6. ASSUME NEW u \in Utterances,
             \/ ProviderStep(u)
             \/ \E result \in {"success", "failure"} : GenerationSettles(u, result)
      PROVE  RunStep
  BY <1>6 DEF ProviderStep, TranscriptionFailed, TranscriptionEvent, GenerationSettles, hostVars
<1>7. QED
  BY <1>1, <1>2, <1>3, <1>4, <1>5, <1>6, MessageRun, DrainRun, StoreRun DEF Next

(***************************************************************************)
(* The shape of the session                                                *)
(***************************************************************************)
At(u, pcs) == run.pc \in pcs /\ run.event.u = u

\* the utterance whose final transcript is on its way has no other to come
NoSecondFinal ==
  \A u \in Utterances : At(u, EventWork) => ~ (active.u = u /\ ~active.final)

Holding ==
  /\ operation # None => operation = active.u /\ active.final
  /\ token # None => token = operation
  /\ generating <=> token # None

Shape ==
  /\ tasks \in Seq(Work) /\ run.task \in Work
  /\ active \in ActiveRecords /\ QueueShape(queue, Events)
  /\ emitted \in [Utterances -> Nat]
  /\ run.pc \in EventWork => run.event \in Events
  /\ NoSecondFinal
  /\ Holding

LEMMA ShapeSources == ASSUME IInv, Shape PROVE Sources /\ RunShape(run)
BY DEF IInv, Sound, Shapes, Shape, QueueShape, Sources

LEMMA TakenIsEvent ==
  ASSUME Shape, queue.head < Len(queue.events)
  PROVE  Taken \in Events /\ queue.head + 1 \in 1..Len(queue.events)
<1>1. queue.events \in Seq(Events) /\ queue.head \in Nat /\ Len(queue.events) \in Nat
  BY DEF Shape, QueueShape
<1>2. queue.head + 1 \in 1..Len(queue.events)
  BY <1>1
<1>3. QED
  BY <1>1, <1>2 DEF Taken

\* the fields of active that a step sets
LEMMA CommitFields ==
  ASSUME active \in ActiveRecords, NEW a, a = [active EXCEPT !.committed = TRUE]
  PROVE  /\ a \in ActiveRecords /\ a.u = active.u /\ (a.final <=> active.final)
         /\ (a.failed <=> active.failed) /\ a.revision = active.revision
BY DEF ActiveRecords

LEMMA FailedFields ==
  ASSUME active \in ActiveRecords, NEW a, a = [active EXCEPT !.failed = TRUE]
  PROVE  a \in ActiveRecords /\ a.u = active.u /\ (a.final <=> active.final) /\ a.failed
BY DEF ActiveRecords

LEMMA RevisionFields ==
  ASSUME active \in ActiveRecords, NEW r \in Nat, NEW a, a = [active EXCEPT !.revision = r]
  PROVE  /\ a \in ActiveRecords /\ a.u = active.u /\ (a.final <=> active.final)
         /\ (a.failed <=> active.failed)
BY DEF ActiveRecords

LEMMA FinalFields ==
  ASSUME active \in ActiveRecords, NEW r \in Nat,
         NEW a, a = [active EXCEPT !.revision = r, !.final = TRUE]
  PROVE  a \in ActiveRecords /\ a.u = active.u /\ a.final /\ (a.failed <=> active.failed)
BY DEF ActiveRecords

LEMMA BegunFields ==
  ASSUME NEW u, u \in Utterances \cup {None}, NEW a, a = [NoUtterance EXCEPT !.u = u]
  PROVE  a \in ActiveRecords /\ a.u = u /\ ~a.final /\ ~a.failed
BY DEF ActiveRecords, NoUtterance

LEMMA OverFields ==
  /\ NoUtterance \in ActiveRecords /\ NoUtterance.u = None /\ ~NoUtterance.failed
  /\ ~NoUtterance.final
BY DEF ActiveRecords, NoUtterance

\* What a step does to the current utterance.
LEMMA ActiveChanges ==
  ASSUME Shape, CoreStep
  PROVE  /\ active' \in ActiveRecords
         /\ \/ /\ active'.u = active.u /\ (active.final => active'.final)
               /\ active.failed => active'.failed
            \/ active' = NoUtterance
            \/ Begins /\ active'.u = run.task.u /\ ~active'.final /\ ~active'.failed
<1> USE DEF Shape
<1>1. CASE CoreSame \/ Compacts \/ Acquires \/ Permits
  BY <1>1 DEF CoreSame, Compacts, Acquires, Permits
<1>2. CASE Overs
  BY <1>2, OverFields DEF Overs
<1>3. CASE Begins
  <2>1. run.task.u \in Utterances \cup {None}
    BY DEF Work
  <2>2. QED
    BY <1>3, <2>1, BegunFields DEF Begins
<1>4. CASE Commits
  BY <1>4, CommitFields DEF Commits
<1>5. CASE Takes
  <2>1. Taken.revision \in Nat
    BY <1>5, TakenIsEvent DEF Takes, Events
  <2>2. QED
    BY <1>5, <2>1, RevisionFields, FinalFields DEF Takes
<1>6. CASE \E e \in Events : Appends(e)
  BY <1>6, FailedFields DEF Appends
<1>7. QED
  BY <1>1, <1>2, <1>3, <1>4, <1>5, <1>6 DEF CoreStep

LEMMA EmptyShape ==
  /\ QueueShape(EmptyQueue, Events)
  /\ \A o \in {TRUE, FALSE} :
       /\ QueueShape([EmptyQueue EXCEPT !.overflow = o], Events)
       /\ [EmptyQueue EXCEPT !.overflow = o].events = <<>>
       /\ [EmptyQueue EXCEPT !.overflow = o].head = 0
       /\ [EmptyQueue EXCEPT !.overflow = o].overflow = o
  /\ EmptyQueue.events = <<>> /\ EmptyQueue.head = 0 /\ EmptyQueue.overflow = FALSE
<1>1. ASSUME NEW o \in {TRUE, FALSE}, NEW q,
             q = [events |-> <<>>, head |-> 0, overflow |-> o]
      PROVE  QueueShape(q, Events) /\ q.events = <<>> /\ q.head = 0 /\ q.overflow = o
  <2>1. q.events = <<>> /\ q.head = 0 /\ q.overflow = o
    BY <1>1
  <2>2. q = [events |-> q.events, head |-> q.head, overflow |-> q.overflow]
    BY <1>1, <2>1
  <2>3. <<>> \in Seq(Events) /\ Len(<<>>) = 0
    OBVIOUS
  <2>4. q.overflow \in BOOLEAN
    BY <2>1, Zenon
  <2>5. q.events \in Seq(Events) /\ q.head \in Nat /\ q.head <= Len(q.events)
    BY <2>1, <2>3
  <2>6. QED
    BY <2>1, <2>2, <2>4, <2>5 DEF QueueShape
<1>2. ASSUME NEW o \in {TRUE, FALSE}
      PROVE  [EmptyQueue EXCEPT !.overflow = o] = [events |-> <<>>, head |-> 0, overflow |-> o]
  BY DEF EmptyQueue
<1>3. EmptyQueue = [events |-> <<>>, head |-> 0, overflow |-> FALSE]
  BY DEF EmptyQueue
<1>4. QED
  BY <1>1, <1>2, <1>3, Zenon

LEMMA TakenShape ==
  ASSUME QueueShape(queue, Events), queue.head < Len(queue.events)
  PROVE  /\ QueueShape(TakenQueue, Events) /\ TakenQueue.events = queue.events
         /\ TakenQueue.head = queue.head + 1 /\ TakenQueue.overflow = queue.overflow
<1> DEFINE ev == queue.events
           hd == queue.head
           ov == queue.overflow
           q == TakenQueue
<1>1. /\ queue = [events |-> ev, head |-> hd, overflow |-> ov] /\ hd < Len(ev)
      /\ ev \in Seq(Events) /\ hd \in Nat /\ ov \in BOOLEAN /\ Len(ev) \in Nat
  BY DEF QueueShape
<1>2. q = [queue EXCEPT !.head = hd + 1]
  BY DEF TakenQueue
<1> HIDE DEF ev, hd, ov, q
<1>3. q = [events |-> ev, head |-> hd + 1, overflow |-> ov]
  BY <1>1, <1>2
<1>4. q.events = ev /\ q.head = hd + 1 /\ q.overflow = ov
  BY <1>3
<1>5. hd + 1 \in Nat /\ hd + 1 <= Len(ev)
  BY <1>1
<1>6. QueueShape(q, Events)
  BY <1>1, <1>3, <1>4, <1>5 DEF QueueShape
<1>7. QED
  BY <1>4, <1>6 DEF q, ev, hd, ov

LEMMA QueueStays ==
  ASSUME Shape, CoreStep PROVE QueueShape(queue', Events)
<1>1. QueueShape(queue, Events)
  BY DEF Shape
<1>2. CASE CoreSame \/ Begins \/ Commits \/ Acquires \/ Permits
  BY <1>1, <1>2 DEF CoreSame, Begins, Commits, Acquires, Permits
<1>3. CASE Overs
  <2>1. queue.overflow \in {TRUE, FALSE}
    BY <1>1 DEF QueueShape
  <2>2. QED
    BY <1>3, <2>1, EmptyShape DEF Overs
<1>4. CASE Takes
  BY <1>1, <1>4, TakenShape DEF Takes
<1>5. CASE Compacts
  BY <1>1, <1>5, CompactShape DEF Compacts
<1>6. ASSUME NEW e \in Events, Appends(e) PROVE QueueShape(queue', Events)
  <2>1. queue' = Appended(queue, e)
    BY <1>6 DEF Appends
  <2>2. Grown(Appended(queue, e), queue, e, Events)
    BY <1>1, AppendedShape
  <2>3. QED
    BY <2>1, <2>2 DEF Grown
<1>7. QED
  BY <1>2, <1>3, <1>4, <1>5, <1>6 DEF CoreStep

LEMMA TasksStay ==
  ASSUME tasks \in Seq(Work), [Next]_vars PROVE tasks' \in Seq(Work)
<1>1. CASE \E m \in Messages : ClientSends(m)
  <2>1. PICK m \in Messages : tasks' = Append(tasks, m)
    BY <1>1 DEF ClientSends
  <2>2. m \in Work
    BY <2>1, KnownWork
  <2>3. QED
    BY <2>1, <2>2
<1>2. CASE TasksKeep(tasks, tasks')
  <2>1. CASE \E w \in Work : tasks' = Append(tasks, w)
    BY <2>1
  <2>2. CASE tasks # <<>> /\ tasks' = Tail(tasks)
    BY <2>2
  <2>3. CASE tasks' = <<>>
    BY <2>3
  <2>4. QED
    BY <1>2, <2>1, <2>2, <2>3 DEF TasksKeep
<1>3. QED
  BY <1>1, <1>2, TasksStep

LEMMA TaskStays ==
  ASSUME tasks \in Seq(Work), run.task \in Work, RunStep PROVE run'.task \in Work
<1>1. Idle.task \in Work
  BY DEF Idle, Work, Kinds
<1>2. tasks # <<>> => Head(tasks) \in Work
  OBVIOUS
<1>3. QED
  BY <1>1, <1>2 DEF RunStep, TakesWork, Asks, Drains

LEMMA EmittedStays ==
  ASSUME emitted \in [Utterances -> Nat], [Next]_vars PROVE emitted' \in [Utterances -> Nat]
<1>1. ASSUME NEW u \in Utterances, ProviderStep(u) PROVE emitted' \in [Utterances -> Nat]
  <2>1. CASE TranscriptionFailed(u)
    BY <2>1 DEF TranscriptionFailed
  <2>2. ASSUME NEW kind, NEW segment, TranscriptionEvent(u, kind, segment)
        PROVE  emitted' \in [Utterances -> Nat]
    <3>1. emitted' = [emitted EXCEPT ![u] = emitted[u] + 1]
      BY <2>2 DEF TranscriptionEvent
    <3>2. emitted[u] + 1 \in Nat
      OBVIOUS
    <3>3. QED
      BY <3>1, <3>2
  <2>3. QED
    BY <1>1, <2>1, <2>2 DEF ProviderStep
<1>2. ASSUME NEW u \in Utterances, StoreStep(u) PROVE emitted' = emitted
  BY <1>2 DEF StoreStep, CallStore, StartPermitted, StartConsumed, StartFailed,
     ReleaseAnswered, CompleteAnswered, RenewalAnswered
<1>3. CASE ClientStep
  BY <1>3 DEF ClientStep, ClientReads, ClientSends
<1>4. CASE MessageStep
  <2>1. emitted' = emitted
    BY <1>4 DEF MessageStep, SkipMessage, AudioNeedsGrant, StoreAnswers, AlreadyTerminal,
       SessionStart, NotYetOpen, Malformed, UtteranceStart, Binary, UtteranceCommit,
       UtteranceCancel, SessionEnd, SessionEnded, BeginMessage, Handling
  <2>2. QED
    BY <2>1
<1>5. CASE DrainStep
  BY <1>5 DEF DrainStep, BeginDrain, SkipDrain, DrainOverflow, TakePartial, TakeFinal, Taking,
     DenyFinal, TakeFailure, TakeResult, EndDrain, ClassifierAnswers, ClaimAcquired,
     ClaimRefused, ClaimReleased
<1>6. CASE HeartbeatDue \/ BeginHeartbeat \/ HeartbeatAnswered \/ SocketClosed \/ Revoked
  BY <1>6 DEF HeartbeatDue, BeginHeartbeat, HeartbeatAnswered, SocketClosed, Revoked
<1>7. ASSUME NEW u \in Utterances, NEW result, GenerationSettles(u, result)
      PROVE  emitted' = emitted
  BY <1>7 DEF GenerationSettles
<1>8. CASE UNCHANGED vars
  BY <1>8 DEF vars
<1>9. QED
  BY <1>1, <1>2, <1>3, <1>4, <1>5, <1>6, <1>7, <1>8 DEF Next

LEMMA EventStays ==
  ASSUME Shape, RunStep, run'.pc \in EventWork PROVE run'.event \in Events
<1>1. CASE run' = run
  BY <1>1 DEF Shape
<1>2. CASE run' = Idle \/ TakesWork \/ Asks
  BY <1>2 DEF Idle, TakesWork, Asks, EventWork, MessageWork
<1>3. CASE Drains(Taken)
  <2>1. CASE run.pc \in {"classify", "authorize"} /\ run'.event = run.event
    BY <2>1 DEF Shape, EventWork
  <2>2. CASE queue.head < Len(queue.events) /\ run'.event = Taken
    BY <2>2, TakenIsEvent
  <2>3. QED
    BY <1>3, <2>1, <2>2 DEF Drains, EventWork
<1>4. QED
  BY <1>1, <1>2, <1>3 DEF RunStep

LEMMA NoSecondFinalStays ==
  ASSUME Shape, RunStep, CoreStep PROVE NoSecondFinal'
<1>1. SUFFICES ASSUME NEW u \in Utterances, run'.pc \in EventWork, run'.event.u = u,
                      active'.u = u, ~active'.final
               PROVE  FALSE
  BY DEF NoSecondFinal, At
<1>2. u # None /\ NoUtterance.u = None
  BY RelayAssumption DEF NoUtterance
<1>3. run' # Idle /\ ~TakesWork /\ ~Asks
  BY <1>1 DEF Idle, TakesWork, Asks, EventWork, MessageWork
<1>4. active'.u = active.u /\ (active.final => active'.final)
  BY <1>1, <1>2, <1>3, ActiveChanges DEF Begins
<1>5. CASE run'.event = run.event /\ run.pc \in EventWork
  BY <1>1, <1>4, <1>5 DEF Shape, NoSecondFinal, At
<1>6. CASE Drains(Taken) /\ run.pc = "drain" /\ run'.pc = "classify"
  <2>1. /\ active' = [active EXCEPT !.revision = Taken.revision, !.final = TRUE]
        /\ queue.head < Len(queue.events)
    BY <1>6 DEF Drains
  <2>2. Taken.revision \in Nat
    BY <2>1, TakenIsEvent DEF Events
  <2>3. QED
    BY <1>1, <2>1, <2>2, FinalFields DEF Shape
<1>7. QED
  BY <1>1, <1>3, <1>5, <1>6 DEF RunStep, Drains, EventWork

LEMMA HoldingStays == ASSUME Shape, CoreStep PROVE Holding'
<1> USE DEF Shape, Holding
<1>1. CASE CoreSame \/ Compacts
  BY <1>1 DEF CoreSame, Compacts, HoldsSame
<1>2. CASE Overs
  BY <1>2 DEF Overs
<1>3. CASE Begins
  BY <1>3 DEF Begins, HoldsSame
<1>4. CASE Commits
  BY <1>4, CommitFields DEF Commits, HoldsSame
<1>5. CASE Takes
  <2>1. Taken.revision \in Nat
    BY <1>5, TakenIsEvent DEF Takes, Events
  <2>2. active'.u = active.u /\ (active.final => active'.final) /\ HoldsSame
    BY <1>5, <2>1, RevisionFields, FinalFields DEF Takes
  <2>3. QED
    BY <2>2 DEF HoldsSame
<1>6. CASE Acquires
  <2>1. run.event \in Events /\ run.event.u \in Utterances
    BY <1>6 DEF Acquires, EventWork, Events
  <2>2. active.final
    BY <1>6, <2>1 DEF Acquires, NoSecondFinal, At, EventWork
  <2>3. QED
    BY <1>6, <2>2 DEF Acquires
<1>7. CASE Permits
  BY <1>7, RelayAssumption DEF Permits
<1>8. ASSUME NEW e \in Events, Appends(e) PROVE Holding'
  BY <1>8, FailedFields DEF Appends, HoldsSame
<1>9. QED
  BY <1>1, <1>2, <1>3, <1>4, <1>5, <1>6, <1>7, <1>8 DEF CoreStep

LEMMA ShapeStep == ASSUME IInv, Shape, [Next]_vars PROVE Shape'
<1>1. Sources /\ RunShape(run)
  BY ShapeSources
<1>2. CoreStep /\ RunStep
  BY <1>1, EveryCoreStep, EveryRunStep
<1>3. tasks' \in Seq(Work) /\ run'.task \in Work
  BY <1>2, TasksStay, TaskStays DEF Shape
<1>4. active' \in ActiveRecords /\ QueueShape(queue', Events)
  BY <1>2, ActiveChanges, QueueStays
<1>5. emitted' \in [Utterances -> Nat]
  BY EmittedStays DEF Shape
<1>6. QED
  BY <1>2, <1>3, <1>4, <1>5, EventStays, NoSecondFinalStays, HoldingStays DEF Shape

LEMMA InitShape == ASSUME Init PROVE Shape
<1>1. tasks = <<>> /\ run = Idle /\ Idle.task \in Work /\ Idle.pc = "idle"
  BY DEF Init, Idle, Work, Kinds
<1>2. active \in ActiveRecords
  BY OverFields DEF Init
<1>3. QueueShape(queue, Events)
  BY EmptyShape DEF Init
<1>4. QED
  BY <1>1, <1>2, <1>3 DEF Init, Shape, NoSecondFinal, Holding, At, EventWork

(***************************************************************************)
(* What waits is heard of                                                  *)
(***************************************************************************)
Waiters == (queue.head + 1)..Len(queue.events)

\* what waits is about the current utterance, and after a failure of its
\* provider that failure alone waits
LastWord ==
  /\ \A k \in Waiters : queue.events[k].u = active.u
  /\ active.failed => /\ ~active.final
                      /\ queue.head + 1 = Len(queue.events)
                      /\ queue.events[queue.head + 1].kind = "failed"

LEMMA QueueNumbers ==
  ASSUME Shape
  PROVE  /\ queue.head \in Nat /\ Len(queue.events) \in Nat /\ queue.head <= Len(queue.events)
         /\ \A k \in Waiters : k \in 1..Len(queue.events) /\ queue.events[k] \in Events
BY DEF Shape, QueueShape, Waiters

LEMMA TakesWord == ASSUME Shape, LastWord, Takes PROVE LastWord'
<1> USE DEF LastWord, Waiters
<1>1. /\ queue'.events = queue.events /\ queue'.head = queue.head + 1
      /\ queue.head \in Nat /\ Len(queue.events) \in Nat
      /\ Taken \in Events /\ queue.head + 1 \in Waiters
  BY TakenShape, QueueNumbers, TakenIsEvent DEF Takes, Shape
<1>2. \A k \in Waiters' : k \in Waiters
  BY <1>1
<1>3. Taken.revision \in Nat /\ Taken.u = active.u
  BY <1>1 DEF Events, Taken
<1>4. ~active.failed
  <2>1. SUFFICES ASSUME active.failed PROVE FALSE
    OBVIOUS
  <2>2. Taken.kind = "failed" /\ ~active.final
    BY <2>1 DEF Taken
  <2>3. QED
    BY <1>3, <2>1, <2>2 DEF Takes
<1>5. active'.u = active.u /\ ~active'.failed
  BY <1>3, <1>4, RevisionFields, FinalFields DEF Takes, Shape
<1>6. QED
  BY <1>1, <1>2, <1>5

LEMMA CompactsWord == ASSUME Shape, LastWord, Compacts PROVE LastWord'
<1> DEFINE c == Compact(queue)
           p == Pending(queue)
<1>1. QueueShape(queue, Events) /\ QueueShape(c, Events) /\ Pending(c) = p
  BY CompactShape DEF Shape
<1>2. Len(p) = Len(queue.events) - queue.head /\ Len(p) = Len(c.events) - c.head
  BY <1>1, PendingShape
<1>3. /\ queue.head \in Nat /\ Len(queue.events) \in Nat /\ c.head \in Nat
      /\ Len(c.events) \in Nat
  BY <1>1 DEF QueueShape
<1>4. ASSUME NEW k \in (c.head + 1)..Len(c.events)
      PROVE  /\ k - c.head \in 1..Len(p) /\ queue.head + (k - c.head) \in Waiters
             /\ c.events[k] = queue.events[queue.head + (k - c.head)]
  <2>1. k - c.head \in 1..Len(p) /\ p[k - c.head] = c.events[k]
    BY <1>1, PendingFrom
  <2>2. p[k - c.head] = queue.events[queue.head + (k - c.head)]
    BY <1>1, <2>1, PendingShape
  <2>3. queue.head + (k - c.head) \in Waiters
    <3>1. Len(p) = Len(queue.events) - queue.head /\ k \in Nat
      BY <1>2, <1>3
    <3>2. k - c.head \in Int /\ 1 <= k - c.head /\ k - c.head <= Len(queue.events) - queue.head
      BY <1>3, <2>1, <3>1
    <3>3. \A i \in Int, h, n \in Nat : 1 <= i /\ i <= n - h => h + i \in (h + 1)..n
      OBVIOUS
    <3> HIDE DEF c, p
    <3>4. queue.head + (k - c.head) \in (queue.head + 1)..Len(queue.events)
      BY <1>3, <3>2, <3>3
    <3>5. QED
      BY <3>4 DEF Waiters
  <2>4. QED
    BY <2>1, <2>2, <2>3
<1>5. active' = active /\ queue' = c
  BY DEF Compacts
<1> HIDE DEF c, p
<1>6. \A k \in Waiters' : queue'.events[k].u = active.u
  BY <1>4, <1>5 DEF LastWord, Waiters
<1>7. ASSUME queue.head + 1 = Len(queue.events)
      PROVE  /\ c.head + 1 = Len(c.events)
             /\ c.events[c.head + 1] = queue.events[queue.head + 1]
  <2>1. c.head + 1 = Len(c.events) /\ c.head + 1 \in (c.head + 1)..Len(c.events)
    BY <1>2, <1>3, <1>7
  <2>2. (c.head + 1) - c.head = 1
    BY <1>3
  <2>3. QED
    BY <1>4, <2>1, <2>2
<1>8. QED
  BY <1>5, <1>6, <1>7 DEF LastWord

LEMMA AppendsWord ==
  ASSUME Shape, LastWord, NEW e \in Events, Appends(e) PROVE LastWord'
<1> DEFINE r == Appended(queue, e)
<1>1. QueueShape(queue, Events) /\ queue' = r
  BY DEF Shape, Appends
<1>2. /\ \A j \in (r.head + 1)..Len(r.events) :
           r.events[j] = e \/ \E k \in Waiters : r.events[j] = queue.events[k]
      /\ e.kind = "failed" /\ (\A k \in Waiters : queue.events[k].u = e.u)
           => r.head + 1 = Len(r.events) /\ r.events[r.head + 1] = e
  <2>1. Grown(r, queue, e, Events)
    BY <1>1, AppendedShape
  <2>2. QED
    BY <2>1 DEF Grown, Waiters
<1> HIDE DEF r
<1>3. active'.u = active.u /\ e.u = active.u
  BY FailedFields DEF Appends, Shape
<1>4. \A k \in Waiters' : queue'.events[k].u = active'.u
  BY <1>1, <1>2, <1>3 DEF Waiters, LastWord
<1>5. CASE e.kind = "failed"
  <2>1. ~active'.final
    BY <1>5, FailedFields DEF Appends, Shape
  <2>2. QED
    BY <1>1, <1>2, <1>3, <1>4, <1>5, <2>1 DEF LastWord
<1>6. CASE e.kind \in {"partial", "final"}
  BY <1>4, <1>6 DEF Appends, LastWord
<1>7. CASE e.kind \in {"completed", "broken"}
  <2>1. e.u # None /\ token = e.u /\ active' = active
    BY <1>7, RelayAssumption DEF Appends
  <2>2. active.final
    BY <2>1 DEF Shape, Holding
  <2>3. QED
    BY <1>4, <2>1, <2>2 DEF LastWord
<1>8. QED
  BY <1>5, <1>6, <1>7 DEF Events

LEMMA WordStays == ASSUME Shape, LastWord, CoreStep PROVE LastWord'
<1>1. CASE CoreSame \/ Acquires \/ Permits
  BY <1>1 DEF CoreSame, Acquires, Permits, LastWord, Waiters
<1>2. CASE Overs
  <2>1. queue.overflow \in {TRUE, FALSE}
    BY DEF Shape, QueueShape
  <2>2. queue'.events = <<>> /\ queue'.head = 0
    BY <1>2, <2>1, EmptyShape DEF Overs
  <2>3. Waiters' = {} /\ ~active'.failed
    BY <1>2, <2>2, OverFields DEF Overs, Waiters
  <2>4. QED
    BY <2>3 DEF LastWord
<1>3. CASE Begins
  <2>1. \A k \in Waiters : FALSE
    BY <1>3, QueueNumbers, RelayAssumption DEF LastWord, Begins, Events
  <2>2. ~active'.failed /\ queue' = queue
    BY <1>3, ActiveChanges, BegunFields DEF Begins, Shape, Work
  <2>3. QED
    BY <2>1, <2>2 DEF LastWord, Waiters
<1>4. CASE Commits
  BY <1>4, CommitFields DEF Commits, LastWord, Waiters, Shape
<1>5. QED
  BY <1>1, <1>2, <1>3, <1>4, TakesWord, CompactsWord, AppendsWord DEF CoreStep

\* A drain is scheduled while something waits, and a scheduled drain runs or is
\* on its way.
DrainWaits == \E k \in 1..Len(tasks) : tasks[k] = Drain
Drained ==
  socket = "open" =>
    /\ HasPending(queue) => drainScheduled
    /\ drainScheduled => run.pc \in DrainWork \/ DrainWaits

\* What a step of a connection that stays open does to the drain.
Elsewhere ==
  /\ drainScheduled' = drainScheduled
  /\ run.pc \in DrainWork => run'.pc \in DrainWork
  /\ \/ tasks' = tasks
     \/ \E w : tasks' = Append(tasks, w)
     \/ tasks # <<>> /\ tasks' = Tail(tasks) /\ (Head(tasks) # Drain \/ run'.pc = "drain")

Asked ==
  /\ drainScheduled' = TRUE /\ tasks' = Scheduled(tasks)
  /\ run.pc \in DrainWork => run' = run

DrainEnds ==
  /\ drainScheduled' <=> HasPending(queue')
  /\ tasks' = IF HasPending(queue') THEN Append(tasks, Drain) ELSE tasks

OpenStep == socket = "open" /\ (Elsewhere \/ Asked \/ DrainEnds)

LEMMA FailureShuts ==
  ASSUME NEW G, SecurityFailure(G) PROVE socket' # "open"
BY DEF SecurityFailure, Refuse, ProviderLoss, AnswerAndClose

LEMMA LossShuts ==
  ASSUME NEW G, NEW out, ProviderLoss(G, out) PROVE socket' # "open"
BY DEF Refuse, ProviderLoss, AnswerAndClose

LEMMA AnswerAsks ==
  ASSUME NEW out, Answer(out), socket' = "open", run.pc \notin DrainWork PROVE OpenStep
BY DEF Answer, OpenStep, Asked

LEMMA AppendAsks ==
  ASSUME NEW G, NEW e, AppendEvent(G, e), socket' = socket, socket' = "open", run' = run
  PROVE  OpenStep
BY DEF AppendEvent, RequestDrain, OpenStep, Asked, Elsewhere

LEMMA MessageOpen ==
  ASSUME RunShape(run), MessageStep, socket' = "open" PROVE OpenStep
<1> USE DEF OpenStep, Elsewhere, DrainWork, EventWork
<1>1. CASE SkipMessage
  BY <1>1 DEF SkipMessage
<1>2. CASE \E m \in Messages : BeginMessage(m)
  <2>1. PICK m \in Messages : BeginMessage(m)
    BY <1>2
  <2>2. m # Drain
    BY DEF Messages, Message, Said, Drain
  <2>3. QED
    BY <2>1, <2>2 DEF BeginMessage, Begin, NextTask
<1>3. CASE AudioNeedsGrant
  BY <1>3 DEF AudioNeedsGrant
<1>4. CASE StoreAnswers
  BY <1>4, FailureShuts DEF StoreAnswers
<1>5. CASE AlreadyTerminal \/ SessionEnded \/ NotYetOpen \/ Malformed
  BY <1>5 DEF AlreadyTerminal, SessionEnded, NotYetOpen, Malformed, Refuse, AnswerAndClose
<1>6. CASE SessionStart \/ UtteranceStart \/ Binary \/ UtteranceCommit \/ UtteranceCancel
  <2>1. run.pc \notin DrainWork
    BY <1>6 DEF SessionStart, UtteranceStart, Binary, UtteranceCommit, UtteranceCancel, Handling
  <2>2. \E out : Answer(out) \/ AnswerAndClose(out)
    BY <1>6 DEF SessionStart, UtteranceStart, Binary, UtteranceCommit, UtteranceCancel, Refuse,
       ProviderLoss
  <2>3. \E out : Answer(out)
    BY <2>2 DEF AnswerAndClose
  <2>4. QED
    BY <2>1, <2>3, AnswerAsks
<1>7. CASE SessionEnd
  BY <1>7 DEF SessionEnd, Handling
<1>8. QED
  BY <1>1, <1>2, <1>3, <1>4, <1>5, <1>6, <1>7 DEF MessageStep

LEMMA DrainOpen ==
  ASSUME RunShape(run), DrainStep, socket' = "open" PROVE OpenStep
<1> USE DEF OpenStep, Elsewhere, DrainWork, EventWork
<1>1. CASE BeginDrain
  <2>1. run'.pc = "drain"
    BY <1>1 DEF BeginDrain, Idle
  <2>2. QED
    BY <1>1, <2>1 DEF BeginDrain, Begin, NextTask
<1>2. CASE SkipDrain \/ DrainOverflow
  BY <1>2 DEF SkipDrain, DrainOverflow
<1>3. CASE TakePartial \/ DenyFinal \/ TakeResult
  <2>1. \E out : Continue(out)
    BY <1>3 DEF TakePartial, DenyFinal, TakeResult
  <2>2. QED
    BY <2>1, ContinueFields DEF Continue
<1>4. CASE TakeFinal
  <2>1. CASE Fresh(Taken)
    <3>1. run'.pc = "classify"
      BY <1>4, <2>1 DEF TakeFinal, RunShape
    <3>2. QED
      BY <1>4, <2>1, <3>1 DEF TakeFinal
  <2>2. CASE ~Fresh(Taken)
    <3>1. Continue(<<>>)
      BY <1>4, <2>2 DEF TakeFinal
    <3>2. QED
      BY <3>1, ContinueFields DEF Continue
  <2>3. QED
    BY <2>1, <2>2
<1>5. CASE TakeFailure
  <2>1. Continue(<<>>)
    BY <1>5, LossShuts DEF TakeFailure
  <2>2. QED
    BY <2>1, ContinueFields DEF Continue
<1>6. CASE EndDrain
  BY <1>6 DEF EndDrain, DrainAgain, DrainEnds
<1>7. CASE ClassifierAnswers \/ ClaimAcquired \/ ClaimRefused \/ ClaimReleased
  <2>1. \/ \E out : Continue(out)
        \/ /\ \E pc \in {"authorize", "start", "release"} : Wait(pc)
           /\ UNCHANGED <<socket, tasks, drainScheduled>>
    BY <1>7 DEF ClassifierAnswers, ClaimAcquired, ClaimRefused, ClaimReleased
  <2>2. QED
    BY <2>1, ContinueFields, WaitFields DEF Continue
<1>8. QED
  BY <1>1, <1>2, <1>3, <1>4, <1>5, <1>6, <1>7 DEF DrainStep

LEMMA StoreOpen ==
  ASSUME IInv, NEW u \in Utterances, StoreStep(u), socket' = "open" PROVE OpenStep
<1> USE DEF OpenStep, Elsewhere, DrainWork, EventWork
<1>1. PICK k \in 1..Len(gens[u].ops) :
        \/ CallStore(u, k) \/ StartPermitted(u, k) \/ StartConsumed(u, k)
        \/ StartFailed(u, k) \/ ReleaseAnswered(u, k) \/ CompleteAnswered(u, k)
        \/ RenewalAnswered(u, k)
  BY DEF StoreStep
<1>2. CASE CallStore(u, k) \/ ReleaseAnswered(u, k)
  BY <1>2 DEF CallStore, ReleaseAnswered, hostVars
<1>3. CASE StartPermitted(u, k) \/ StartConsumed(u, k) \/ StartFailed(u, k)
  <2>1. RunShape(run) /\ \E out : Continue(out)
    BY <1>3 DEF StartPermitted, StartConsumed, StartFailed, IInv
  <2>2. QED
    BY <2>1, ContinueFields DEF Continue
<1>4. CASE CompleteAnswered(u, k)
  <2>1. socket' = socket /\ run' = run
    BY <1>4 DEF CompleteAnswered
  <2>2. \/ \E G, e : AppendEvent(G, e)
        \/ UNCHANGED <<tasks, drainScheduled>>
    BY <1>4 DEF CompleteAnswered, Told
  <2>3. QED
    BY <2>1, <2>2, AppendAsks
<1>5. CASE RenewalAnswered(u, k)
  <2>1. gens[u].ops[k].op = "beat"
    BY <1>5 DEF RenewalAnswered, Answered
  <2>2. run.pc = "renewing"
    BY <2>1 DEF IInv, Sound, OneBeat
  <2>3. socket' = socket /\ UNCHANGED <<tasks, drainScheduled>>
    BY <1>5, FailureShuts DEF RenewalAnswered
  <2>4. QED
    BY <2>2, <2>3
<1>6. QED
  BY <1>1, <1>2, <1>3, <1>4, <1>5

LEMMA EveryOpenStep == ASSUME IInv, [Next]_vars, socket' = "open" PROVE OpenStep
<1> USE DEF OpenStep, Elsewhere, DrainWork, EventWork
<1>0. RunShape(run)
  BY DEF IInv
<1>1. CASE ClientStep
  BY <1>1 DEF ClientStep, ClientReads, ClientSends, hostVars
<1>2. CASE HeartbeatDue
  BY <1>2 DEF HeartbeatDue
<1>3. CASE BeginHeartbeat
  BY <1>3, KnownWork DEF BeginHeartbeat, Begin, NextTask, Beat, Drain, Message
<1>4. CASE HeartbeatAnswered
  BY <1>4, FailureShuts DEF HeartbeatAnswered
<1>5. CASE SocketClosed \/ Revoked
  BY <1>5 DEF SocketClosed, Revoked
<1>6. CASE UNCHANGED vars
  BY <1>6 DEF vars, hostVars
<1>7. ASSUME NEW u \in Utterances, ProviderStep(u) PROVE OpenStep
  <2>1. socket' = socket /\ run' = run /\ \E G, e : AppendEvent(G, e)
    BY <1>7 DEF ProviderStep, TranscriptionFailed, TranscriptionEvent
  <2>2. QED
    BY <2>1, AppendAsks
<1>8. ASSUME NEW u \in Utterances, NEW result, GenerationSettles(u, result) PROVE OpenStep
  BY <1>8 DEF GenerationSettles, hostVars
<1>9. QED
  BY <1>0, <1>1, <1>2, <1>3, <1>4, <1>5, <1>6, <1>7, <1>8, MessageOpen, DrainOpen, StoreOpen
  DEF Next

\* What waits after a step was waiting before, or the drain was asked for.
LEMMA PendingAsked ==
  ASSUME Shape, CoreStep, socket' = "open", HasPending(queue')
  PROVE  HasPending(queue) \/ drainScheduled'
<1>1. CASE CoreSame \/ Begins \/ Commits \/ Acquires \/ Permits
  BY <1>1 DEF CoreSame, Begins, Commits, Acquires, Permits
<1>2. CASE Overs
  <2>1. queue.overflow \in {TRUE, FALSE}
    BY DEF Shape, QueueShape
  <2>2. queue'.events = <<>> /\ queue'.head = 0 /\ (queue'.overflow => queue.overflow)
    BY <1>2, <2>1, EmptyShape DEF Overs
  <2>3. QED
    BY <2>2 DEF HasPending
<1>3. CASE Takes
  BY <1>3 DEF Takes, HasPending
<1>4. CASE Compacts
  <2>1. QueueShape(queue, Events) /\ QueueShape(Compact(queue), Events)
    BY CompactShape DEF Shape
  <2>2. /\ Compact(queue).overflow = queue.overflow
        /\ Pending(Compact(queue)) = Pending(queue)
    BY <2>1, CompactShape
  <2>3. /\ Len(Pending(queue)) = Len(queue.events) - queue.head
        /\ Len(Pending(queue)) = Len(Compact(queue).events) - Compact(queue).head
    BY <2>1, <2>2, PendingShape
  <2>4. /\ queue.head \in Nat /\ Len(queue.events) \in Nat /\ Compact(queue).head \in Nat
        /\ Len(Compact(queue).events) \in Nat
    BY <2>1 DEF QueueShape
  <2>5. QED
    BY <1>4, <2>2, <2>3, <2>4 DEF Compacts, HasPending
<1>5. ASSUME NEW e \in Events, Appends(e) PROVE HasPending(queue) \/ drainScheduled'
  <2>1. QueueShape(queue, Events) /\ queue' = Appended(queue, e) /\ socket = "open"
    BY <1>5 DEF Shape, Appends
  <2>2. CASE Notifies(queue, e)
    BY <1>5, <2>1, <2>2 DEF Appends, RequestDrain
  <2>3. CASE ~Notifies(queue, e)
    <3>1. Grown(Appended(queue, e), queue, e, Events)
      BY <2>1, AppendedShape
    <3>2. HasPending(Appended(queue, e)) => HasPending(queue)
      BY <2>3, <3>1 DEF Grown
    <3>3. QED
      BY <2>1, <2>3, <3>2
  <2>4. QED
    BY <2>2, <2>3
<1>6. QED
  BY <1>1, <1>2, <1>3, <1>4, <1>5 DEF CoreStep

LEMMA DrainedStays == ASSUME IInv, Shape, Drained, [Next]_vars PROVE Drained'
<1>1. SUFFICES ASSUME socket' = "open"
               PROVE  /\ HasPending(queue') => drainScheduled'
                      /\ drainScheduled' => run'.pc \in DrainWork \/ DrainWaits'
  BY DEF Drained
<1>2. Sources /\ RunShape(run)
  BY ShapeSources
<1>3. CoreStep /\ RunStep /\ OpenStep
  BY <1>1, <1>2, EveryCoreStep, EveryRunStep, EveryOpenStep
<1>4. socket = "open" /\ (drainScheduled => run.pc \in DrainWork \/ DrainWaits)
  BY <1>3 DEF OpenStep, Drained
<1>5. tasks \in Seq(Work) /\ Drain \in Work
  BY KnownWork DEF Shape
<1>6. HasPending(queue') => drainScheduled'
  <2>1. CASE HasPending(queue)
    <3>1. drainScheduled
      BY <1>4, <2>1 DEF Drained
    <3>2. QED
      BY <1>3, <3>1, Zenon DEF OpenStep, Elsewhere, Asked, DrainEnds
  <2>2. CASE ~HasPending(queue)
    BY <1>1, <1>3, <2>2, PendingAsked
  <2>3. QED
    BY <2>1, <2>2
<1>7. ASSUME NEW w \in Work
      PROVE  \A k \in 1..Len(tasks) :
               k \in 1..Len(Append(tasks, w)) /\ Append(tasks, w)[k] = tasks[k]
  BY <1>5
<1>8. Len(tasks) + 1 \in 1..Len(Append(tasks, Drain)) /\ Append(tasks, Drain)[Len(tasks) + 1] = Drain
  BY <1>5
<1>9. ASSUME drainScheduled' PROVE run'.pc \in DrainWork \/ DrainWaits'
  <2>1. CASE DrainEnds
    <3>1. tasks' = Append(tasks, Drain)
      BY <1>9, <2>1 DEF DrainEnds
    <3>2. QED
      BY <1>8, <3>1 DEF DrainWaits
  <2>2. CASE Asked
    <3>1. CASE drainScheduled
      <4>1. tasks' = tasks
        BY <2>2, <3>1 DEF Asked, Scheduled
      <4>2. QED
        BY <1>4, <2>2, <3>1, <4>1 DEF Asked, DrainWaits
    <3>2. CASE ~drainScheduled
      <4>1. tasks' = Append(tasks, Drain)
        BY <2>2, <3>2 DEF Asked, Scheduled
      <4>2. QED
        BY <1>8, <4>1 DEF DrainWaits
    <3>3. QED
      BY <3>1, <3>2
  <2>3. CASE Elsewhere
    <3>1. CASE run.pc \in DrainWork
      BY <2>3, <3>1 DEF Elsewhere
    <3>2. CASE run.pc \notin DrainWork
      <4>1. PICK k \in 1..Len(tasks) : tasks[k] = Drain
        BY <1>4, <1>9, <2>3, <3>2 DEF Elsewhere, DrainWaits
      <4>2. CASE tasks' = tasks
        BY <4>1, <4>2 DEF DrainWaits
      <4>3. CASE \E w : tasks' = Append(tasks, w)
        <5>1. PICK w : tasks' = Append(tasks, w)
          BY <4>3
        <5>2. k \in 1..Len(Append(tasks, w)) /\ Append(tasks, w)[k] = tasks[k]
          BY <1>5
        <5>3. QED
          BY <4>1, <5>1, <5>2 DEF DrainWaits
      <4>4. CASE tasks # <<>> /\ tasks' = Tail(tasks) /\ (Head(tasks) # Drain \/ run'.pc = "drain")
        <5>1. CASE run'.pc = "drain"
          BY <5>1 DEF DrainWork
        <5>2. CASE Head(tasks) # Drain
          <6>1. k # 1
            BY <1>5, <4>1, <5>2
          <6>2. k - 1 \in 1..Len(Tail(tasks)) /\ Tail(tasks)[k - 1] = Drain
            BY <1>5, <4>1, <4>4, <6>1
          <6>3. QED
            BY <4>4, <6>2 DEF DrainWaits
        <5>3. QED
          BY <4>4, <5>1, <5>2
      <4>5. QED
        BY <2>3, <4>2, <4>3, <4>4 DEF Elsewhere
    <3>3. QED
      BY <3>1, <3>2
  <2>4. QED
    BY <1>3, <2>1, <2>2, <2>3 DEF OpenStep
<1>10. QED
  BY <1>6, <1>9

LEMMA NothingLost == ASSUME Shape, LastWord, Drained PROVE NothingForgotten
<1>1. QueueShape(queue, Events) /\ queue.head \in Nat
  BY DEF Shape, QueueShape
<1>2. ASSUME active.failed
      PROVE  ~active.final /\ \E f \in PendingEvents : f.kind = "failed" /\ f.u = active.u
  <2>1. /\ ~active.final /\ queue.head + 1 = Len(queue.events)
        /\ queue.events[queue.head + 1].kind = "failed"
    BY <1>2 DEF LastWord
  <2>2. queue.head + 1 \in Waiters
    BY <1>1, <2>1 DEF Waiters
  <2>3. /\ (queue.head + 1) - queue.head \in 1..Len(Pending(queue))
        /\ Pending(queue)[(queue.head + 1) - queue.head] = queue.events[queue.head + 1]
    BY <1>1, <2>2, PendingFrom DEF Waiters
  <2>4. queue.events[queue.head + 1].u = active.u
    BY <2>2 DEF LastWord
  <2>5. QED
    BY <2>1, <2>3, <2>4 DEF PendingEvents, ToSet
<1>3. ASSUME socket = "open", run.pc = "idle", tasks = <<>>, HasPending(queue) PROVE FALSE
  <2>1. Len(tasks) = 0 /\ run.pc \notin DrainWork
    BY <1>3 DEF DrainWork, EventWork
  <2>2. QED
    BY <1>3, <2>1 DEF Drained, DrainWaits
<1>4. QED
  BY <1>2, <1>3 DEF NothingForgotten, FailureWins, NothingStranded

LEMMA InitHeard == ASSUME Init PROVE LastWord /\ Drained
<1>1. queue.events = <<>> /\ queue.head = 0 /\ queue.overflow = FALSE /\ Len(queue.events) = 0
  BY EmptyShape DEF Init
<1>2. ~active.failed /\ drainScheduled = FALSE
  BY OverFields DEF Init
<1>3. QED
  BY <1>1, <1>2 DEF LastWord, Drained, Waiters, HasPending

\* NothingForgotten: the failure of a provider waits for the drain, alone and
\* before anything else is accepted, until the utterance ends; and a connection
\* that is open and has nothing to do has no event waiting (appendAsyncEvent,
\* appendFailure, compactEventQueue, drainAsyncEvents, scheduleDrain), for every
\* capacity of the queue and every number of utterances and segments.
THEOREM NothingIsForgotten == Spec => []NothingForgotten
<1>1. Init => IInv /\ Shape /\ LastWord /\ Drained
  BY InitSound, InitShape, InitHeard
<1>2. IInv /\ Shape /\ LastWord /\ Drained /\ [Next]_vars
        => (IInv /\ Shape /\ LastWord /\ Drained)'
  <2>1. SUFFICES ASSUME IInv, Shape, LastWord, Drained, [Next]_vars
                 PROVE  IInv' /\ Shape' /\ LastWord' /\ Drained'
    OBVIOUS
  <2>2. CoreStep
    BY <2>1, ShapeSources, EveryCoreStep
  <2>3. QED
    BY <2>1, <2>2, StepInvariant, ShapeStep, WordStays, DrainedStays
<1>3. Shape /\ LastWord /\ Drained => NothingForgotten
  BY NothingLost
<1>4. QED
  BY <1>1, <1>2, <1>3, PTL DEF Spec

(***************************************************************************)
(* What a step does to the generations and their rows                      *)
(***************************************************************************)
Twice(g) ==
  \E j, k \in 1..Len(g.ops) : j # k /\ g.ops[j].op = "complete" /\ g.ops[k].op = "complete"

\* h has no operation that g does not have
LessOps(g, h) == (\A kinds : Has(h, kinds) => Has(g, kinds)) /\ (Twice(h) => Twice(g))

\* h has one operation more
MoreOps(g, h, op) ==
  /\ \A kinds : Has(h, kinds) => Has(g, kinds) \/ op \in kinds
  /\ Twice(h) => Twice(g) \/ (op = "complete" /\ Has(g, {"complete"}))

\* h does not have the k-th operation of g
Drops(g, h, k) ==
  LessOps(g, h) /\ (g.ops[k].op = "complete" /\ ~Twice(g) => ~Has(h, {"complete"}))

LEMMA SameOps ==
  ASSUME NEW g, NEW h,
         Len(h.ops) = Len(g.ops), \A k \in 1..Len(g.ops) : h.ops[k].op = g.ops[k].op
  PROVE  LessOps(g, h)
BY DEF LessOps, Has, Twice

LEMMA EnqueuedMore ==
  ASSUME NEW g \in GenRecords, NEW op \in {"start", "release", "beat", "complete"}
  PROVE  /\ MoreOps(g, Enqueued(g, op), op)
         /\ Enqueued(g, op).pc = g.pc /\ Enqueued(g, op).refused = g.refused
         /\ Enqueued(g, op) \in GenRecords
<1> DEFINE h == Enqueued(g, op)
           n == Len(g.ops)
<1>1. /\ h \in GenRecords /\ Len(h.ops) = n + 1 /\ n \in Nat /\ h.ops[n + 1].op = op
      /\ \A k \in 1..n : h.ops[k] = g.ops[k]
      /\ h.pc = g.pc /\ h.refused = g.refused
  BY EnqueuedLast
<1> HIDE DEF h
<1>2. \A k \in 1..Len(h.ops) : k = n + 1 \/ (k \in 1..n /\ h.ops[k] = g.ops[k])
  BY <1>1 DEF n
<1>3. ASSUME NEW kinds, Has(h, kinds) PROVE Has(g, kinds) \/ op \in kinds
  BY <1>1, <1>2, <1>3 DEF Has, n
<1>4. ASSUME Twice(h) PROVE Twice(g) \/ (op = "complete" /\ Has(g, {"complete"}))
  <2>1. PICK j \in 1..Len(h.ops), k \in 1..Len(h.ops) :
          j # k /\ h.ops[j].op = "complete" /\ h.ops[k].op = "complete"
    BY <1>4 DEF Twice
  <2>2. CASE j \in 1..n /\ k \in 1..n
    BY <1>1, <2>1, <2>2 DEF Twice, n
  <2>3. CASE j \in 1..n /\ k = n + 1
    BY <1>1, <2>1, <2>3 DEF Has, n
  <2>4. CASE k \in 1..n /\ j = n + 1
    BY <1>1, <2>1, <2>4 DEF Has, n
  <2>5. QED
    BY <1>2, <2>1, <2>2, <2>3, <2>4
<1>5. MoreOps(g, h, op)
  BY <1>3, <1>4 DEF MoreOps
<1>6. QED
  BY <1>1, <1>5 DEF h

\* what is left when the k-th operation of g was answered
LEMMA RestDrops ==
  ASSUME NEW u, NEW g \in GenRecords, InTurn(u, g, run),
         NEW k \in 1..Len(g.ops), g.ops[k].claim # NoClaim,
         NEW h, h.ops = RemoveAt(g.ops, k)
  PROVE  Drops(g, h, k) /\ h.ops \in Seq(OpRecords)
<1>1. Shifted(u, g, k, h) /\ k = 1
  BY Rest DEF InTurn
<1>2. \A j \in 1..Len(h.ops) :
        j \in Int /\ j + 1 \in 1..Len(g.ops) /\ h.ops[j].op = g.ops[j + 1].op
  BY <1>1 DEF Shifted
<1>3. ASSUME Twice(h) PROVE Twice(g)
  <2>1. PICK i \in 1..Len(h.ops), j \in 1..Len(h.ops) :
          i # j /\ h.ops[i].op = "complete" /\ h.ops[j].op = "complete"
    BY <1>3 DEF Twice
  <2>2. i + 1 # j + 1 /\ i + 1 \in 1..Len(g.ops) /\ j + 1 \in 1..Len(g.ops)
    BY <1>2, <2>1
  <2>3. QED
    BY <1>2, <2>1, <2>2 DEF Twice
<1>4. ASSUME g.ops[k].op = "complete", Has(h, {"complete"}) PROVE Twice(g)
  <2>1. PICK j \in 1..Len(h.ops) : h.ops[j].op = "complete"
    BY <1>4 DEF Has
  <2>2. j + 1 # k /\ j + 1 \in 1..Len(g.ops)
    BY <1>1, <1>2, <2>1
  <2>3. QED
    BY <1>2, <1>4, <2>1, <2>2 DEF Twice
<1>5. (\A kinds : Has(h, kinds) => Has(g, kinds)) /\ h.ops \in Seq(OpRecords)
  BY <1>1 DEF Shifted
<1>6. QED
  BY <1>3, <1>4, <1>5 DEF Drops, LessOps

\* The generation h and the row d that a step makes of the generation g of u
\* and its row c, before the utterance ends: nothing, the drain is told of the
\* claim, the store answers a call, or an operation comes.
ClaimTold(u, g, h, c, d) ==
  /\ At(u, {"authorize"}) /\ run'.pc \in {"release", "drain"}
  /\ LessOps(g, h) /\ h.pc = g.pc /\ d \in {c, Claimed}
  /\ run'.pc = "release" => h.refused = g.refused

GivenBack(u, g, h, c, d) ==
  /\ At(u, {"release"}) /\ run'.pc = "drain"
  /\ LessOps(g, h) /\ h.pc = g.pc /\ d \in {c, Renewed(c, "released")}

CallAnswered(u, g, h, c, d) ==
  \E k \in 1..Len(g.ops) :
    /\ Drops(g, h, k)
    /\ \/ /\ g.ops[k].op = "start" /\ At(u, {"start"}) /\ run'.pc = "drain"
          /\ h.pc = g.pc /\ d \in {c, Renewed(c, "started")}
       \/ /\ g.ops[k].op = "release"
          /\ h.pc = g.pc /\ d \in {c, Renewed(c, "released")}
       \/ /\ g.ops[k].op = "complete"
          /\ h.pc = "over" /\ d \in {c, Renewed(c, "completed")}
       \/ /\ g.ops[k].op = "beat" /\ h.pc = g.pc
          /\ d = c \/ (c.phase = "started" /\ d = Renewed(c, "started"))

OpComes(u, g, h, c, d) ==
  /\ h.refused = g.refused /\ d = c
  /\ \/ g.pc = "calling" /\ MoreOps(g, h, "complete") /\ h.pc \in {"success", "failure"}
     \/ operation = u /\ generating /\ MoreOps(g, h, "beat") /\ h.pc = g.pc

Spared(g, h, c, d) == LessOps(g, h) /\ h.pc = g.pc /\ h.refused = g.refused /\ d = c

Treated(u, g, h, c, d) ==
  \/ Spared(g, h, c, d) \/ ClaimTold(u, g, h, c, d) \/ GivenBack(u, g, h, c, d)
  \/ CallAnswered(u, g, h, c, d) \/ OpComes(u, g, h, c, d)

Others(v) == \A u \in Utterances : u # v => gens'[u] = gens[u] /\ row'[u] = row[u]

\* the claim of v is acquired, and its start enqueued
Acquired(v) ==
  /\ At(v, {"authorize"}) /\ run'.pc = "start"
  /\ row'[v] = Claimed /\ MoreOps(gens[v], gens'[v], "start")
  /\ gens'[v].pc = gens[v].pc /\ operation' = v /\ generating' = generating
  /\ operation \in {None, v} /\ Others(v)

\* the generation service is called for v
Permitted(v) ==
  /\ At(v, {"start"}) /\ run'.pc = "drain" /\ operation' = v /\ generating' = TRUE
  /\ \E k \in 1..Len(gens[v].ops) :
       Drops(gens[v], gens'[v], k) /\ gens[v].ops[k].op = "start"
  /\ gens'[v].pc = "calling" /\ row'[v] = Renewed(row[v], "started")
  /\ operation = v /\ Others(v)

\* no step but an end does more to the generations than to abort one
Keeps(G) ==
  /\ gens' \in [Utterances -> GenRecords] /\ Alike(G, gens')
  /\ operation' = operation /\ generating' = generating

GensStep ==
  \/ \E G : /\ G \in [Utterances -> GenRecords] /\ (Ended(G) \/ Keeps(G))
            /\ \A u \in Utterances : Treated(u, gens[u], G[u], row[u], row'[u])
  \/ \E v \in Utterances : Acquired(v) \/ Permitted(v)

\* Most steps leave the generations alone.
LEMMA QuietGens ==
  ASSUME IInv, row' = row, Ended(gens) \/ Keeps(gens) PROVE GensStep
<1>1. gens \in [Utterances -> GenRecords]
  BY DEF IInv, Sound, Shapes
<1>2. \A u \in Utterances : Treated(u, gens[u], gens[u], row[u], row'[u])
  BY SameOps DEF Treated, Spared
<1>3. QED
  BY <1>1, <1>2 DEF GensStep

\* One generation and its row change.
LEMMA OneGens ==
  ASSUME IInv, NEW v \in Utterances, NEW h \in GenRecords,
         \A u \in Utterances : u # v => row'[u] = row[u],
         Treated(v, gens[v], h, row[v], row'[v]),
         Ended(With(v, h)) \/ Keeps(With(v, h))
  PROVE  GensStep
<1> DEFINE G == With(v, h)
<1>1. gens \in [Utterances -> GenRecords]
  BY DEF IInv, Sound, Shapes
<1>2. /\ G \in [Utterances -> GenRecords] /\ G[v] = h
      /\ \A u \in Utterances : u # v => G[u] = gens[u]
  BY <1>1 DEF With
<1> HIDE DEF G
<1>3. \A u \in Utterances : Treated(u, gens[u], G[u], row[u], row'[u])
  BY <1>2, SameOps DEF Treated, Spared
<1>4. QED
  BY <1>2, <1>3 DEF GensStep, G

LEMMA FailureGens ==
  ASSUME NEW G \in [Utterances -> GenRecords], SecurityFailure(G)
  PROVE  Ended(G) \/ Keeps(G)
BY FailureEnds DEF Keeps, Alike

LEMMA SameKeeps ==
  ASSUME IInv, gens' = gens, operation' = operation, generating' = generating
  PROVE  Keeps(gens)
BY DEF IInv, Sound, Shapes, Keeps, Alike

LEMMA MessageGens == ASSUME IInv, MessageStep PROVE GensStep
<1>1. row' = row /\ (Ended(gens) \/ Keeps(gens))
  <2>1. CASE SkipMessage \/ (\E m \in Messages : BeginMessage(m)) \/ AudioNeedsGrant
    BY <2>1, SameKeeps DEF SkipMessage, BeginMessage, AudioNeedsGrant, coreVars
  <2>2. CASE StoreAnswers
    BY <2>2, SameKeeps, FailureEnds DEF StoreAnswers, coreVars
  <2>3. CASE AlreadyTerminal \/ SessionEnded
    BY <2>3, SameKeeps DEF AlreadyTerminal, SessionEnded, coreVars
  <2>4. CASE SessionStart \/ NotYetOpen \/ Malformed \/ SessionEnd
    BY <2>4, SameKeeps, RefuseEnds, TerminateEnds
    DEF SessionStart, NotYetOpen, Malformed, SessionEnd, Handling
  <2>5. CASE UtteranceStart
    BY <2>5, SameKeeps, RefuseEnds DEF UtteranceStart, Handling, coreVars
  <2>6. CASE Binary \/ UtteranceCommit
    BY <2>6, SameKeeps, RefuseEnds, LossEnds DEF Binary, UtteranceCommit, Handling, coreVars
  <2>7. CASE UtteranceCancel
    BY <2>7, SameKeeps, RefuseEnds, FinishEnds DEF UtteranceCancel, Handling, coreVars
  <2>8. QED
    BY <2>1, <2>2, <2>3, <2>4, <2>5, <2>6, <2>7 DEF MessageStep
<1>2. QED
  BY <1>1, QuietGens

LEMMA DrainGens ==
  ASSUME IInv,
         \/ BeginDrain \/ SkipDrain \/ DrainOverflow \/ TakePartial \/ TakeFinal
         \/ DenyFinal \/ TakeFailure \/ TakeResult \/ EndDrain \/ ClassifierAnswers
  PROVE  GensStep
<1>1. row' = row /\ (Ended(gens) \/ Keeps(gens))
  <2>1. CASE BeginDrain \/ SkipDrain
    BY <2>1, SameKeeps DEF BeginDrain, SkipDrain, coreVars
  <2>2. CASE DrainOverflow
    BY <2>2, TerminateEnds DEF DrainOverflow
  <2>3. CASE TakePartial \/ TakeFinal \/ EndDrain
    BY <2>3, SameKeeps DEF TakePartial, TakeFinal, EndDrain, Taking
  <2>4. CASE DenyFinal
    BY <2>4, FinishEnds DEF DenyFinal, Taking
  <2>5. CASE TakeFailure
    BY <2>5, SameKeeps, LossEnds DEF TakeFailure, Taking
  <2>6. CASE TakeResult
    BY <2>6, SameKeeps, FinishEnds DEF TakeResult, Taking
  <2>7. CASE ClassifierAnswers
    BY <2>7, SameKeeps, FinishEnds DEF ClassifierAnswers, coreVars
  <2>8. QED
    BY <2>1, <2>2, <2>3, <2>4, <2>5, <2>6, <2>7
<1>2. QED
  BY <1>1, QuietGens

LEMMA RestGens ==
  ASSUME IInv,
         HeartbeatDue \/ BeginHeartbeat \/ SocketClosed \/ Revoked \/ ClientStep \/ UNCHANGED vars
  PROVE  GensStep
<1>1. row' = row /\ (Ended(gens) \/ Keeps(gens))
  <2>1. CASE HeartbeatDue \/ BeginHeartbeat
    BY <2>1, SameKeeps DEF HeartbeatDue, BeginHeartbeat, coreVars
  <2>2. CASE SocketClosed \/ Revoked
    BY <2>2, SameKeeps, TerminateEnds DEF SocketClosed, Revoked, coreVars
  <2>3. CASE ClientStep \/ UNCHANGED vars
    BY <2>3, SameKeeps DEF ClientStep, ClientReads, ClientSends, coreVars, vars
  <2>4. QED
    BY <2>1, <2>2, <2>3
<1>2. QED
  BY <1>1, QuietGens

LEMMA ProviderGens ==
  ASSUME IInv, NEW u \in Utterances, ProviderStep(u) PROVE GensStep
<1>1. gens \in [Utterances -> GenRecords]
  BY DEF IInv, Sound, Shapes
<1>2. row' = row /\ operation' = operation /\ generating' = generating
  BY DEF ProviderStep, TranscriptionFailed, TranscriptionEvent
<1>3. gens' \in [Utterances -> GenRecords] /\ Alike(gens, gens')
  BY <1>1, AppendAlike DEF ProviderStep, TranscriptionFailed, TranscriptionEvent
<1>4. QED
  BY <1>2, <1>3, QuietGens DEF Keeps

LEMMA HeartbeatGens == ASSUME IInv, HeartbeatAnswered PROVE GensStep
<1>0. gens \in [Utterances -> GenRecords] /\ row' = row
  BY DEF IInv, Sound, Shapes, HeartbeatAnswered
<1>1. CASE /\ operation # None /\ generating
           /\ gens' = With(operation, Enqueued(gens[operation], "beat"))
           /\ operation' = operation /\ generating' = generating
  <2> DEFINE h == Enqueued(gens[operation], "beat")
             G == With(operation, h)
  <2>1. CASE operation \in Utterances
    <3>1. gens[operation] \in GenRecords
      BY <1>0, <2>1
    <3>2. /\ MoreOps(gens[operation], h, "beat") /\ h.pc = gens[operation].pc
          /\ h.refused = gens[operation].refused /\ h \in GenRecords
      BY <3>1, EnqueuedMore
    <3> HIDE DEF h
    <3>3. Treated(operation, gens[operation], h, row[operation], row'[operation])
      BY <1>0, <1>1, <3>2 DEF Treated, OpComes
    <3>4. G \in [Utterances -> GenRecords]
      BY <1>0, <3>2 DEF With
    <3>5. Keeps(G)
      BY <1>1, <3>4 DEF Keeps, Alike, h
    <3>6. QED
      BY <1>0, <2>1, <3>2, <3>3, <3>5, OneGens
  <2>2. CASE operation \notin Utterances
    <3>1. gens' = gens
      BY <1>0, <1>1, <2>2 DEF With
    <3>2. QED
      BY <1>0, <1>1, <3>1, SameKeeps, QuietGens
  <2>3. QED
    BY <2>1, <2>2
<1>2. CASE UNCHANGED coreVars
  BY <1>0, <1>2, SameKeeps, QuietGens DEF coreVars
<1>3. CASE SecurityFailure(gens)
  BY <1>0, <1>3, FailureGens, QuietGens
<1>4. QED
  BY <1>1, <1>2, <1>3 DEF HeartbeatAnswered

LEMMA SettleGens ==
  ASSUME IInv, NEW u \in Utterances, NEW result \in {"success", "failure"},
         GenerationSettles(u, result)
  PROVE  GensStep
<1> DEFINE b == Enqueued(gens[u], "complete")
           h == [b EXCEPT !.pc = result]
<1>0. gens \in [Utterances -> GenRecords] /\ gens[u] \in GenRecords
  BY DEF IInv, Sound, Shapes
<1>1. /\ gens[u].pc = "calling" /\ gens' = With(u, h) /\ row' = row
      /\ operation' = operation /\ generating' = generating
  BY DEF GenerationSettles
<1>2. /\ MoreOps(gens[u], b, "complete") /\ b.refused = gens[u].refused /\ b \in GenRecords
  BY <1>0, EnqueuedMore
<1> HIDE DEF b
<1>3. /\ h \in GenRecords /\ h.ops = b.ops /\ h.pc = result /\ h.refused = b.refused
  BY <1>2 DEF GenRecords
<1> HIDE DEF h
<1>4. MoreOps(gens[u], h, "complete")
  BY <1>2, <1>3 DEF MoreOps, Has, Twice
<1>5. Treated(u, gens[u], h, row[u], row'[u])
  BY <1>1, <1>2, <1>3, <1>4 DEF Treated, OpComes
<1>6. With(u, h) \in [Utterances -> GenRecords]
  BY <1>0, <1>3 DEF With
<1>7. Keeps(With(u, h))
  BY <1>1, <1>6 DEF Keeps, Alike
<1>8. QED
  BY <1>1, <1>3, <1>5, <1>7, OneGens

LEMMA ClaimGens ==
  ASSUME IInv, Shape, ClaimAcquired \/ ClaimRefused \/ ClaimReleased PROVE GensStep
<1> DEFINE v == run.event.u
           g == gens[v]
<1>1. run.event \in Events
  BY DEF Shape, EventWork, ClaimAcquired, ClaimRefused, ClaimReleased
<1>2. /\ gens \in [Utterances -> GenRecords] /\ row \in [Utterances -> ClaimRecords]
      /\ RunShape(run) /\ v \in Utterances /\ g \in GenRecords
  BY <1>1 DEF IInv, Sound, Shapes, Events
<1>3. With(v, g) = gens /\ LessOps(g, g)
  BY <1>2, SameOps DEF With
<1>4. ASSUME NEW G, G = [gens EXCEPT ![v].refused = TRUE]
      PROVE  \E h \in GenRecords : G = With(v, h) /\ LessOps(g, h) /\ h.pc = g.pc
  <2> DEFINE h == [g EXCEPT !.refused = TRUE]
  <2>1. h \in GenRecords /\ h.ops = g.ops /\ h.pc = g.pc
    BY <1>2 DEF GenRecords
  <2>2. G = With(v, h)
    BY <1>2, <1>4 DEF With
  <2> HIDE DEF h
  <2>3. LessOps(g, h)
    BY <2>1, SameOps
  <2>4. QED
    BY <2>1, <2>2, <2>3
<1> HIDE DEF v, g
<1>5. CASE ClaimAcquired
  <2>1. /\ run.pc = "authorize" /\ row' = [row EXCEPT ![v] = Claimed]
        /\ generating' = generating
    BY <1>5 DEF ClaimAcquired, v
  <2>2. CASE /\ CurrentEvent(run.event) /\ operation' = v
             /\ gens' = [gens EXCEPT ![v] = Enqueued([@ EXCEPT !.claim = Claimed], "start")]
             /\ Wait("start")
    <3> DEFINE b == [g EXCEPT !.claim = Claimed]
               h == Enqueued(b, "start")
    <3>1. b \in GenRecords /\ b.ops = g.ops /\ b.pc = g.pc
      BY <1>2, ClaimTypes DEF GenRecords
    <3>2. gens' = [gens EXCEPT ![v] = h]
      BY <2>2 DEF g
    <3> HIDE DEF b
    <3>3. MoreOps(b, h, "start") /\ h.pc = b.pc
      BY <3>1, EnqueuedMore
    <3> HIDE DEF h
    <3>4. MoreOps(g, h, "start") /\ h.pc = g.pc
      BY <3>1, <3>3 DEF MoreOps, Has, Twice
    <3>5. run'.pc = "start"
      BY <1>2, <2>2, WaitFields
    <3>6. operation \in {None, v}
      BY <2>2 DEF CurrentEvent, Shape, Holding, v
    <3>7. Acquired(v)
      BY <1>2, <2>1, <2>2, <3>2, <3>4, <3>5, <3>6 DEF Acquired, At, Others, v, g
    <3>8. QED
      BY <1>2, <3>7 DEF GensStep
  <2>3. CASE UNCHANGED <<gens, operation>> /\ Wait("release")
    <3>1. run'.pc = "release"
      BY <1>2, <2>3, WaitFields
    <3>2. Treated(v, gens[v], g, row[v], row'[v])
      BY <1>2, <1>3, <2>1, <3>1 DEF Treated, ClaimTold, At, v, g
    <3>3. Keeps(With(v, g))
      BY <1>3, <2>1, <2>3, SameKeeps
    <3>4. QED
      BY <1>2, <2>1, <3>2, <3>3, OneGens
  <2>4. QED
    BY <1>5, <2>2, <2>3 DEF ClaimAcquired, v
<1>6. CASE ClaimRefused
  <2> DEFINE G == [gens EXCEPT ![v].refused = TRUE]
  <2>1. run.pc = "authorize" /\ (row' = row \/ row' = [row EXCEPT ![v] = Claimed])
    BY <1>6 DEF ClaimRefused, Fails, v
  <2>2. PICK h \in GenRecords : G = With(v, h) /\ LessOps(g, h) /\ h.pc = g.pc
    BY <1>4
  <2>3. \/ Finish(G, FALSE)
        \/ gens' = G /\ operation' = operation /\ generating' = generating
    BY <1>6 DEF ClaimRefused, v
  <2>4. \E out : Continue(out)
    BY <1>6 DEF ClaimRefused
  <2> HIDE DEF G
  <2>5. run'.pc = "drain"
    BY <1>2, <2>4, ContinueFields
  <2>6. Treated(v, gens[v], h, row[v], row'[v])
    BY <1>2, <2>1, <2>2, <2>5 DEF Treated, ClaimTold, At, v, g
  <2>7. With(v, h) \in [Utterances -> GenRecords]
    BY <1>2 DEF With
  <2>8. Ended(With(v, h)) \/ Keeps(With(v, h))
    BY <2>2, <2>3, <2>7, FinishEnds DEF Keeps, Alike
  <2>9. QED
    BY <1>2, <2>1, <2>6, <2>8, OneGens
<1>7. CASE ClaimReleased
  <2>1. /\ run.pc = "release" /\ operation' = operation /\ generating' = generating
        /\ row' = row \/ row' = [row EXCEPT ![v] = Renewed(row[v], "released")]
        /\ \E out : Continue(out)
    BY <1>7 DEF ClaimReleased, Fails, v
  <2>2. run'.pc = "drain"
    BY <1>2, <2>1, ContinueFields
  <2>3. PICK h \in GenRecords : gens' = With(v, h) /\ LessOps(g, h) /\ h.pc = g.pc
    <3>1. gens' = gens \/ gens' = [gens EXCEPT ![v].refused = TRUE]
      BY <1>7 DEF ClaimReleased, v
    <3>2. QED
      BY <1>2, <1>3, <1>4, <3>1
  <2>4. Treated(v, gens[v], h, row[v], row'[v])
    BY <1>2, <2>1, <2>2, <2>3 DEF Treated, GivenBack, At, v, g
  <2>5. With(v, h) \in [Utterances -> GenRecords]
    BY <1>2 DEF With
  <2>6. Keeps(With(v, h))
    BY <2>1, <2>3, <2>5 DEF Keeps, Alike
  <2>7. QED
    BY <1>2, <2>1, <2>4, <2>6, OneGens
<1>8. QED
  BY <1>5, <1>6, <1>7

LEMMA CallGens ==
  ASSUME IInv, NEW u \in Utterances, NEW k \in 1..Len(gens[u].ops), CallStore(u, k)
  PROVE  GensStep
<1> DEFINE o == [gens[u].ops[k] EXCEPT !.claim = gens[u].claim]
           s == [gens[u].ops EXCEPT ![k] = o]
           h == [gens[u] EXCEPT !.ops = s]
<1>1. /\ gens \in [Utterances -> GenRecords] /\ gens[u] \in GenRecords
      /\ gens[u].ops \in Seq(OpRecords) /\ gens[u].claim \in ClaimRecords
  BY DEF IInv, Sound, Shapes, GenRecords
<1>2. o \in OpRecords /\ o.op = gens[u].ops[k].op
  <2>1. gens[u].ops[k] \in OpRecords
    BY <1>1
  <2>2. QED
    BY <1>1, <2>1 DEF OpRecords
<1>3. gens' = With(u, h) /\ row' = row /\ operation' = operation /\ generating' = generating
  BY DEF CallStore, With
<1> HIDE DEF o
<1>4. /\ s \in Seq(OpRecords) /\ Len(s) = Len(gens[u].ops)
      /\ \A j \in 1..Len(gens[u].ops) : s[j].op = gens[u].ops[j].op
  BY <1>1, <1>2
<1> HIDE DEF s
<1>5. h \in GenRecords /\ h.ops = s /\ h.pc = gens[u].pc /\ h.refused = gens[u].refused
  BY <1>1, <1>4 DEF GenRecords
<1> HIDE DEF h
<1>6. LessOps(gens[u], h)
  BY <1>4, <1>5, SameOps
<1>7. Treated(u, gens[u], h, row[u], row'[u])
  BY <1>3, <1>5, <1>6 DEF Treated, Spared
<1>8. With(u, h) \in [Utterances -> GenRecords]
  BY <1>1, <1>5 DEF With
<1>9. Keeps(With(u, h))
  BY <1>3, <1>8 DEF Keeps, Alike
<1>10. QED
  BY <1>3, <1>5, <1>7, <1>9, OneGens

\* h is the generation of u once its k-th operation was answered
Leaves(u, k, h, pc) == h \in GenRecords /\ h.pc = pc /\ Drops(gens[u], h, k)

LEMMA AnswerLeaves ==
  ASSUME IInv, NEW u \in Utterances, NEW k \in 1..Len(gens[u].ops),
         gens[u].ops[k].claim # NoClaim, NEW p \in {"started", "completed", "released"},
         NEW pc \in {"none", "calling", "success", "failure", "over"}
  PROVE  /\ Leaves(u, k, Granted(u, k, p), gens[u].pc)
         /\ Leaves(u, k, [Granted(u, k, p) EXCEPT !.pc = pc], pc)
         /\ Leaves(u, k, [Granted(u, k, p) EXCEPT !.refused = TRUE], gens[u].pc)
         /\ Leaves(u, k, [Granted(u, k, p) EXCEPT !.claim = gens[u].claim], gens[u].pc)
         /\ Leaves(u, k, StoreRefuses(u, k), gens[u].pc)
         /\ Leaves(u, k, [StoreRefuses(u, k) EXCEPT !.pc = pc], pc)
         /\ Leaves(u, k, [gens[u] EXCEPT !.ops = RemoveAt(@, k)], gens[u].pc)
<1> DEFINE g == gens[u]
           ops == RemoveAt(g.ops, k)
           r == Renewed(row[u], p)
           granted == Granted(u, k, p)
           refuses == StoreRefuses(u, k)
           less == [g EXCEPT !.ops = ops]
<1>1. g \in GenRecords /\ InTurn(u, g, run) /\ row[u] \in ClaimRecords
  BY AnsweredSound
<1>2. \A h : h.ops = ops => Drops(g, h, k) /\ ops \in Seq(OpRecords)
  BY <1>1, RestDrops
<1>3. ops \in Seq(OpRecords)
  <2>1. less.ops = ops
    BY <1>1 DEF GenRecords
  <2>2. QED
    BY <1>2, <2>1
<1>4. r \in ClaimRecords /\ g.claim \in ClaimRecords
  BY <1>1, ClaimTypes DEF GenRecords
<1>5. granted = [[g EXCEPT !.ops = ops] EXCEPT !.claim = r]
  BY DEF Granted
<1>6. refuses = [[g EXCEPT !.ops = ops] EXCEPT !.refused = TRUE]
  BY DEF StoreRefuses
<1>7. less = [g EXCEPT !.ops = RemoveAt(@, k)]
  OBVIOUS
<1> HIDE DEF granted, refuses, r, ops, g
<1>8. less \in GenRecords /\ less.pc = g.pc /\ less.ops = ops
  BY <1>1, <1>3 DEF GenRecords
<1>9. granted = [less EXCEPT !.claim = r] /\ refuses = [less EXCEPT !.refused = TRUE]
  BY <1>5, <1>6
<1> HIDE DEF less
<1>10. granted \in GenRecords /\ granted.pc = g.pc /\ granted.ops = ops
  BY <1>4, <1>8, <1>9 DEF GenRecords
<1>11. refuses \in GenRecords /\ refuses.pc = g.pc /\ refuses.ops = ops
  BY <1>8, <1>9 DEF GenRecords
<1>12. ASSUME NEW h \in GenRecords, h.pc = g.pc, h.ops = ops
       PROVE  /\ [h EXCEPT !.pc = pc] \in GenRecords /\ [h EXCEPT !.pc = pc].pc = pc
              /\ [h EXCEPT !.pc = pc].ops = ops
              /\ [h EXCEPT !.refused = TRUE] \in GenRecords
              /\ [h EXCEPT !.refused = TRUE].pc = g.pc /\ [h EXCEPT !.refused = TRUE].ops = ops
              /\ [h EXCEPT !.claim = g.claim] \in GenRecords
              /\ [h EXCEPT !.claim = g.claim].pc = g.pc /\ [h EXCEPT !.claim = g.claim].ops = ops
  BY <1>4, <1>12 DEF GenRecords
<1>13. \A h, q : h \in GenRecords /\ h.pc = q /\ h.ops = ops => Leaves(u, k, h, q)
  BY <1>2 DEF Leaves, g
<1>14. /\ Leaves(u, k, granted, g.pc) /\ Leaves(u, k, [granted EXCEPT !.pc = pc], pc)
       /\ Leaves(u, k, [granted EXCEPT !.refused = TRUE], g.pc)
       /\ Leaves(u, k, [granted EXCEPT !.claim = g.claim], g.pc)
  BY <1>10, <1>12, <1>13
<1>15. Leaves(u, k, refuses, g.pc) /\ Leaves(u, k, [refuses EXCEPT !.pc = pc], pc)
  BY <1>11, <1>12, <1>13
<1>16. Leaves(u, k, [g EXCEPT !.ops = RemoveAt(@, k)], g.pc)
  BY <1>7, <1>8, <1>13
<1>17. QED
  BY <1>14, <1>15, <1>16 DEF granted, refuses, g

\* the row of u after a call that was granted or refused
LEMMA AnswerRow ==
  ASSUME IInv, NEW u \in Utterances, NEW k, NEW p,
         StoreGrants(u, k, p) \/ StoreFails(u, k, p)
  PROVE  /\ row'[u] \in {row[u], Renewed(row[u], p)}
         /\ row'[u] = row[u] \/ gens[u].ops[k].claim = row[u]
         /\ \A v \in Utterances : v # u => row'[v] = row[v]
BY DEF IInv, Sound, Shapes, StoreGrants, StoreFails, Fails

\* A store call is answered, and the utterance ends or not.
LEMMA AnswerGens ==
  ASSUME IInv, NEW u \in Utterances, NEW k \in 1..Len(gens[u].ops),
         NEW pc, NEW h, Leaves(u, k, h, pc),
         CallAnswered(u, gens[u], h, row[u], row'[u]),
         \A v \in Utterances : v # u => row'[v] = row[v],
         \/ Ended(With(u, h))
         \/ gens' = With(u, h) /\ operation' = operation /\ generating' = generating
         \/ Keeps(With(u, h))
  PROVE  GensStep
<1>1. gens \in [Utterances -> GenRecords] /\ h \in GenRecords
  BY DEF IInv, Sound, Shapes, Leaves
<1>2. With(u, h) \in [Utterances -> GenRecords]
  BY <1>1 DEF With
<1>3. Ended(With(u, h)) \/ Keeps(With(u, h))
  BY <1>2 DEF Keeps, Alike
<1>4. QED
  BY <1>1, <1>3, OneGens DEF Treated

LEMMA StartGens ==
  ASSUME IInv, NEW u \in Utterances, NEW k \in 1..Len(gens[u].ops),
         StartPermitted(u, k) \/ StartConsumed(u, k) \/ StartFailed(u, k)
  PROVE  GensStep
<1>1. /\ gens[u].ops[k].op = "start" /\ gens[u].ops[k].claim # NoClaim
      /\ \E out : Continue(out)
      /\ StoreGrants(u, k, "started") \/ StoreFails(u, k, "started")
  BY DEF StartPermitted, StartConsumed, StartFailed, Answered
<1>2. /\ row'[u] \in {row[u], Renewed(row[u], "started")}
      /\ \A v \in Utterances : v # u => row'[v] = row[v]
  BY <1>1, AnswerRow
<1>3. /\ RunShape(run) /\ gens \in [Utterances -> GenRecords]
      /\ row \in [Utterances -> ClaimRecords] /\ InTurn(u, gens[u], run)
  BY <1>1, AnsweredSound
<1>4. At(u, {"start"}) /\ run'.pc = "drain"
  BY <1>1, <1>3, ContinueFields DEF InTurn, At
<1>5. ASSUME NEW h, Leaves(u, k, h, gens[u].pc)
      PROVE  CallAnswered(u, gens[u], h, row[u], row'[u])
  BY <1>1, <1>2, <1>4, <1>5 DEF Leaves, CallAnswered
<1>6. /\ Leaves(u, k, Granted(u, k, "started"), gens[u].pc)
      /\ Leaves(u, k, [Granted(u, k, "started") EXCEPT !.pc = "calling"], "calling")
      /\ Leaves(u, k, [Granted(u, k, "started") EXCEPT !.refused = TRUE], gens[u].pc)
      /\ Leaves(u, k, StoreRefuses(u, k), gens[u].pc)
  BY <1>1, AnswerLeaves
<1>7. CASE StartPermitted(u, k) /\ operation = u
  <2> DEFINE h == [Granted(u, k, "started") EXCEPT !.pc = "calling"]
  <2>1. /\ gens' = With(u, h) /\ generating' = TRUE /\ operation' = u
        /\ row'[u] = Renewed(row[u], "started")
    BY <1>3, <1>7, RelayAssumption DEF StartPermitted, StoreGrants
  <2>2. Leaves(u, k, h, "calling")
    BY <1>6
  <2> HIDE DEF h
  <2>3. gens'[u] = h /\ \A v \in Utterances : v # u => gens'[v] = gens[v]
    BY <1>3, <2>1 DEF With
  <2>4. Permitted(u)
    BY <1>1, <1>2, <1>4, <1>7, <2>1, <2>2, <2>3 DEF Permitted, Leaves, Others
  <2>5. QED
    BY <2>4 DEF GensStep
<1>8. CASE StartPermitted(u, k) /\ operation # u
  <2>1. Ended(With(u, Granted(u, k, "started")))
    BY <1>8, FinishEnds DEF StartPermitted
  <2>2. QED
    BY <1>2, <1>5, <1>6, <2>1, AnswerGens
<1>9. CASE StartConsumed(u, k)
  <2>1. Ended(With(u, [Granted(u, k, "started") EXCEPT !.refused = TRUE]))
    BY <1>9, FinishEnds DEF StartConsumed
  <2>2. QED
    BY <1>2, <1>5, <1>6, <2>1, AnswerGens
<1>10. CASE StartFailed(u, k)
  <2>1. \/ Ended(With(u, StoreRefuses(u, k)))
        \/ /\ gens' = With(u, StoreRefuses(u, k))
           /\ operation' = operation /\ generating' = generating
    BY <1>10, FinishEnds DEF StartFailed
  <2>2. QED
    BY <1>2, <1>5, <1>6, <2>1, AnswerGens
<1>11. QED
  BY <1>7, <1>8, <1>9, <1>10

LEMMA ReleaseGens ==
  ASSUME IInv, NEW u \in Utterances, NEW k \in 1..Len(gens[u].ops), ReleaseAnswered(u, k)
  PROVE  GensStep
<1>1. /\ gens[u].ops[k].op = "release" /\ gens[u].ops[k].claim # NoClaim
      /\ StoreGrants(u, k, "released") \/ StoreFails(u, k, "released")
      /\ operation' = operation /\ generating' = generating
  BY DEF ReleaseAnswered, Answered
<1>2. /\ row'[u] \in {row[u], Renewed(row[u], "released")}
      /\ \A v \in Utterances : v # u => row'[v] = row[v]
  BY <1>1, AnswerRow
<1>3. ASSUME NEW h, Leaves(u, k, h, gens[u].pc)
      PROVE  CallAnswered(u, gens[u], h, row[u], row'[u])
  BY <1>1, <1>2, <1>3 DEF Leaves, CallAnswered
<1>4. /\ Leaves(u, k, [Granted(u, k, "released") EXCEPT !.claim = gens[u].claim], gens[u].pc)
      /\ Leaves(u, k, StoreRefuses(u, k), gens[u].pc)
  BY <1>1, AnswerLeaves
<1>5. \/ gens' = With(u, [Granted(u, k, "released") EXCEPT !.claim = gens[u].claim])
      \/ gens' = With(u, StoreRefuses(u, k))
  BY DEF ReleaseAnswered
<1>6. QED
  BY <1>1, <1>2, <1>3, <1>4, <1>5, AnswerGens

LEMMA CompleteGens ==
  ASSUME IInv, NEW u \in Utterances, NEW k \in 1..Len(gens[u].ops), CompleteAnswered(u, k)
  PROVE  GensStep
<1>1. /\ gens[u].ops[k].op = "complete" /\ gens[u].ops[k].claim # NoClaim
      /\ StoreGrants(u, k, "completed") \/ StoreFails(u, k, "completed")
      /\ operation' = operation /\ generating' = generating
  BY DEF CompleteAnswered, Answered
<1>2. /\ row'[u] \in {row[u], Renewed(row[u], "completed")}
      /\ \A v \in Utterances : v # u => row'[v] = row[v]
  BY <1>1, AnswerRow
<1>3. gens \in [Utterances -> GenRecords]
  BY DEF IInv, Sound, Shapes
<1>4. ASSUME NEW h, Leaves(u, k, h, "over"), NEW kind, Told(With(u, h), u, kind)
      PROVE  GensStep
  <2>1. CallAnswered(u, gens[u], h, row[u], row'[u])
    BY <1>1, <1>2, <1>4 DEF Leaves, CallAnswered
  <2>2. With(u, h) \in [Utterances -> GenRecords]
    BY <1>3, <1>4 DEF With, Leaves
  <2>3. gens' = With(u, h) \/ Keeps(With(u, h))
    BY <1>1, <1>4, <2>2, AppendAlike DEF Told, Keeps
  <2>4. QED
    BY <1>1, <1>2, <1>4, <2>1, <2>3, AnswerGens
<1>5. /\ Leaves(u, k, [Granted(u, k, "completed") EXCEPT !.pc = "over"], "over")
      /\ Leaves(u, k, [StoreRefuses(u, k) EXCEPT !.pc = "over"], "over")
  BY <1>1, AnswerLeaves
<1>6. \/ Told(With(u, [Granted(u, k, "completed") EXCEPT !.pc = "over"]), u,
              IF gens[u].pc = "success" THEN "completed" ELSE "broken")
      \/ Told(With(u, [StoreRefuses(u, k) EXCEPT !.pc = "over"]), u, "broken")
  BY DEF CompleteAnswered
<1>7. QED
  BY <1>4, <1>5, <1>6

LEMMA RenewalGens ==
  ASSUME IInv, NEW u \in Utterances, NEW k \in 1..Len(gens[u].ops), RenewalAnswered(u, k)
  PROVE  GensStep
<1>1. gens[u].ops[k].op = "beat" /\ gens[u].ops[k].claim # NoClaim
  BY DEF RenewalAnswered, Answered
<1>2. gens \in [Utterances -> GenRecords] /\ row \in [Utterances -> ClaimRecords]
  BY DEF IInv, Sound, Shapes
<1>3. ASSUME NEW h, Leaves(u, k, h, gens[u].pc),
             row'[u] = row[u] \/
               (row[u].phase = "started" /\ row'[u] = Renewed(row[u], "started"))
      PROVE  CallAnswered(u, gens[u], h, row[u], row'[u])
  BY <1>1, <1>3 DEF Leaves, CallAnswered
<1>4. /\ Leaves(u, k, [gens[u] EXCEPT !.ops = RemoveAt(@, k)], gens[u].pc)
      /\ Leaves(u, k, Granted(u, k, "started"), gens[u].pc)
      /\ Leaves(u, k, StoreRefuses(u, k), gens[u].pc)
  BY <1>1, AnswerLeaves
<1>5. CASE /\ gens' = With(u, [gens[u] EXCEPT !.ops = RemoveAt(@, k)]) /\ row' = row
           /\ operation' = operation /\ generating' = generating
  BY <1>3, <1>4, <1>5, AnswerGens
<1>6. CASE /\ gens[u].ops[k].claim.phase = "started" /\ StoreGrants(u, k, "started")
           /\ gens' = With(u, Granted(u, k, "started"))
           /\ operation' = operation /\ generating' = generating
  <2>1. /\ row[u].phase = "started" /\ row'[u] = Renewed(row[u], "started")
        /\ \A v \in Utterances : v # u => row'[v] = row[v]
    BY <1>2, <1>6 DEF StoreGrants
  <2>2. QED
    BY <1>3, <1>4, <1>6, <2>1, AnswerGens
<1>7. CASE /\ gens[u].ops[k].claim.phase = "started" /\ StoreFails(u, k, "started")
           /\ SecurityFailure(With(u, StoreRefuses(u, k)))
  <2> DEFINE h == StoreRefuses(u, k)
  <2>1. /\ row'[u] = row[u] \/ (row[u].phase = "started" /\ row'[u] = Renewed(row[u], "started"))
        /\ \A v \in Utterances : v # u => row'[v] = row[v]
    BY <1>2, <1>7 DEF StoreFails, Fails
  <2>2. Leaves(u, k, h, gens[u].pc)
    BY <1>4
  <2> HIDE DEF h
  <2>3. With(u, h) \in [Utterances -> GenRecords]
    BY <1>2, <2>2 DEF With, Leaves
  <2>4. SecurityFailure(With(u, h))
    BY <1>7 DEF h
  <2>5. Ended(With(u, h)) \/ Keeps(With(u, h))
    BY <2>3, <2>4, FailureGens
  <2>6. QED
    BY <1>3, <2>1, <2>2, <2>5, AnswerGens
<1>8. QED
  BY <1>5, <1>6, <1>7 DEF RenewalAnswered

\* What every step does to the generations and their rows.
LEMMA EveryGensStep == ASSUME IInv, Shape, [Next]_vars PROVE GensStep
<1>1. ASSUME NEW u \in Utterances, StoreStep(u) PROVE GensStep
  <2>1. PICK k \in 1..Len(gens[u].ops) :
          \/ CallStore(u, k) \/ StartPermitted(u, k) \/ StartConsumed(u, k)
          \/ StartFailed(u, k) \/ ReleaseAnswered(u, k) \/ CompleteAnswered(u, k)
          \/ RenewalAnswered(u, k)
    BY <1>1 DEF StoreStep
  <2>2. QED
    BY <2>1, CallGens, StartGens, ReleaseGens, CompleteGens, RenewalGens
<1>2. CASE DrainStep
  BY <1>2, DrainGens, ClaimGens DEF DrainStep
<1>3. QED
  BY <1>1, <1>2, MessageGens, RestGens, ProviderGens, HeartbeatGens, SettleGens DEF Next

(***************************************************************************)
(* An utterance begins once                                                *)
(***************************************************************************)
Queued(u) == \E k \in 1..Len(tasks) : tasks[k] = StartOf(u)
Opens(u) == run.pc \in MessageWork /\ run.task = StartOf(u)
MayBegin(u) == u \notin client.used \/ Queued(u) \/ Opens(u)

\* no final transcript of u was authorized yet
Untried(u) ==
  MayBegin(u) \/ (active.u = u /\ ~active.final) \/ At(u, {"classify", "authorize"})

\* its generation has not begun
Bare(g, c) == c = NoClaim /\ (\A kinds : ~Has(g, kinds)) /\ g.pc = "none" /\ ~g.refused

ClientShape ==
  client = [stage |-> client.stage, u |-> client.u, used |-> client.used, read |-> client.read]

\* one utterance.start of u at most is on its way
OneStart(u) ==
  /\ \A j, k \in 1..Len(tasks) : tasks[j] = StartOf(u) /\ tasks[k] = StartOf(u) => j = k
  /\ Opens(u) => ~Queued(u)
  /\ Queued(u) \/ Opens(u) => u \in client.used

Once(u) ==
  /\ OneStart(u)
  /\ MayBegin(u) => active.u # u /\ ~At(u, EventWork)
  /\ Untried(u) => Bare(gens[u], row[u])

\* What a step does to the client.
ClientKeeps == client' = client \/ ClientReads

LEMMA ClientStays ==
  ASSUME [Next]_vars PROVE (\E m \in Messages : ClientSends(m)) \/ ClientKeeps
<1> USE DEF ClientKeeps
<1>1. CASE ClientStep
  BY <1>1 DEF ClientStep
<1>2. CASE MessageStep
  BY <1>2 DEF MessageStep, SkipMessage, AudioNeedsGrant, StoreAnswers, AlreadyTerminal,
     SessionStart, NotYetOpen, Malformed, UtteranceStart, Binary, UtteranceCommit,
     UtteranceCancel, SessionEnd, SessionEnded, BeginMessage, Handling
<1>3. CASE DrainStep
  BY <1>3 DEF DrainStep, BeginDrain, SkipDrain, DrainOverflow, TakePartial, TakeFinal, Taking,
     DenyFinal, TakeFailure, TakeResult, EndDrain, ClassifierAnswers, ClaimAcquired,
     ClaimRefused, ClaimReleased
<1>4. CASE HeartbeatDue \/ BeginHeartbeat \/ HeartbeatAnswered \/ SocketClosed \/ Revoked
  BY <1>4 DEF HeartbeatDue, BeginHeartbeat, HeartbeatAnswered, SocketClosed, Revoked
<1>5. ASSUME NEW u \in Utterances, ProviderStep(u) PROVE client' = client
  BY <1>5 DEF ProviderStep, TranscriptionFailed, TranscriptionEvent
<1>6. ASSUME NEW u \in Utterances, StoreStep(u) PROVE client' = client
  BY <1>6 DEF StoreStep, CallStore, StartPermitted, StartConsumed, StartFailed,
     ReleaseAnswered, CompleteAnswered, RenewalAnswered
<1>7. ASSUME NEW u \in Utterances, NEW result, GenerationSettles(u, result)
      PROVE  client' = client
  BY <1>7 DEF GenerationSettles
<1>8. CASE UNCHANGED vars
  BY <1>8 DEF vars
<1>9. QED
  BY <1>1, <1>2, <1>3, <1>4, <1>5, <1>6, <1>7, <1>8 DEF Next

LEMMA KeptClient ==
  ASSUME ClientShape, ClientKeeps PROVE ClientShape' /\ client'.used = client.used
BY DEF ClientKeeps, ClientReads, ClientShape

LEMMA SentClient ==
  ASSUME ClientShape, NEW m \in Messages, ClientSends(m)
  PROVE  /\ ClientShape' /\ client.used \subseteq client'.used
         /\ \A u : m # StartOf(u) => (u \in client'.used => u \in client.used)
         /\ \A u : m = StartOf(u) => u \notin client.used /\ u \in client'.used
<1>1. client' = [client EXCEPT
       !.stage = NextStage(m),
       !.u = IF m.kind = "utterance.start" THEN m.u ELSE @,
       !.used = IF m.kind = "utterance.start" THEN @ \cup {m.u} ELSE @]
  BY DEF ClientSends
<1>2. /\ ClientShape'
      /\ client'.used = IF m.kind = "utterance.start" THEN client.used \cup {m.u} ELSE client.used
  BY <1>1 DEF ClientShape
<1>3. m = Message(m.kind, m.u)
  BY DEF Messages, Message, Said
<1>4. QED
  BY <1>2, <1>3 DEF ClientSends, StartOf, Message

\* What the queue of work still holds, the queue of work has held.
LEMMA KeptTasks ==
  ASSUME tasks \in Seq(Work), TasksKeep(tasks, tasks')
  PROVE  /\ \A u : Queued(u)' => Queued(u)
         /\ \A u : (\A j, k \in 1..Len(tasks) :
                      tasks[j] = StartOf(u) /\ tasks[k] = StartOf(u) => j = k)
                   => \A j, k \in 1..Len(tasks') :
                        tasks'[j] = StartOf(u) /\ tasks'[k] = StartOf(u) => j = k
<1> USE DEF Queued
<1>1. CASE tasks' = tasks \/ tasks' = <<>>
  BY <1>1
<1>2. ASSUME NEW w \in Work, tasks' = Append(tasks, w), \A u : w # StartOf(u)
      PROVE  \A u, k : k \in 1..Len(tasks') /\ tasks'[k] = StartOf(u)
                         => k \in 1..Len(tasks) /\ tasks[k] = StartOf(u)
  <2>1. \A k \in 1..Len(tasks') : k = Len(tasks) + 1 \/ (k \in 1..Len(tasks) /\ tasks'[k] = tasks[k])
    BY <1>2
  <2>2. tasks'[Len(tasks) + 1] = w
    BY <1>2
  <2>3. QED
    BY <1>2, <2>1, <2>2
<1>3. CASE tasks # <<>> /\ tasks' = Tail(tasks)
  <2>1. \A k \in 1..Len(tasks') : k \in Int /\ k + 1 \in 1..Len(tasks) /\ tasks'[k] = tasks[k + 1]
    BY <1>3
  <2>2. ASSUME NEW u, Queued(u)' PROVE Queued(u)
    BY <2>1, <2>2
  <2>3. ASSUME NEW u,
               \A j, k \in 1..Len(tasks) : tasks[j] = StartOf(u) /\ tasks[k] = StartOf(u) => j = k,
               NEW j \in 1..Len(tasks'), NEW k \in 1..Len(tasks'),
               tasks'[j] = StartOf(u), tasks'[k] = StartOf(u)
        PROVE  j = k
    <3>1. j + 1 = k + 1
      BY <2>1, <2>3
    <3>2. QED
      BY <2>1, <3>1
  <2>4. QED
    BY <2>2, <2>3
<1>4. QED
  BY <1>1, <1>2, <1>3 DEF TasksKeep

LEMMA SentTasks ==
  ASSUME tasks \in Seq(Work), NEW m, tasks' = Append(tasks, m)
  PROVE  /\ \A u : m # StartOf(u) => (Queued(u)' => Queued(u))
         /\ \A u, j : j \in 1..Len(tasks') /\ tasks'[j] = StartOf(u)
                        => \/ j \in 1..Len(tasks) /\ tasks[j] = StartOf(u)
                           \/ j = Len(tasks) + 1 /\ m = StartOf(u)
<1>1. \A k \in 1..Len(tasks') : k = Len(tasks) + 1 \/ (k \in 1..Len(tasks) /\ tasks'[k] = tasks[k])
  OBVIOUS
<1>2. tasks'[Len(tasks) + 1] = m
  OBVIOUS
<1>3. QED
  BY <1>1, <1>2 DEF Queued

\* The utterance.start that the host takes up was the only one.
LEMMA TakenStart ==
  ASSUME tasks \in Seq(Work), TakesWork, NEW u, OneStart(u), Opens(u)'
  PROVE  Queued(u) /\ ~Queued(u)'
<1>1. tasks # <<>> /\ tasks' = Tail(tasks) /\ Head(tasks) = StartOf(u)
  BY DEF TakesWork, Opens
<1>2. 1 \in 1..Len(tasks) /\ tasks[1] = StartOf(u)
  BY <1>1
<1>3. \A k \in 1..Len(tasks') : k + 1 \in 1..Len(tasks) /\ k + 1 # 1 /\ tasks'[k] = tasks[k + 1]
  BY <1>1
<1>4. QED
  BY <1>2, <1>3 DEF OneStart, Queued

LEMMA OldStart ==
  ASSUME RunStep, NEW u, Opens(u)' PROVE Opens(u) \/ TakesWork
BY DEF RunStep, Opens, Asks, Drains, Idle, MessageWork, DrainWork, EventWork

LEMMA OneStartStays ==
  ASSUME Shape, ClientShape, RunStep, [Next]_vars, NEW u, OneStart(u)
  PROVE  /\ OneStart(u)' /\ (MayBegin(u)' => MayBegin(u)) /\ client.used \subseteq client'.used
         /\ Queued(u)' => Queued(u) \/ run' = run
<1>1. tasks \in Seq(Work)
  BY DEF Shape
<1>2. CASE \E m \in Messages : ClientSends(m)
  <2>1. PICK m \in Messages : ClientSends(m)
    BY <1>2
  <2>2. tasks' = Append(tasks, m) /\ run' = run
    BY <2>1 DEF ClientSends
  <2>3. CASE m = StartOf(u)
    <3>1. u \notin client.used /\ u \in client'.used /\ client.used \subseteq client'.used
      BY <2>1, <2>3, SentClient
    <3>2. ~Queued(u) /\ ~Opens(u) /\ MayBegin(u) /\ ~Opens(u)'
      BY <2>2, <3>1 DEF OneStart, MayBegin, Opens
    <3>3. \A j \in 1..Len(tasks') : tasks'[j] = StartOf(u) => j = Len(tasks) + 1
      BY <1>1, <2>2, <3>2, SentTasks DEF Queued
    <3>4. QED
      BY <2>2, <3>1, <3>2, <3>3 DEF OneStart
  <2>4. CASE m # StartOf(u)
    <3>1. client.used \subseteq client'.used /\ (u \in client'.used => u \in client.used)
      BY <2>1, <2>4, SentClient
    <3>2. /\ Queued(u)' => Queued(u)
          /\ \A j \in 1..Len(tasks') : tasks'[j] = StartOf(u)
                => j \in 1..Len(tasks) /\ tasks[j] = StartOf(u)
      BY <1>1, <2>2, <2>4, SentTasks
    <3>3. Opens(u)' <=> Opens(u)
      BY <2>2 DEF Opens
    <3>4. QED
      BY <2>2, <3>1, <3>2, <3>3 DEF OneStart, MayBegin
  <2>5. QED
    BY <2>3, <2>4
<1>3. CASE ~ \E m \in Messages : ClientSends(m)
  <2>1. TasksKeep(tasks, tasks') /\ client'.used = client.used
    BY <1>3, TasksStep, ClientStays, KeptClient
  <2>2. /\ Queued(u)' => Queued(u)
        /\ \A j, k \in 1..Len(tasks') : tasks'[j] = StartOf(u) /\ tasks'[k] = StartOf(u) => j = k
    BY <1>1, <2>1, KeptTasks DEF OneStart
  <2>3. Opens(u)' => (Opens(u) \/ Queued(u)) /\ ~Queued(u)'
    BY <1>1, <2>2, OldStart, TakenStart DEF OneStart
  <2>4. QED
    BY <2>1, <2>2, <2>3 DEF OneStart, MayBegin
<1>4. QED
  BY <1>2, <1>3

\* An utterance that begins was asked for by the client, and no more is.
LEMMA BeginsOpens ==
  ASSUME Shape, Begins, NEW u, u = run.task.u PROVE Opens(u) /\ run' = Idle
<1>1. run.task = Message(run.task.kind, run.task.u)
  BY DEF Shape, Work, Message
<1>2. QED
  BY <1>1 DEF Begins, Opens, StartOf

LEMMA EventWas ==
  ASSUME RunStep, NEW u, At(u, EventWork)'
  PROVE  \/ run' = run
         \/ /\ run.pc = "drain" /\ run'.pc = "classify" /\ active.u = u /\ ~active.final
         \/ At(u, {"classify"}) /\ run'.pc = "authorize"
         \/ At(u, {"authorize"}) /\ run'.pc \in {"start", "release"}
BY DEF RunStep, At, EventWork, Idle, TakesWork, Asks, Drains, MessageWork, DrainWork

LEMMA BegunOnce ==
  ASSUME Shape, ClientShape, RunStep, CoreStep, [Next]_vars, NEW u \in Utterances, Once(u)
  PROVE  MayBegin(u)' => active'.u # u /\ ~At(u, EventWork)'
<1>1. SUFFICES ASSUME MayBegin(u)' PROVE active'.u # u /\ ~At(u, EventWork)'
  OBVIOUS
<1>2. /\ MayBegin(u) /\ OneStart(u) /\ OneStart(u)' /\ client.used \subseteq client'.used
      /\ Queued(u)' => Queued(u) \/ run' = run
  BY <1>1, OneStartStays DEF Once
<1>3. active.u # u /\ ~At(u, EventWork)
  BY <1>2 DEF Once
<1>4. ~At(u, EventWork)'
  BY <1>3, EventWas DEF At, EventWork
<1>5. ASSUME active'.u = u PROVE FALSE
  <2>1. u # None /\ NoUtterance.u = None
    BY RelayAssumption DEF NoUtterance
  <2>2. Begins /\ run.task.u = u
    BY <1>3, <1>5, <2>1, ActiveChanges
  <2>3. Opens(u) /\ run' = Idle
    BY <2>2, BeginsOpens
  <2>4. run.pc # "idle" /\ Idle.pc = "idle"
    BY <2>3 DEF Opens, MessageWork, Idle
  <2>5. ~Queued(u) /\ u \in client.used
    BY <1>2, <2>3 DEF OneStart
  <2>6. ~Queued(u)' /\ ~Opens(u)' /\ u \in client'.used
    BY <1>2, <2>3, <2>4, <2>5 DEF Opens, MessageWork
  <2>7. QED
    BY <1>1, <2>6 DEF MayBegin
<1>6. QED
  BY <1>4, <1>5

\* An utterance that is untried was so before, and its final transcript has
\* not left the drain.
LEMMA UntriedWas ==
  ASSUME Shape, ClientShape, RunStep, CoreStep, [Next]_vars, NEW u \in Utterances, Once(u),
         Untried(u)'
  PROVE  Untried(u) /\ (At(u, EventWork) => At(u, {"classify", "authorize"})')
<1>1. u # None /\ NoUtterance.u = None
  BY RelayAssumption DEF NoUtterance
<1>2. CASE MayBegin(u)'
  BY <1>2, OneStartStays DEF Once, Untried
<1>3. CASE active'.u = u /\ ~active'.final
  <2>1. CASE Begins
    <3>1. Opens(u) \/ (active.u = u /\ ~active.final)
      BY <1>1, <1>3, <2>1, ActiveChanges, BeginsOpens
    <3>2. run.pc \notin EventWork
      BY <2>1 DEF Begins, MessageWork, EventWork
    <3>3. QED
      BY <3>1, <3>2 DEF Untried, MayBegin, At
  <2>2. CASE ~Begins
    <3>1. active.u = u /\ ~active.final
      BY <1>1, <1>3, <2>2, ActiveChanges
    <3>2. QED
      BY <3>1 DEF Untried, Shape, NoSecondFinal
  <2>3. QED
    BY <2>1, <2>2
<1>4. CASE At(u, {"classify", "authorize"})'
  <2>1. At(u, EventWork)'
    BY <1>4 DEF At, EventWork
  <2>2. Untried(u)
    BY <1>4, <2>1, EventWas DEF Untried, At
  <2>3. QED
    BY <1>4, <2>2
<1>5. QED
  BY <1>2, <1>3, <1>4 DEF Untried

\* What the end of an utterance leaves of a generation g, and no other step.
AfterStep(u, g, h) ==
  /\ h.pc = g.pc /\ h.refused = g.refused
  /\ \/ LessOps(g, h)
     \/ operation = u /\ ~generating /\ MoreOps(g, h, "release")

LEMMA EndedGens ==
  ASSUME NEW G \in [Utterances -> GenRecords], Ended(G), NEW u \in Utterances
  PROVE  AfterStep(u, G[u], gens'[u])
<1> DEFINE g == IF u = token THEN [G[u] EXCEPT !.aborted = TRUE] ELSE G[u]
<1>1. /\ g \in GenRecords /\ g.ops = G[u].ops /\ g.pc = G[u].pc
      /\ g.refused = G[u].refused
  BY DEF GenRecords
<1>2. gens'[u] = IF active.u # None /\ Releases(G, u) THEN Enqueued(g, "release") ELSE g
  BY DEF Ended, Abandoned
<1> HIDE DEF g
<1>3. CASE active.u # None /\ Releases(G, u)
  <2>1. /\ MoreOps(g, gens'[u], "release") /\ gens'[u].pc = g.pc /\ gens'[u].refused = g.refused
    BY <1>1, <1>2, <1>3, EnqueuedMore
  <2>2. MoreOps(G[u], gens'[u], "release")
    BY <1>1, <2>1 DEF MoreOps, Has, Twice
  <2>3. QED
    BY <1>1, <1>3, <2>1, <2>2 DEF AfterStep, Releases
<1>4. CASE ~(active.u # None /\ Releases(G, u))
  BY <1>1, <1>2, <1>4, SameOps DEF AfterStep
<1>5. QED
  BY <1>3, <1>4

LEMMA KeptGens ==
  ASSUME NEW G \in [Utterances -> GenRecords], Keeps(G), NEW u \in Utterances
  PROVE  AfterStep(u, G[u], gens'[u]) /\ LessOps(G[u], gens'[u])
BY SameOps DEF Keeps, Alike, AfterStep

LEMMA LessBare ==
  ASSUME NEW g, NEW c, NEW h, Bare(g, c), LessOps(g, h), h.pc = g.pc, h.refused = g.refused
  PROVE  Bare(h, c)
BY DEF Bare, LessOps

\* An untried utterance has no generation, whatever a step does.
LEMMA BareStays ==
  ASSUME IInv, Shape, ClientShape, RunStep, CoreStep, GensStep, [Next]_vars,
         NEW u \in Utterances, Once(u), Untried(u)'
  PROVE  Bare(gens'[u], row'[u])
<1>1. Untried(u) /\ (At(u, EventWork) => At(u, {"classify", "authorize"})')
  BY UntriedWas
<1>2. Bare(gens[u], row[u])
  BY <1>1 DEF Once
<1>3. operation # u
  <2>1. GenSound(u, gens[u], row[u], operation, generating, run)
    BY DEF IInv, Sound
  <2>2. QED
    BY <1>2, <2>1 DEF GenSound, Busy, Bare
<1>4. ~(At(u, {"authorize"}) /\ run'.pc \in {"start", "release", "drain"})
  BY <1>1 DEF At, EventWork
<1>5. ~At(u, {"start", "release"}) \/ run'.pc \notin {"drain"}
  BY <1>1 DEF At, EventWork
<1>6. ASSUME NEW k \in 1..Len(gens[u].ops) PROVE FALSE
  <2>1. Has(gens[u], {gens[u].ops[k].op})
    BY DEF Has
  <2>2. QED
    BY <1>2, <2>1 DEF Bare
<1>7. CASE \E v \in Utterances : Acquired(v) \/ Permitted(v)
  <2>1. PICK v \in Utterances : Acquired(v) \/ Permitted(v)
    BY <1>7
  <2>2. v # u
    BY <1>4, <1>5, <2>1 DEF Acquired, Permitted, At
  <2>3. gens'[u] = gens[u] /\ row'[u] = row[u]
    BY <2>1, <2>2 DEF Acquired, Permitted, Others
  <2>4. QED
    BY <1>2, <2>3
<1>8. ASSUME NEW G \in [Utterances -> GenRecords], Ended(G) \/ Keeps(G),
             Treated(u, gens[u], G[u], row[u], row'[u])
      PROVE  Bare(gens'[u], row'[u])
  <2>1. ~ClaimTold(u, gens[u], G[u], row[u], row'[u])
    BY <1>4 DEF ClaimTold, At
  <2>2. ~GivenBack(u, gens[u], G[u], row[u], row'[u])
    BY <1>5 DEF GivenBack, At
  <2>3. ~CallAnswered(u, gens[u], G[u], row[u], row'[u])
    BY <1>6 DEF CallAnswered
  <2>4. ~OpComes(u, gens[u], G[u], row[u], row'[u])
    BY <1>2, <1>3 DEF OpComes, Bare
  <2>5. Spared(gens[u], G[u], row[u], row'[u])
    BY <1>8, <2>1, <2>2, <2>3, <2>4 DEF Treated
  <2>6. AfterStep(u, G[u], gens'[u])
    BY <1>8, EndedGens, KeptGens
  <2>7. Bare(G[u], row'[u]) /\ LessOps(G[u], gens'[u])
    BY <1>2, <1>3, <2>5, <2>6, LessBare DEF Spared, AfterStep
  <2>8. QED
    BY <2>6, <2>7, LessBare DEF AfterStep
<1>9. QED
  BY <1>7, <1>8 DEF GensStep

BegunAtMostOnce == ClientShape /\ \A u \in Utterances : Once(u)

LEMMA OnceStays ==
  ASSUME IInv, Shape, BegunAtMostOnce, [Next]_vars PROVE BegunAtMostOnce'
<1>1. RunStep /\ CoreStep /\ GensStep
  BY ShapeSources, EveryRunStep, EveryCoreStep, EveryGensStep
<1>2. ClientShape'
  BY ClientStays, KeptClient, SentClient DEF BegunAtMostOnce
<1>3. ASSUME NEW u \in Utterances PROVE Once(u)'
  <2>1. ClientShape /\ Once(u) /\ OneStart(u)
    BY DEF BegunAtMostOnce, Once
  <2>2. OneStart(u)'
    BY <1>1, <2>1, OneStartStays
  <2>3. MayBegin(u)' => active'.u # u /\ ~At(u, EventWork)'
    BY <1>1, <2>1, BegunOnce
  <2>4. Untried(u)' => Bare(gens'[u], row'[u])
    BY <1>1, <2>1, BareStays
  <2>5. QED
    BY <2>2, <2>3, <2>4 DEF Once
<1>4. QED
  BY <1>2, <1>3 DEF BegunAtMostOnce

LEMMA InitOnce == ASSUME Init PROVE BegunAtMostOnce
<1>1. ClientShape
  BY DEF Init, ClientShape
<1>2. ASSUME NEW u \in Utterances PROVE Once(u)
  <2>1. tasks = <<>> /\ run.pc = "idle" /\ active.u = None /\ Len(tasks) = 0
    BY DEF Init, Idle, NoUtterance
  <2>2. gens[u] = NoGeneration /\ row[u] = NoClaim
    BY DEF Init
  <2>3. Bare(gens[u], row[u])
    BY <2>2 DEF Bare, NoGeneration, Has
  <2>4. QED
    BY <2>1, <2>3, RelayAssumption
    DEF Once, OneStart, MayBegin, Queued, Opens, At, MessageWork, EventWork
<1>3. QED
  BY <1>1, <1>2 DEF BegunAtMostOnce

(***************************************************************************)
(* The life of a generation                                                *)
(***************************************************************************)
\* A generation is started or given back before the service is called for it,
\* and completed once, after the service has answered.
Alive(u, g, c, op, gen) ==
  /\ Has(g, {"start", "release"}) => g.pc = "none"
  /\ Has(g, {"complete"}) => g.pc \in {"success", "failure"}
  /\ ~Twice(g)
  /\ Has(g, {"release"}) => op # u
  /\ op = u /\ ~gen => g.pc = "none"
  /\ c.phase = "completed" => g.pc = "over"

Lives ==
  \A u \in Utterances :
    /\ Alive(u, gens[u], row[u], operation, generating)
    /\ At(u, {"release"}) => ~gens[u].refused

LEMMA ClaimPhases ==
  /\ Claimed.phase = "claimed" /\ NoClaim.phase = "none"
  /\ \A c, p : Renewed(c, p).phase = p
BY DEF Claimed, NoClaim, Renewed

LEMMA HasOp ==
  ASSUME NEW g, NEW k \in 1..Len(g.ops), NEW kinds, g.ops[k].op \in kinds PROVE Has(g, kinds)
BY DEF Has

LEMMA HasMore ==
  ASSUME NEW g, NEW a, NEW b, Has(g, {a, b}) PROVE Has(g, {a}) \/ Has(g, {b})
BY DEF Has

LEMMA HasOne ==
  ASSUME NEW g, NEW a, NEW b, Has(g, {a}) PROVE Has(g, {a, b}) /\ Has(g, {b, a})
BY DEF Has

LEMMA BareAlive ==
  ASSUME NEW u, NEW g, NEW c, Bare(g, c), NEW op, NEW gen PROVE Alive(u, g, c, op, gen)
<1>1. ~Twice(g)
  BY DEF Bare, Has, Twice
<1>2. QED
  BY <1>1, ClaimPhases DEF Bare, Alive

\* Nothing but the answers and the phases of the claim ends a life.
LEMMA LessAlive ==
  ASSUME NEW u, NEW g, NEW h, NEW c, NEW d, NEW op, NEW gen,
         Alive(u, g, c, op, gen), LessOps(g, h), h.pc = g.pc,
         d = c \/ d.phase # "completed"
  PROVE  Alive(u, h, d, op, gen)
BY DEF Alive, LessOps

LEMMA TreatedAlive ==
  ASSUME NEW u, NEW g, NEW h, NEW c, NEW d,
         Alive(u, g, c, operation, generating), Treated(u, g, h, c, d),
         At(u, {"authorize"}) => Bare(g, c)
  PROVE  Alive(u, h, d, operation, generating)
<1>1. CASE Spared(g, h, c, d) \/ ClaimTold(u, g, h, c, d) \/ GivenBack(u, g, h, c, d)
  BY <1>1, LessAlive, ClaimPhases DEF Spared, ClaimTold, GivenBack
<1>2. CASE CallAnswered(u, g, h, c, d)
  <2>1. PICK k \in 1..Len(g.ops) :
          /\ Drops(g, h, k)
          /\ \/ h.pc = g.pc /\ (d = c \/ d.phase # "completed")
             \/ /\ g.ops[k].op = "complete" /\ h.pc = "over"
                /\ d \in {c, Renewed(c, "completed")}
    BY <1>2, ClaimPhases DEF CallAnswered
  <2>2. CASE h.pc = g.pc /\ (d = c \/ d.phase # "completed")
    BY <2>1, <2>2, LessAlive DEF Drops
  <2>3. CASE g.ops[k].op = "complete" /\ h.pc = "over"
    <3>1. Has(g, {"complete"}) /\ g.pc \in {"success", "failure"}
      BY <2>3, HasOp DEF Alive
    <3>2. ~Has(h, {"complete"})
      BY <2>1, <2>3 DEF Alive, Drops
    <3>3. ~Has(h, {"start", "release"}) /\ ~Has(h, {"release"})
      BY <2>1, <3>1, HasOne DEF Alive, Drops, LessOps
    <3>4. QED
      BY <2>1, <2>3, <3>1, <3>2, <3>3 DEF Alive, Drops, LessOps
  <2>4. QED
    BY <2>1, <2>2, <2>3
<1>3. CASE OpComes(u, g, h, c, d)
  <2>1. CASE g.pc = "calling" /\ MoreOps(g, h, "complete") /\ h.pc \in {"success", "failure"}
    <3>1. ~Has(g, {"start", "release"}) /\ ~Has(g, {"complete"}) /\ ~Has(g, {"release"})
      BY <2>1, HasOne DEF Alive
    <3>2. ~Has(h, {"start", "release"}) /\ ~Has(h, {"release"}) /\ ~Twice(h)
      BY <2>1, <3>1 DEF Alive, MoreOps
    <3>3. QED
      BY <1>3, <2>1, <3>2 DEF Alive, OpComes
  <2>2. CASE MoreOps(g, h, "beat") /\ h.pc = g.pc
    <3>1. /\ Has(h, {"start", "release"}) => Has(g, {"start", "release"})
          /\ Has(h, {"complete"}) => Has(g, {"complete"})
          /\ Has(h, {"release"}) => Has(g, {"release"})
          /\ Twice(h) => Twice(g)
      BY <2>2 DEF MoreOps
    <3>2. QED
      BY <1>3, <2>2, <3>1 DEF Alive, OpComes
  <2>3. QED
    BY <1>3, <2>1, <2>2 DEF OpComes
<1>4. QED
  BY <1>1, <1>2, <1>3 DEF Treated

LEMMA AfterAlive ==
  ASSUME NEW u \in Utterances, NEW g, NEW h, NEW d, Alive(u, g, d, operation, generating),
         AfterStep(u, g, h),
         \/ LessOps(g, h) /\ operation' = operation /\ generating' = generating
         \/ operation' = None
  PROVE  Alive(u, h, d, operation', generating')
<1>1. CASE LessOps(g, h) /\ operation' = operation /\ generating' = generating
  BY <1>1, LessAlive DEF AfterStep
<1>2. CASE operation' = None
  <2>1. u # None
    BY RelayAssumption
  <2>2. CASE LessOps(g, h)
    BY <1>2, <2>1, <2>2 DEF Alive, AfterStep, LessOps
  <2>3. CASE operation = u /\ ~generating /\ MoreOps(g, h, "release")
    <3>1. g.pc = "none" /\ h.pc = "none"
      BY <2>3 DEF Alive, AfterStep
    <3>2. Has(h, {"complete"}) => Has(g, {"complete"})
      BY <2>3 DEF MoreOps
    <3>3. Twice(h) => Twice(g)
      BY <2>3 DEF MoreOps
    <3>4. QED
      BY <1>2, <2>1, <3>1, <3>2, <3>3 DEF Alive
  <2>4. QED
    BY <2>2, <2>3 DEF AfterStep
<1>3. QED
  BY <1>1, <1>2

\* The generation is what it is for the utterance that Acquired or Permitted
\* is about, and as before for every other.
LEMMA BegunAlive ==
  ASSUME IInv', BegunAtMostOnce, Lives, NEW v \in Utterances, Acquired(v) \/ Permitted(v),
         NEW u \in Utterances
  PROVE  Alive(u, gens'[u], row'[u], operation', generating')
<1>1. Alive(u, gens[u], row[u], operation, generating)
  BY DEF Lives
<1>2. CASE u # v
  <2>1. gens'[u] = gens[u] /\ row'[u] = row[u] /\ operation' # u
    BY <1>2 DEF Acquired, Permitted, Others
  <2>2. QED
    BY <1>1, <2>1 DEF Alive
<1>3. CASE u = v /\ Acquired(v)
  <2>1. Bare(gens[u], row[u])
    BY <1>3 DEF BegunAtMostOnce, Once, Untried, Acquired, At
  <2>2. /\ \A kinds : Has(gens'[u], kinds) => "start" \in kinds
        /\ gens'[u].pc = "none" /\ row'[u] = Claimed /\ operation' = u
    BY <1>3, <2>1 DEF Acquired, MoreOps, Bare
  <2>3. ~Twice(gens'[u])
    <3>1. Twice(gens'[u]) => Has(gens'[u], {"complete"})
      BY DEF Twice, Has
    <3>2. QED
      BY <2>2, <3>1
  <2>4. ~Has(gens'[u], {"complete"}) /\ ~Has(gens'[u], {"release"})
    BY <2>2
  <2>5. QED
    BY <2>2, <2>3, <2>4, ClaimPhases DEF Alive
<1>4. CASE u = v /\ Permitted(v)
  <2>1. PICK k \in 1..Len(gens[u].ops) :
          Drops(gens[u], gens'[u], k) /\ gens[u].ops[k].op = "start"
    BY <1>4 DEF Permitted
  <2>2. Has(gens[u], {"start", "release"})
    BY <2>1, HasOp
  <2>3. gens[u].pc = "none" /\ operation = u /\ ~Has(gens[u], {"release"})
    BY <1>1, <1>4, <2>2 DEF Alive, Permitted
  <2>4. ~Has(gens'[u], {"complete"}) /\ ~Has(gens'[u], {"release"}) /\ ~Twice(gens'[u])
    BY <1>1, <2>1, <2>3 DEF Alive, Drops, LessOps
  <2>5. ~Has(gens'[u], {"start"})
    <3>1. InTurn(u, gens'[u], run')
      BY DEF IInv, Sound, GenSound
    <3>2. run'.pc # "start"
      BY <1>4 DEF Permitted
    <3>3. QED
      BY <3>1, <3>2 DEF InTurn, Has
  <2>6. ~Has(gens'[u], {"start", "release"})
    BY <2>4, <2>5, HasMore
  <2>7. generating' = TRUE /\ row'[u] = Renewed(row[u], "started")
    BY <1>4 DEF Permitted
  <2>8. QED
    BY <2>4, <2>6, <2>7, ClaimPhases DEF Alive
<1>5. QED
  BY <1>2, <1>3, <1>4

\* What every step does to the generation of u, in two stages.
Stages(u, g) ==
  /\ Treated(u, gens[u], g, row[u], row'[u]) /\ AfterStep(u, g, gens'[u])
  /\ \/ LessOps(g, gens'[u]) /\ operation' = operation /\ generating' = generating
     \/ operation' = None

LEMMA EveryStages ==
  ASSUME GensStep, NEW u \in Utterances
  PROVE  (\E g : Stages(u, g)) \/ \E v \in Utterances : Acquired(v) \/ Permitted(v)
<1>1. ASSUME NEW G \in [Utterances -> GenRecords], Ended(G) \/ Keeps(G),
             Treated(u, gens[u], G[u], row[u], row'[u])
      PROVE  Stages(u, G[u])
  <2>1. CASE Ended(G)
    BY <1>1, <2>1, EndedGens DEF Stages, Ended
  <2>2. CASE Keeps(G)
    BY <1>1, <2>2, KeptGens DEF Stages, Keeps
  <2>3. QED
    BY <1>1, <2>1, <2>2
<1>2. QED
  BY <1>1 DEF GensStep

\* The store is not asked to release what it refused, by the drain.
LEMMA ReleaseUnrefused ==
  ASSUME IInv, RunStep, GensStep, BegunAtMostOnce, Lives, NEW u \in Utterances,
         At(u, {"release"})'
  PROVE  ~gens'[u].refused
<1>1. run'.pc = "release" /\ At(u, EventWork)'
  BY DEF At, EventWork
<1>2. At(u, {"release"}) \/ At(u, {"authorize"})
  BY <1>1, EventWas DEF At
<1>3. GenSound(u, gens[u], row[u], operation, generating, run)
  BY DEF IInv, Sound
<1>4. ~gens[u].refused /\ \A k \in 1..Len(gens[u].ops) : FALSE
  <2>1. CASE At(u, {"release"})
    BY <1>3, <2>1 DEF Lives, At, GenSound, Owned, Releasing, Busy
  <2>2. CASE At(u, {"authorize"})
    <3>1. Bare(gens[u], row[u])
      BY <2>2 DEF BegunAtMostOnce, Once, Untried, At
    <3>2. ASSUME NEW k \in 1..Len(gens[u].ops) PROVE FALSE
      BY <3>1, HasOp DEF Bare
    <3>3. QED
      BY <3>1, <3>2 DEF Bare
  <2>3. QED
    BY <1>2, <2>1, <2>2
<1>5. ~ \E v \in Utterances : Acquired(v) \/ Permitted(v)
  BY <1>1 DEF Acquired, Permitted
<1>6. PICK g : Stages(u, g)
  BY <1>5, EveryStages
<1>7. g.refused = gens[u].refused
  BY <1>1, <1>4, <1>6
  DEF Stages, Treated, Spared, ClaimTold, GivenBack, CallAnswered, OpComes
<1>8. QED
  BY <1>4, <1>6, <1>7 DEF Stages, AfterStep

LEMMA LivesStay ==
  ASSUME IInv, IInv', Shape, BegunAtMostOnce, Lives, [Next]_vars PROVE Lives'
<1>1. RunStep /\ GensStep
  BY ShapeSources, EveryRunStep, EveryGensStep
<1>2. ASSUME NEW u \in Utterances
      PROVE  Alive(u, gens'[u], row'[u], operation', generating')
  <2>1. CASE \E v \in Utterances : Acquired(v) \/ Permitted(v)
    BY <2>1, BegunAlive
  <2>2. ASSUME NEW g, Stages(u, g)
        PROVE  Alive(u, gens'[u], row'[u], operation', generating')
    <3>1. Alive(u, gens[u], row[u], operation, generating)
      BY DEF Lives
    <3>2. At(u, {"authorize"}) => Bare(gens[u], row[u])
      BY DEF BegunAtMostOnce, Once, Untried, At
    <3>3. Alive(u, g, row'[u], operation, generating)
      BY <2>2, <3>1, <3>2, TreatedAlive DEF Stages
    <3>4. QED
      BY <2>2, <3>3, AfterAlive DEF Stages
  <2>3. QED
    BY <1>1, <2>1, <2>2, EveryStages
<1>3. ASSUME NEW u \in Utterances, At(u, {"release"})' PROVE ~gens'[u].refused
  BY <1>1, <1>3, ReleaseUnrefused
<1>4. QED
  BY <1>2, <1>3 DEF Lives

LEMMA InitLives == ASSUME Init PROVE Lives
<1>1. ASSUME NEW u \in Utterances PROVE Alive(u, gens[u], row[u], operation, generating)
  <2>1. gens[u] = NoGeneration /\ row[u] = NoClaim
    BY DEF Init
  <2>2. Bare(gens[u], row[u])
    BY <2>1 DEF Bare, NoGeneration, Has
  <2>3. QED
    BY <2>2, BareAlive
<1>2. run.pc = "idle"
  BY DEF Init, Idle
<1>3. QED
  BY <1>1, <1>2 DEF Lives, At

\* A completed claim stays completed.
LEMMA CompletedStays ==
  ASSUME IInv, Shape, BegunAtMostOnce, Lives, [Next]_vars, NEW u \in Utterances,
         row[u].phase = "completed"
  PROVE  row'[u] = row[u] \/ row'[u].phase = "completed"
<1>1. GensStep
  BY EveryGensStep
<1>2. Alive(u, gens[u], row[u], operation, generating)
  BY DEF Lives
<1>3. gens[u].pc = "over"
  BY <1>2 DEF Alive
<1>4. GenSound(u, gens[u], row[u], operation, generating, run)
  BY DEF IInv, Sound
<1>5. ~At(u, {"authorize"})
  <2>1. At(u, {"authorize"}) => Bare(gens[u], row[u])
    BY DEF BegunAtMostOnce, Once, Untried, At
  <2>2. QED
    BY <2>1, ClaimPhases DEF Bare
<1>6. ~At(u, {"release"})
  BY <1>4 DEF Lives, At, GenSound, Owned, Releasing
<1>7. ~Has(gens[u], {"start", "release"})
  BY <1>2, <1>3 DEF Alive
<1>8. CASE \E v \in Utterances : Acquired(v) \/ Permitted(v)
  <2>1. PICK v \in Utterances : Acquired(v) \/ Permitted(v)
    BY <1>8
  <2>2. v # u
    BY <1>5, <1>7, <2>1, HasOp DEF Acquired, Permitted
  <2>3. QED
    BY <2>1, <2>2 DEF Acquired, Permitted, Others
<1>9. ASSUME NEW g, Stages(u, g) PROVE row'[u] = row[u] \/ row'[u].phase = "completed"
  <2>1. CASE CallAnswered(u, gens[u], g, row[u], row'[u])
    BY <1>7, <2>1, HasOp, ClaimPhases DEF CallAnswered
  <2>2. CASE ~CallAnswered(u, gens[u], g, row[u], row'[u])
    BY <1>5, <1>6, <1>9, <2>2 DEF Stages, Treated, Spared, ClaimTold, GivenBack, OpComes
  <2>3. QED
    BY <2>1, <2>2
<1>10. QED
  BY <1>1, <1>8, <1>9, EveryStages

(***************************************************************************)
(* What the client is told                                                 *)
(***************************************************************************)
\* the messages that are on the wire or will be when the drain ends
Spoken == IF socket = "open" THEN wire \o run.out ELSE wire

Words ==
  /\ wire \in Seq(Work) /\ run.out \in Seq(Work)
  /\ run.pc \notin DrainWork => run.out = <<>>

\* messages about no utterance
Plain(s) == \A k \in 1..Len(s) : s[k].u = None /\ s[k].kind \in {"error", "rejected", "ready"}

Aborts(u, s) ==
  /\ active.u = u /\ active' = NoUtterance /\ run' = Idle
  /\ s = <<Message("aborted", u)>> \/ s = <<Message("aborted", u), Said("error")>>

Denies(u, s) ==
  /\ active.u = u /\ active' = NoUtterance /\ run'.pc = "drain"
  /\ ~active.final \/ At(u, {"classify"})
  /\ s = <<Message("decision", u)>>

Accepts(u, s) == At(u, {"authorize", "start"}) /\ run'.pc = "drain" /\ s = Accepted(u)

Translates(u, s) ==
  /\ active.u = u /\ active' = NoUtterance /\ token = u /\ run'.pc = "drain"
  /\ queue.head < Len(queue.events) /\ Taken.kind = "completed" /\ Taken.u = u
  /\ s = <<Message("translation", u)>>

\* what a step may say, and what it must say when it calls the service
Says(s) ==
  /\ \/ Plain(s)
     \/ \E u \in Utterances : Aborts(u, s) \/ Denies(u, s) \/ Accepts(u, s) \/ Translates(u, s)
  /\ token' \in {None, token} \/ s = Accepted(token')

\* it is kept for the end of the drain, or sent; or the socket closes
Collects(s) == wire' = wire /\ socket' = socket /\ run'.out = run.out \o s
Delivers(s) ==
  /\ Deliver(run.out \o s) /\ run'.out = <<>>
  /\ socket' = "open" => socket = "open"
Cuts(s) == s = <<>> /\ socket' # "open" /\ wire' = wire /\ run' = run

TellStep == \E s \in Seq(Work) : Says(s) /\ (Collects(s) \/ Delivers(s) \/ Cuts(s))

LEMMA PlainWords ==
  /\ Plain(<<>>) /\ <<>> \in Seq(Work)
  /\ \A k \in {"error", "rejected", "ready"} :
       Plain(<<Said(k)>>) /\ <<Said(k)>> \in Seq(Work)
<1>1. Plain(<<>>)
  BY DEF Plain
<1>2. ASSUME NEW k \in {"error", "rejected", "ready"}
      PROVE  Plain(<<Said(k)>>) /\ <<Said(k)>> \in Seq(Work)
  <2>1. Said(k) \in Work /\ Said(k).u = None /\ Said(k).kind = k
    BY MessageIsWork DEF Said, Kinds, Message
  <2>2. QED
    BY <2>1 DEF Plain
<1>3. QED
  BY <1>1, <1>2

LEMMA CalmTells ==
  ASSUME Words, wire' = wire, socket' = socket, run'.out = run.out, token' \in {None, token}
  PROVE  TellStep
<1>1. run.out \o <<>> = run.out
  BY DEF Words
<1>2. Says(<<>>) /\ Collects(<<>>)
  BY <1>1, PlainWords DEF Says, Collects
<1>3. QED
  BY <1>2, PlainWords DEF TellStep

LEMMA CutTells ==
  ASSUME wire' = wire, socket' # "open", run' = run, token' \in {None, token} PROVE TellStep
<1>1. Says(<<>>) /\ Cuts(<<>>)
  BY PlainWords DEF Says, Cuts
<1>2. QED
  BY <1>1, PlainWords DEF TellStep

LEMMA WaitTells ==
  ASSUME Words, RunShape(run), NEW pc, Wait(pc), wire' = wire, socket' = socket,
         token' \in {None, token}
  PROVE  TellStep
BY WaitFields, CalmTells

LEMMA ContinueTells ==
  ASSUME RunShape(run), NEW s \in Seq(Work), Continue(s), Says(s) PROVE TellStep
<1>1. Collects(s)
  BY ContinueFields DEF Collects, Continue
<1>2. QED
  BY <1>1 DEF TellStep

LEMMA AnswerTells ==
  ASSUME Words, run.pc \notin DrainWork, NEW s \in Seq(Work), Answer(s), Says(s) PROVE TellStep
<1>1. run.out \o s = s
  BY DEF Words
<1>2. Delivers(s)
  BY <1>1 DEF Delivers, Answer, Idle
<1>3. QED
  BY <1>2 DEF TellStep

LEMMA CloseTells ==
  ASSUME NEW s \in Seq(Work), AnswerAndClose(run.out \o s), Says(s) PROVE TellStep
<1>1. Delivers(s)
  BY DEF Delivers, AnswerAndClose, Idle
<1>2. QED
  BY <1>1 DEF TellStep

LEMMA CloseQuiet ==
  ASSUME Words, run.pc \notin DrainWork, AnswerAndClose(<<>>), token' \in {None, token}
  PROVE  TellStep
<1>1. run.out \o <<>> = <<>>
  BY DEF Words
<1>2. Says(<<>>)
  BY PlainWords DEF Says
<1>3. QED
  BY <1>1, <1>2, CloseTells, PlainWords

\* the words with which an utterance is aborted
Aborted(s) == s = About("aborted") \/ s = About("aborted") \o <<Said("error")>>

LEMMA AbortedSays ==
  ASSUME active.u \in Utterances \cup {None}, NEW s, Aborted(s),
         active' = NoUtterance, run' = Idle, token' = None
  PROVE  s \in Seq(Work) /\ Says(s)
<1>1. CASE active.u = None
  <2>1. s = <<>> \/ s = <<Said("error")>>
    BY <1>1 DEF Aborted, About
  <2>2. QED
    BY <2>1, PlainWords DEF Says
<1>2. CASE active.u \in Utterances
  <2>1. active.u # None
    BY <1>2, RelayAssumption
  <2>2. \/ s = <<Message("aborted", active.u)>>
        \/ s = <<Message("aborted", active.u), Said("error")>>
    BY <2>1 DEF Aborted, About
  <2>3. Message("aborted", active.u) \in Work /\ Said("error") \in Work
    BY <1>2, MessageIsWork, KnownWork DEF Kinds
  <2>4. s \in Seq(Work)
    <3>1. \A a, b \in Work : <<a>> \in Seq(Work) /\ <<a, b>> \in Seq(Work)
      OBVIOUS
    <3>2. QED
      BY <2>2, <2>3, <3>1
  <2>5. Aborts(active.u, s)
    BY <2>2 DEF Aborts
  <2>6. QED
    BY <1>2, <2>4, <2>5 DEF Says
<1>3. QED
  BY <1>1, <1>2

LEMMA RefuseTells ==
  ASSUME Words, Shape, run.pc \notin DrainWork, NEW G, NEW reason, NEW s,
         Refuse(G, reason, s),
         Aborted(s) \/ s \in {<<Said("error")>>, <<Said("rejected")>>}
  PROVE  TellStep
<1>1. active' = NoUtterance /\ token' = None /\ run' = Idle /\ AnswerAndClose(s)
  BY DEF Refuse, Terminate, FinishActive, AnswerAndClose
<1>2. active.u \in Utterances \cup {None}
  BY DEF Shape, ActiveRecords
<1>3. s \in Seq(Work) /\ Says(s)
  <2>1. CASE Aborted(s)
    BY <1>1, <1>2, <2>1, AbortedSays
  <2>2. CASE s \in {<<Said("error")>>, <<Said("rejected")>>}
    BY <1>1, <2>2, PlainWords DEF Says
  <2>3. QED
    BY <2>1, <2>2
<1>4. run.out \o s = s
  BY <1>3 DEF Words
<1>5. QED
  BY <1>1, <1>3, <1>4, CloseTells

LEMMA LossTells ==
  ASSUME Words, Shape, NEW G,
         \/ ProviderLoss(G, <<>>) /\ run.pc \notin DrainWork
         \/ ProviderLoss(G, run.out)
  PROVE  TellStep
<1> DEFINE s == About("aborted") \o <<Said("error")>>
<1>1. active.u \in Utterances \cup {None}
  BY DEF Shape, ActiveRecords
<1>2. active' = NoUtterance /\ token' = None /\ run' = Idle
  BY DEF ProviderLoss, Refuse, Terminate, FinishActive, AnswerAndClose
<1>3. Aborted(s)
  BY DEF Aborted
<1>4. s \in Seq(Work) /\ Says(s)
  BY <1>1, <1>2, <1>3, AbortedSays
<1>5. About("aborted") \in Seq(Work) /\ <<Said("error")>> \in Seq(Work)
  <2>1. About("aborted") \in Seq(Work)
    BY <1>1, MessageIsWork DEF About, Kinds
  <2>2. QED
    BY <2>1, PlainWords
<1>6. AnswerAndClose(run.out \o s)
  <2>1. \A r \in Seq(Work) : (r \o About("aborted")) \o <<Said("error")>> = r \o s
    BY <1>5
  <2>2. CASE ProviderLoss(G, <<>>) /\ run.pc \notin DrainWork
    BY <2>1, <2>2 DEF ProviderLoss, Refuse, Words
  <2>3. CASE ProviderLoss(G, run.out)
    BY <2>1, <2>3 DEF ProviderLoss, Refuse, Words
  <2>4. QED
    BY <2>2, <2>3
<1>7. QED
  BY <1>4, <1>6, CloseTells

LEMMA FailureTells ==
  ASSUME Words, Shape, run.pc \notin DrainWork, NEW G, SecurityFailure(G) PROVE TellStep
<1>1. CASE phase = "terminal"
  BY <1>1, CloseQuiet DEF SecurityFailure
<1>2. CASE phase # "terminal"
  <2>1. \/ ProviderLoss(G, <<>>)
        \/ Refuse(G, "state", <<Said("error")>>)
        \/ Refuse(G, "flow", <<Said("error")>>)
        \/ Refuse(G, "flow", About("aborted"))
    BY <1>2 DEF SecurityFailure
  <2>2. QED
    BY <2>1, LossTells, RefuseTells DEF Aborted
<1>3. QED
  BY <1>1, <1>2

LEMMA MessageTells == ASSUME Words, Shape, RunShape(run), MessageStep PROVE TellStep
<1> USE DEF DrainWork, EventWork
<1>1. CASE SkipMessage
  BY <1>1, CalmTells DEF SkipMessage, coreVars
<1>2. CASE \E m \in Messages : BeginMessage(m)
  <2>1. PICK m \in Messages : BeginMessage(m)
    BY <1>2
  <2>2. run'.out = <<>> /\ run.out = <<>>
    BY <2>1 DEF BeginMessage, Begin, NextTask, Idle, Words
  <2>3. QED
    BY <2>1, <2>2, CalmTells DEF BeginMessage, coreVars
<1>3. CASE AudioNeedsGrant
  BY <1>3, WaitTells DEF AudioNeedsGrant, coreVars
<1>4. CASE StoreAnswers
  BY <1>4, WaitTells, FailureTells DEF StoreAnswers, coreVars
<1>5. CASE AlreadyTerminal \/ SessionEnded
  BY <1>5, CloseQuiet DEF AlreadyTerminal, SessionEnded, coreVars
<1>6. CASE NotYetOpen \/ Malformed
  BY <1>6, RefuseTells DEF NotYetOpen, Malformed, Handling
<1>7. CASE SessionEnd
  BY <1>7, WaitTells DEF SessionEnd, Handling, Terminate, FinishActive
<1>8. CASE SessionStart
  <2>1. run.pc \notin DrainWork
    BY <1>8 DEF SessionStart, Handling
  <2>2. CASE Answer(<<Said("ready")>>) /\ token' = token
    BY <2>1, <2>2, AnswerTells, PlainWords DEF Says
  <2>3. CASE ~(Answer(<<Said("ready")>>) /\ token' = token)
    BY <1>8, <2>1, <2>3, RefuseTells DEF SessionStart
  <2>4. QED
    BY <2>2, <2>3
<1>9. CASE UtteranceStart \/ Binary \/ UtteranceCommit
  <2>1. run.pc \notin DrainWork
    BY <1>9 DEF UtteranceStart, Binary, UtteranceCommit, Handling
  <2>2. CASE Answer(<<>>) /\ token' = token
    BY <2>1, <2>2, AnswerTells, PlainWords DEF Says
  <2>3. CASE ~(Answer(<<>>) /\ token' = token)
    <3>1. \/ ProviderLoss(gens, <<>>)
          \/ Refuse(gens, "protocol", About("aborted"))
          \/ \E reason : Refuse(gens, reason, <<Said("error")>>)
      BY <1>9, <2>3 DEF UtteranceStart, Binary, UtteranceCommit, coreVars
    <3>2. QED
      BY <2>1, <3>1, LossTells, RefuseTells DEF Aborted
  <2>4. QED
    BY <2>2, <2>3
<1>10. CASE UtteranceCancel
  <2>1. run.pc \notin DrainWork
    BY <1>10 DEF UtteranceCancel, Handling
  <2>2. CASE Finish(gens, TRUE) /\ Answer(About("aborted"))
    <3>1. active' = NoUtterance /\ token' = None /\ run' = Idle
      BY <2>2 DEF Finish, FinishActive, Answer
    <3>2. About("aborted") \in Seq(Work) /\ Says(About("aborted"))
      BY <3>1, AbortedSays DEF Aborted, Shape, ActiveRecords
    <3>3. QED
      BY <2>1, <2>2, <3>2, AnswerTells
  <2>3. CASE Answer(<<>>) /\ token' = token
    BY <2>1, <2>3, AnswerTells, PlainWords DEF Says
  <2>4. CASE Refuse(gens, "protocol", <<Said("error")>>)
    BY <2>1, <2>4, RefuseTells
  <2>5. QED
    BY <1>10, <2>2, <2>3, <2>4 DEF UtteranceCancel, coreVars
<1>11. QED
  BY <1>1, <1>2, <1>3, <1>4, <1>5, <1>6, <1>7, <1>8, <1>9, <1>10 DEF MessageStep

LEMMA OneWord ==
  ASSUME NEW u \in Utterances, NEW k \in {"decision", "translation"}
  PROVE  <<Message(k, u)>> \in Seq(Work)
<1>1. Message(k, u) \in Work
  BY MessageIsWork DEF Kinds
<1>2. QED
  BY <1>1

LEMMA AcceptWords == ASSUME NEW u \in Utterances PROVE Accepted(u) \in Seq(Work)
<1>1. Message("final", u) \in Work /\ Message("target", u) \in Work
  BY MessageIsWork DEF Kinds
<1>2. QED
  BY <1>1 DEF Accepted

LEMMA DrainTells == ASSUME Words, Shape, RunShape(run), DrainStep PROVE TellStep
<1>0. Plain(<<>>) /\ <<>> \in Seq(Work) /\ Plain(<<Said("error")>>) /\ <<Said("error")>> \in Seq(Work)
  BY PlainWords
<1>1. CASE BeginDrain
  <2>1. run'.out = <<>> /\ run.out = <<>>
    BY <1>1 DEF BeginDrain, Begin, NextTask, Idle, Words, DrainWork, EventWork
  <2>2. QED
    BY <1>1, <2>1, CalmTells DEF BeginDrain, coreVars
<1>2. CASE SkipDrain
  BY <1>2, CalmTells DEF SkipDrain, coreVars
<1>3. CASE DrainOverflow
  <2>1. run.out = <<>> /\ run' = run /\ token' = None /\ socket = "open"
    BY <1>3 DEF DrainOverflow, NextTask, Words, DrainWork, EventWork, Terminate, FinishActive
  <2>2. run.out \o <<Said("error")>> = <<Said("error")>>
    BY <1>0, <2>1
  <2>3. Delivers(<<Said("error")>>)
    BY <1>3, <2>1, <2>2 DEF DrainOverflow, Delivers
  <2>4. Says(<<Said("error")>>)
    BY <1>0, <2>1 DEF Says
  <2>5. QED
    BY <1>0, <2>3, <2>4 DEF TellStep
<1>4. CASE TakePartial
  BY <1>0, <1>4, ContinueTells DEF TakePartial, Says
<1>5. CASE TakeFinal
  <2>1. CASE Fresh(Taken)
    <3>1. run'.out = run.out
      BY <1>5, <2>1 DEF TakeFinal, RunShape
    <3>2. QED
      BY <1>5, <2>1, <3>1, CalmTells DEF TakeFinal
  <2>2. CASE ~Fresh(Taken)
    BY <1>0, <1>5, <2>2, ContinueTells DEF TakeFinal, Says
  <2>3. QED
    BY <2>1, <2>2
<1>6. CASE DenyFinal
  <2>1. /\ queue.head < Len(queue.events) /\ active.u = Taken.u /\ ~active.final
        /\ active' = NoUtterance /\ token' = None /\ Continue(<<Message("decision", Taken.u)>>)
    BY <1>6 DEF DenyFinal, Taking, Fresh, Finish, FinishActive
  <2>2. Taken.u \in Utterances
    BY <2>1, TakenIsEvent DEF Events
  <2>3. run'.pc = "drain"
    BY <2>1, ContinueFields
  <2>4. Denies(Taken.u, <<Message("decision", Taken.u)>>)
    BY <2>1, <2>3 DEF Denies
  <2>5. Says(<<Message("decision", Taken.u)>>)
    BY <2>1, <2>2, <2>4 DEF Says
  <2>6. QED
    BY <2>1, <2>2, <2>5, OneWord, ContinueTells
<1>7. CASE TakeFailure
  <2>1. CASE ProviderLoss(gens, run.out)
    BY <2>1, LossTells
  <2>2. CASE Continue(<<>>) /\ token' = token
    BY <1>0, <2>2, ContinueTells DEF Says
  <2>3. QED
    BY <1>7, <2>1, <2>2 DEF TakeFailure
<1>8. CASE TakeResult
  <2>1. queue.head < Len(queue.events) /\ Taken.kind \in {"completed", "broken"}
    BY <1>8 DEF TakeResult, Taking, Taken
  <2>2. Taken.u \in Utterances
    BY <2>1, TakenIsEvent DEF Events
  <2>3. CASE CurrentToken(Taken.u) /\ Taken.kind = "completed"
    <3>1. /\ active.u = Taken.u /\ token = Taken.u /\ active' = NoUtterance /\ token' = None
          /\ Continue(<<Message("translation", Taken.u)>>)
      BY <1>8, <2>3 DEF TakeResult, CurrentToken, Finish, FinishActive
    <3>2. run'.pc = "drain"
      BY <3>1, ContinueFields
    <3>3. Translates(Taken.u, <<Message("translation", Taken.u)>>)
      BY <2>1, <2>3, <3>1, <3>2 DEF Translates
    <3>4. Says(<<Message("translation", Taken.u)>>)
      BY <2>2, <3>1, <3>3 DEF Says
    <3>5. QED
      BY <2>2, <3>1, <3>4, OneWord, ContinueTells
  <2>4. CASE ~(CurrentToken(Taken.u) /\ Taken.kind = "completed")
    <3>1. (Continue(<<>>) \/ Continue(<<Said("error")>>)) /\ token' \in {None, token}
      BY <1>8, <2>1, <2>4 DEF TakeResult, Finish, FinishActive
    <3>2. QED
      BY <1>0, <3>1, ContinueTells DEF Says
  <2>5. QED
    BY <2>3, <2>4
<1>9. CASE EndDrain
  <2>1. run.out \o <<>> = run.out
    BY DEF Words
  <2>2. Delivers(<<>>)
    BY <1>9, <2>1 DEF EndDrain, Delivers, Idle
  <2>3. Says(<<>>)
    BY <1>0, <1>9 DEF EndDrain, Says
  <2>4. QED
    BY <1>0, <2>2, <2>3 DEF TellStep
<1>10. CASE ClassifierAnswers
  <2>1. run.pc = "classify" /\ run.event.u \in Utterances
    BY <1>10 DEF ClassifierAnswers, Shape, Events, EventWork
  <2>2. CASE \/ Wait("authorize") /\ UNCHANGED <<socket, tasks, drainScheduled, wire, coreVars>>
             \/ Continue(<<>>) /\ UNCHANGED coreVars
    BY <1>0, <2>2, WaitTells, ContinueTells DEF Says, coreVars
  <2>3. CASE Finish(gens, FALSE) /\ Continue(<<>>)
    BY <1>0, <2>3, ContinueTells DEF Says, Finish, FinishActive
  <2>4. CASE /\ CurrentEvent(run.event) /\ Finish(gens, FALSE)
             /\ Continue(<<Message("decision", run.event.u)>>)
    <3>1. active.u = run.event.u /\ active' = NoUtterance /\ token' = None
      BY <2>4 DEF CurrentEvent, Finish, FinishActive
    <3>2. run'.pc = "drain"
      BY <2>4, ContinueFields
    <3>3. Denies(run.event.u, <<Message("decision", run.event.u)>>)
      BY <2>1, <3>1, <3>2 DEF Denies, At
    <3>4. Says(<<Message("decision", run.event.u)>>)
      BY <2>1, <3>1, <3>3 DEF Says
    <3>5. QED
      BY <2>1, <2>4, <3>4, OneWord, ContinueTells
  <2>5. QED
    BY <1>10, <2>2, <2>3, <2>4 DEF ClassifierAnswers
<1>11. CASE ClaimAcquired
  BY <1>11, WaitTells DEF ClaimAcquired
<1>12. CASE ClaimReleased
  BY <1>0, <1>12, ContinueTells DEF ClaimReleased, Says
<1>13. CASE ClaimRefused
  <2>1. run.pc = "authorize" /\ run.event.u \in Utterances /\ token' \in {None, token}
    BY <1>13 DEF ClaimRefused, Shape, Events, EventWork, Finish, FinishActive
  <2>2. CASE Continue(<<>>) \/ Continue(<<Said("error")>>)
    BY <1>0, <2>1, <2>2, ContinueTells DEF Says
  <2>3. CASE Continue(Accepted(run.event.u))
    <3>1. run'.pc = "drain"
      BY <2>3, ContinueFields
    <3>2. Accepts(run.event.u, Accepted(run.event.u))
      BY <2>1, <3>1 DEF Accepts, At
    <3>3. Says(Accepted(run.event.u))
      BY <2>1, <3>2 DEF Says
    <3>4. QED
      BY <2>1, <2>3, <3>3, AcceptWords, ContinueTells
  <2>4. QED
    BY <1>13, <2>2, <2>3 DEF ClaimRefused
<1>14. QED
  BY <1>1, <1>2, <1>3, <1>4, <1>5, <1>6, <1>7, <1>8, <1>9, <1>10, <1>11, <1>12, <1>13
  DEF DrainStep

LEMMA StoreTells ==
  ASSUME IInv, Words, Shape, RunShape(run), NEW u \in Utterances, StoreStep(u) PROVE TellStep
<1>1. PICK k \in 1..Len(gens[u].ops) :
        \/ CallStore(u, k) \/ StartPermitted(u, k) \/ StartConsumed(u, k)
        \/ StartFailed(u, k) \/ ReleaseAnswered(u, k) \/ CompleteAnswered(u, k)
        \/ RenewalAnswered(u, k)
  BY DEF StoreStep
<1>2. CASE CallStore(u, k) \/ ReleaseAnswered(u, k) \/ CompleteAnswered(u, k)
  BY <1>2, CalmTells DEF CallStore, ReleaseAnswered, CompleteAnswered, hostVars
<1>3. CASE StartPermitted(u, k) \/ StartConsumed(u, k) \/ StartFailed(u, k)
  <2>1. run.pc = "start" /\ gens[u].ops[k].op = "start"
    BY <1>3 DEF StartPermitted, StartConsumed, StartFailed, Answered
  <2>2. run.event.u = u
    BY <2>1 DEF IInv, Sound, GenSound, InTurn
  <2>3. \/ Continue(<<>>) /\ token' \in {None, token}
        \/ Continue(<<Said("error")>>) /\ token' \in {None, token}
        \/ Continue(Accepted(u)) /\ token' \in {None, token, u}
    BY <1>3 DEF StartPermitted, StartConsumed, StartFailed, Finish, FinishActive
  <2>4. CASE Continue(Accepted(u)) /\ token' \in {None, token, u}
    <3>1. run'.pc = "drain"
      BY <2>4, ContinueFields
    <3>2. Accepts(u, Accepted(u))
      BY <2>1, <2>2, <3>1 DEF Accepts, At
    <3>3. Says(Accepted(u))
      BY <2>4, <3>2 DEF Says
    <3>4. QED
      BY <2>4, <3>3, AcceptWords, ContinueTells
  <2>5. CASE (Continue(<<>>) \/ Continue(<<Said("error")>>)) /\ token' \in {None, token}
    BY <2>5, PlainWords, ContinueTells DEF Says
  <2>6. QED
    BY <2>3, <2>4, <2>5
<1>4. CASE RenewalAnswered(u, k)
  <2>1. run.pc = "renewing"
    BY <1>4 DEF RenewalAnswered, Answered, IInv, Sound, OneBeat
  <2>2. run.pc \notin DrainWork /\ run.out = <<>>
    BY <2>1 DEF DrainWork, EventWork, Words
  <2>3. CASE SecurityFailure(With(u, StoreRefuses(u, k)))
    BY <2>2, <2>3, FailureTells
  <2>4. CASE ~SecurityFailure(With(u, StoreRefuses(u, k)))
    BY <1>4, <2>2, <2>4, CalmTells DEF RenewalAnswered, Idle
  <2>5. QED
    BY <2>3, <2>4
<1>5. QED
  BY <1>1, <1>2, <1>3, <1>4

LEMMA EveryTellStep ==
  ASSUME IInv, Words, Shape, [Next]_vars PROVE TellStep
<1>0. RunShape(run)
  BY ShapeSources
<1>1. CASE ClientStep
  BY <1>1, CalmTells DEF ClientStep, ClientReads, ClientSends, hostVars, coreVars
<1>2. CASE HeartbeatDue
  BY <1>2, CalmTells DEF HeartbeatDue, coreVars
<1>3. CASE BeginHeartbeat
  <2>1. run'.out = <<>> /\ run.out = <<>>
    BY <1>3 DEF BeginHeartbeat, Begin, NextTask, Idle, Words, DrainWork, EventWork
  <2>2. QED
    BY <1>3, <2>1, CalmTells DEF BeginHeartbeat, coreVars
<1>4. CASE HeartbeatAnswered
  <2>1. run.pc \notin DrainWork /\ run.out = <<>>
    BY <1>4 DEF HeartbeatAnswered, DrainWork, EventWork, Words
  <2>2. CASE SecurityFailure(gens)
    BY <2>1, <2>2, FailureTells
  <2>3. CASE ~SecurityFailure(gens)
    BY <1>0, <1>4, <2>1, <2>3, CalmTells, WaitTells DEF HeartbeatAnswered, Idle, coreVars
  <2>4. QED
    BY <2>2, <2>3
<1>5. CASE SocketClosed \/ Revoked
  BY <1>5, CutTells DEF SocketClosed, Revoked, Terminate, FinishActive, coreVars
<1>6. CASE UNCHANGED vars
  BY <1>6, CalmTells DEF vars, hostVars, coreVars
<1>7. ASSUME NEW u \in Utterances,
             \/ ProviderStep(u)
             \/ \E result \in {"success", "failure"} : GenerationSettles(u, result)
      PROVE  TellStep
  BY <1>7, CalmTells DEF ProviderStep, TranscriptionFailed, TranscriptionEvent,
     GenerationSettles, hostVars
<1>8. QED
  BY <1>0, <1>1, <1>2, <1>3, <1>4, <1>5, <1>6, <1>7, MessageTells, DrainTells, StoreTells
  DEF Next

LEMMA WordsStay == ASSUME IInv, Words, Shape, [Next]_vars PROVE Words'
<1>1. RunStep
  BY ShapeSources, EveryRunStep
<1>2. PICK s \in Seq(Work) : Says(s) /\ (Collects(s) \/ Delivers(s) \/ Cuts(s))
  BY EveryTellStep DEF TellStep
<1>3. run.out \o s \in Seq(Work) /\ wire \o (run.out \o s) \in Seq(Work)
  BY DEF Words
<1>4. wire' \in Seq(Work) /\ run'.out \in Seq(Work)
  <2>1. CASE Collects(s)
    BY <1>3, <2>1 DEF Collects, Words
  <2>2. CASE Delivers(s)
    BY <1>3, <2>2 DEF Delivers, Deliver, Words
  <2>3. CASE Cuts(s)
    BY <2>3 DEF Cuts, Words
  <2>4. QED
    BY <1>2, <2>1, <2>2, <2>3
<1>5. ASSUME run'.pc \notin DrainWork PROVE run'.out = <<>>
  BY <1>1, <1>5 DEF RunStep, Words, Idle, TakesWork, Asks, Drains, MessageWork, DrainWork, EventWork
<1>6. QED
  BY <1>4, <1>5 DEF Words

LEMMA InitWords == ASSUME Init PROVE Words
BY DEF Init, Words, Idle

(***************************************************************************)
(* A translation is earned                                                 *)
(***************************************************************************)
\* the claim of u is completed in the rows R
Completed(R, u) == u \in Utterances /\ R[u].phase = "completed"

\* every result of the events s is of a completed claim, and every translation
\* of the messages s
Settled(R, s) == \A k \in 1..Len(s) : s[k].kind = "completed" => Completed(R, s[k].u)
Paid(R, s) == \A k \in 1..Len(s) : s[k].kind = "translation" => Completed(R, s[k].u)

Earned == Settled(row, queue.events) /\ Paid(row, run.out) /\ Paid(row, wire)

\* What was completed remains so.
LEMMA EarnedStays ==
  ASSUME IInv, Shape, BegunAtMostOnce, Lives, [Next]_vars
  PROVE  /\ \A u : Completed(row, u) => Completed(row', u)
         /\ \A s : Settled(row, s) => Settled(row', s)
         /\ \A s : Paid(row, s) => Paid(row', s)
<1>1. ASSUME NEW u, Completed(row, u) PROVE Completed(row', u)
  BY <1>1, CompletedStays DEF Completed
<1>2. QED
  BY <1>1 DEF Settled, Paid

LEMMA SettledFrom ==
  ASSUME NEW R, NEW r, NEW s, Settled(R, s), From(r, s) PROVE Settled(R, r)
BY DEF Settled, From

LEMMA EventsEarned ==
  ASSUME IInv, Shape, BegunAtMostOnce, Lives, Settled(row, queue.events), [Next]_vars
  PROVE  Settled(row', queue'.events)
<1>1. QueueShape(queue, Events)
  BY DEF Shape
<1>2. Settled(row', queue.events)
  BY EarnedStays
<1>3. From(queue.events, queue.events)
  BY DEF From
<1>4. CoreStep
  BY ShapeSources, EveryCoreStep
<1>5. CASE CoreSame \/ Begins \/ Commits \/ Acquires \/ Permits
  BY <1>2, <1>5 DEF CoreSame, Begins, Commits, Acquires, Permits
<1>6. CASE Overs
  <2>1. queue.overflow \in {TRUE, FALSE}
    BY <1>1 DEF QueueShape
  <2>2. queue'.events = <<>>
    BY <1>6, <2>1, EmptyShape DEF Overs
  <2>3. QED
    BY <2>2 DEF Settled
<1>7. CASE Takes
  BY <1>1, <1>2, <1>7, TakenShape DEF Takes
<1>8. CASE Compacts
  BY <1>1, <1>2, <1>8, CompactShape, SettledFrom DEF Compacts
<1>9. ASSUME NEW e \in Events, Appends(e) PROVE Settled(row', queue'.events)
  <2>1. e.kind = "completed" => Completed(row', e.u)
    BY <1>9 DEF Appends, Completed
  <2>2. queue' = Appended(queue, e)
    BY <1>9 DEF Appends
  <2>3. \A j \in 1..Len(queue'.events) :
          queue'.events[j] = e \/ \E k \in 1..Len(queue.events) : queue'.events[j] = queue.events[k]
    <3>1. \A j \in 1..Len(Appended(queue, e).events) :
            \/ Appended(queue, e).events[j] = e
            \/ \E k \in 1..Len(queue.events) : Appended(queue, e).events[j] = queue.events[k]
      <4>1. Grown(Appended(queue, e), queue, e, Events)
        BY <1>1, AppendedShape
      <4>2. QED
        BY <4>1 DEF Grown
    <3>2. QED
      BY <2>2, <3>1
  <2>4. QED
    BY <1>2, <2>1, <2>3 DEF Settled
<1>10. QED
  BY <1>4, <1>5, <1>6, <1>7, <1>8, <1>9 DEF CoreStep

LEMMA BothPaid ==
  ASSUME NEW R, NEW s \in Seq(Work), NEW t \in Seq(Work), Paid(R, s), Paid(R, t)
  PROVE  Paid(R, s \o t)
<1>1. \A k \in 1..Len(s \o t) :
        \/ k \in 1..Len(s) /\ (s \o t)[k] = s[k]
        \/ k - Len(s) \in 1..Len(t) /\ (s \o t)[k] = t[k - Len(s)]
  OBVIOUS
<1>2. QED
  BY <1>1 DEF Paid

\* What a step says was paid for.
LEMMA SaysPaid ==
  ASSUME Shape, Settled(row, queue.events), NEW s \in Seq(Work), Says(s) PROVE Paid(row, s)
<1>1. CASE Plain(s)
  BY <1>1 DEF Plain, Paid
<1>2. ASSUME NEW u \in Utterances, Aborts(u, s) \/ Denies(u, s) \/ Accepts(u, s)
      PROVE  Paid(row, s)
  BY <1>2 DEF Aborts, Denies, Accepts, Accepted, Paid, Message, Said
<1>3. ASSUME NEW u \in Utterances, Translates(u, s) PROVE Paid(row, s)
  <2>1. queue.head + 1 \in 1..Len(queue.events)
    BY <1>3, TakenIsEvent DEF Translates
  <2>2. Completed(row, u)
    BY <1>3, <2>1 DEF Translates, Settled, Taken
  <2>3. QED
    BY <1>3, <2>2 DEF Translates, Paid, Message
<1>4. QED
  BY <1>1, <1>2, <1>3 DEF Says

LEMMA EarnedStep ==
  ASSUME IInv, Shape, BegunAtMostOnce, Lives, Words, Earned, [Next]_vars PROVE Earned'
<1>1. Settled(row', queue'.events)
  BY EventsEarned DEF Earned
<1>2. PICK s \in Seq(Work) : Says(s) /\ (Collects(s) \/ Delivers(s) \/ Cuts(s))
  BY EveryTellStep DEF TellStep
<1>3. Paid(row, s)
  BY <1>2, SaysPaid DEF Earned
<1>4. Paid(row', s) /\ Paid(row', run.out) /\ Paid(row', wire)
  BY <1>3, EarnedStays DEF Earned
<1>5. Paid(row', run.out \o s) /\ Paid(row', wire \o (run.out \o s)) /\ Paid(row', <<>>)
  <2>1. Paid(row', run.out \o s) /\ run.out \o s \in Seq(Work)
    BY <1>4, BothPaid DEF Words
  <2>2. Paid(row', <<>>)
    BY DEF Paid
  <2>3. QED
    BY <1>4, <2>1, <2>2, BothPaid DEF Words
<1>6. Paid(row', run'.out) /\ Paid(row', wire')
  <2>1. CASE Collects(s)
    BY <1>4, <1>5, <2>1 DEF Collects
  <2>2. CASE Delivers(s)
    BY <1>4, <1>5, <2>2 DEF Delivers, Deliver
  <2>3. CASE Cuts(s)
    BY <1>4, <2>3 DEF Cuts
  <2>4. QED
    BY <1>2, <2>1, <2>2, <2>3
<1>7. QED
  BY <1>1, <1>6 DEF Earned

LEMMA InitEarned == ASSUME Init PROVE Earned
BY DEF Init, Earned, Settled, Paid, EmptyQueue, Idle

Conversation == IInv /\ Shape /\ BegunAtMostOnce /\ Lives /\ Words

LEMMA ConversationHolds == Spec => []Conversation
<1>1. Init => Conversation
  BY InitSound, InitShape, InitOnce, InitLives, InitWords DEF Conversation
<1>2. Conversation /\ [Next]_vars => Conversation'
  <2>1. SUFFICES ASSUME IInv, Shape, BegunAtMostOnce, Lives, Words, [Next]_vars
                 PROVE  IInv' /\ Shape' /\ BegunAtMostOnce' /\ Lives' /\ Words'
    BY DEF Conversation
  <2>2. IInv'
    BY <2>1, StepInvariant
  <2>3. QED
    BY <2>1, <2>2, ShapeStep, OnceStays, LivesStay, WordsStay
<1>3. QED
  BY <1>1, <1>2, PTL DEF Spec

\* TranslationEarned: a translation on the wire is of a claim that the security
\* state has recorded as completed, and that no later step takes back
\* (GenerationSettles, CompleteAnswered, TakeResult), for any number of
\* utterances, claims and connections' ends.
THEOREM TranslationsAreEarned == Spec => []TranslationEarned
<1>1. Init => Earned
  BY InitEarned
<1>2. Conversation /\ Earned /\ [Next]_vars => Earned'
  BY EarnedStep DEF Conversation
<1>3. Conversation /\ Earned => TranslationEarned
  <2>1. SUFFICES ASSUME Earned, NEW u \in Utterances, Positions({"translation"}, u) # {}
                 PROVE  row[u].phase = "completed"
    BY DEF TranslationEarned
  <2>2. PICK k \in 1..Len(wire) : wire[k].kind = "translation" /\ wire[k].u = u
    BY <2>1 DEF Positions
  <2>3. QED
    BY <2>1, <2>2 DEF Earned, Paid, Completed
<1>4. QED
  BY <1>1, <1>2, <1>3, ConversationHolds, PTL DEF Spec

(***************************************************************************)
(* An utterance has one outcome                                            *)
(***************************************************************************)
Verdicts == {"decision", "target"}
Outcomes == {"final", "decision", "target", "translation", "aborted"}

Silent(s, u, kinds) == \A k \in 1..Len(s) : s[k].u = u => s[k].kind \notin kinds
Targets(s, u) == \E k \in 1..Len(s) : s[k].kind = "target" /\ s[k].u = u

\* one verdict and one translation, and nothing after an abort
Orderly(s, u) ==
  \A j, k \in 1..Len(s) : s[j].u = u /\ s[k].u = u =>
    /\ s[j].kind \in Verdicts /\ s[k].kind \in Verdicts => j = k
    /\ s[j].kind = "translation" /\ s[k].kind = "translation" => j = k
    /\ s[j].kind = "aborted" /\ s[k].kind \in Outcomes => k <= j

\* a translation comes after 'target'
Targeted(s, u) ==
  \A k \in 1..Len(s) : s[k].kind = "translation" /\ s[k].u = u =>
    \E j \in 1..Len(s) : j < k /\ s[j].kind = "target" /\ s[j].u = u

Heard(s, u) == Orderly(s, u) /\ Targeted(s, u)

ToldOnce(u) ==
  /\ Heard(Spoken, u)
  /\ Untried(u) \/ At(u, {"start"}) => Silent(Spoken, u, Outcomes)
  /\ active.u = u => Silent(Spoken, u, {"decision", "translation", "aborted"})
  /\ token = u /\ socket = "open" => Targets(Spoken, u)

Begun(r, s) == Len(r) <= Len(s) /\ \A k \in 1..Len(r) : r[k] = s[k]

LEMMA BegunHeard ==
  ASSUME NEW r \in Seq(Work), NEW s \in Seq(Work), Begun(r, s), NEW u
  PROVE  /\ Heard(s, u) => Heard(r, u)
         /\ \A kinds : Silent(s, u, kinds) => Silent(r, u, kinds)
<1>1. \A k \in 1..Len(r) : k \in 1..Len(s) /\ r[k] = s[k]
  BY DEF Begun
<1>2. Orderly(s, u) => Orderly(r, u)
  BY <1>1 DEF Orderly
<1>3. ASSUME Targeted(s, u) PROVE Targeted(r, u)
  <2>1. SUFFICES ASSUME NEW k \in 1..Len(r), r[k].kind = "translation", r[k].u = u
                 PROVE  \E j \in 1..Len(r) : j < k /\ r[j].kind = "target" /\ r[j].u = u
    BY DEF Targeted
  <2>2. PICK j \in 1..Len(s) : j < k /\ s[j].kind = "target" /\ s[j].u = u
    BY <1>1, <1>3, <2>1 DEF Targeted
  <2>3. j \in 1..Len(r) /\ r[j] = s[j]
    BY <1>1, <2>2
  <2>4. QED
    BY <2>2, <2>3
<1>4. QED
  BY <1>1, <1>2, <1>3 DEF Heard, Silent

LEMMA JoinedAt ==
  ASSUME NEW s \in Seq(Work), NEW w \in Seq(Work)
  PROVE  /\ s \o w \in Seq(Work)
         /\ \A k \in 1..Len(s) : k \in 1..Len(s \o w) /\ (s \o w)[k] = s[k]
         /\ \A k \in 1..Len(s \o w) :
              \/ k \in 1..Len(s) /\ (s \o w)[k] = s[k]
              \/ /\ k > Len(s) /\ k - Len(s) \in 1..Len(w) /\ (s \o w)[k] = w[k - Len(s)]
OBVIOUS

LEMMA JoinedHeard ==
  ASSUME NEW s \in Seq(Work), NEW w \in Seq(Work), NEW u, Heard(s, u), Orderly(w, u),
         Silent(s, u, Verdicts) \/ Silent(w, u, Verdicts),
         Silent(s, u, {"translation"}) \/ Silent(w, u, {"translation"}),
         Silent(s, u, {"aborted"}) \/ Silent(w, u, Outcomes),
         Targets(s, u) \/ Silent(w, u, {"translation"})
  PROVE  Heard(s \o w, u)
<1> DEFINE t == s \o w
           n == Len(s)
<1>1. /\ n \in Nat
      /\ \A k \in 1..n : k \in 1..Len(t) /\ t[k] = s[k]
      /\ \A k \in 1..Len(t) :
           \/ k \in 1..n /\ t[k] = s[k]
           \/ k > n /\ k - n \in 1..Len(w) /\ t[k] = w[k - n]
  BY JoinedAt
<1> HIDE DEF t, n
<1>2. ASSUME NEW j \in 1..Len(t), NEW k \in 1..Len(t), t[j].u = u, t[k].u = u
      PROVE  /\ t[j].kind \in Verdicts /\ t[k].kind \in Verdicts => j = k
             /\ t[j].kind = "translation" /\ t[k].kind = "translation" => j = k
             /\ t[j].kind = "aborted" /\ t[k].kind \in Outcomes => k <= j
  <2>1. CASE j \in 1..n /\ t[j] = s[j] /\ k \in 1..n /\ t[k] = s[k]
    BY <1>2, <2>1 DEF Heard, Orderly, n
  <2>2. CASE /\ j \in 1..n /\ t[j] = s[j]
             /\ k > n /\ k - n \in 1..Len(w) /\ t[k] = w[k - n]
    BY <1>2, <2>2 DEF Silent, n
  <2>3. CASE /\ k \in 1..n /\ t[k] = s[k]
             /\ j > n /\ j - n \in 1..Len(w) /\ t[j] = w[j - n]
    <3>1. /\ ~(t[j].kind \in Verdicts /\ t[k].kind \in Verdicts)
          /\ ~(t[j].kind = "translation" /\ t[k].kind = "translation")
      BY <1>2, <2>3 DEF Silent, n
    <3>2. k <= j
      BY <1>1, <2>3
    <3>3. QED
      BY <3>1, <3>2
  <2>4. CASE /\ j > n /\ j - n \in 1..Len(w) /\ t[j] = w[j - n]
             /\ k > n /\ k - n \in 1..Len(w) /\ t[k] = w[k - n]
    <3>1. /\ t[j].kind \in Verdicts /\ t[k].kind \in Verdicts => j - n = k - n
          /\ t[j].kind = "translation" /\ t[k].kind = "translation" => j - n = k - n
          /\ t[j].kind = "aborted" /\ t[k].kind \in Outcomes => k - n <= j - n
      BY <1>2, <2>4 DEF Orderly
    <3>2. (j - n = k - n => j = k) /\ (k - n <= j - n => k <= j)
      BY <1>1, <2>4
    <3>3. QED
      BY <3>1, <3>2
  <2>5. QED
    BY <1>1, <2>1, <2>2, <2>3, <2>4
<1>3. Orderly(t, u)
  BY <1>2 DEF Orderly
<1>4. ASSUME NEW k \in 1..Len(t), t[k].kind = "translation", t[k].u = u
      PROVE  \E j \in 1..Len(t) : j < k /\ t[j].kind = "target" /\ t[j].u = u
  <2>1. CASE k \in 1..n /\ t[k] = s[k]
    <3>1. PICK j \in 1..Len(s) : j < k /\ s[j].kind = "target" /\ s[j].u = u
      BY <1>4, <2>1 DEF Heard, Targeted, n
    <3>2. QED
      BY <1>1, <3>1 DEF n
  <2>2. CASE k > n /\ k - n \in 1..Len(w) /\ t[k] = w[k - n]
    <3>1. PICK j \in 1..Len(s) : s[j].kind = "target" /\ s[j].u = u
      BY <1>4, <2>2 DEF Silent, Targets
    <3>2. j < k
      BY <1>1, <2>2, <3>1 DEF n
    <3>3. QED
      BY <1>1, <3>1, <3>2 DEF n
  <2>3. QED
    BY <1>1, <2>1, <2>2
<1>5. Targeted(t, u)
  BY <1>4 DEF Targeted
<1>6. QED
  BY <1>3, <1>5 DEF Heard, t

LEMMA JoinedSilent ==
  ASSUME NEW s \in Seq(Work), NEW w \in Seq(Work), NEW u, NEW kinds,
         Silent(s, u, kinds), Silent(w, u, kinds)
  PROVE  Silent(s \o w, u, kinds)
BY JoinedAt DEF Silent

LEMMA JoinedTargets ==
  ASSUME NEW s \in Seq(Work), NEW w \in Seq(Work), NEW u, Targets(s, u) \/ Targets(w, u)
  PROVE  Targets(s \o w, u)
<1>1. CASE Targets(s, u)
  BY <1>1, JoinedAt DEF Targets
<1>2. CASE Targets(w, u)
  <2>1. PICK k \in 1..Len(w) : w[k].kind = "target" /\ w[k].u = u
    BY <1>2 DEF Targets
  <2>2. Len(s) + k \in 1..Len(s \o w) /\ (s \o w)[Len(s) + k] = w[k]
    BY <2>1
  <2>3. QED
    BY <2>1, <2>2 DEF Targets
<1>3. QED
  BY <1>1, <1>2

\* What is spoken grows by what a step says, or is cut with the socket.
LEMMA SpokenStep ==
  ASSUME Words, TellStep
  PROVE  \E s \in Seq(Work) :
           /\ Says(s)
           /\ \/ socket' # "open" /\ Begun(Spoken', Spoken)
              \/ socket = "open" /\ Spoken' = Spoken \o s
<1>1. PICK s \in Seq(Work) : Says(s) /\ (Collects(s) \/ Delivers(s) \/ Cuts(s))
  BY DEF TellStep
<1>2. /\ wire \in Seq(Work) /\ run.out \in Seq(Work)
      /\ wire \o (run.out \o s) = (wire \o run.out) \o s
      /\ \A r \in Seq(Work) : r \o <<>> = r
      /\ wire \o run.out \in Seq(Work) /\ (wire \o run.out) \o s \in Seq(Work)
  <2>1. wire \in Seq(Work) /\ run.out \in Seq(Work)
    BY DEF Words
  <2>2. wire \o (run.out \o s) = (wire \o run.out) \o s
    <3>1. \A a, b, c \in Seq(Work) : a \o (b \o c) = (a \o b) \o c
      OBVIOUS
    <3>2. QED
      BY <2>1, <3>1
  <2>3. \A r \in Seq(Work) : r \o <<>> = r
    OBVIOUS
  <2>4. wire \o run.out \in Seq(Work) /\ (wire \o run.out) \o s \in Seq(Work)
    BY <2>1
  <2>5. QED
    BY <2>1, <2>2, <2>3, <2>4
<1>3. Begun(wire, wire) /\ Begun(wire, wire \o run.out)
  <2>1. Len(wire) <= Len(wire)
    BY <1>2
  <2>2. QED
    BY <1>2, <2>1 DEF Begun
<1>4. CASE Collects(s)
  BY <1>1, <1>2, <1>3, <1>4 DEF Collects, Spoken
<1>5. CASE Delivers(s)
  <2>1. CASE socket = "open"
    <3>1. wire' = wire \o (run.out \o s) /\ run'.out = <<>>
      BY <1>5, <2>1 DEF Delivers, Deliver
    <3>2. Spoken' = (wire \o run.out) \o s
      BY <1>2, <3>1 DEF Spoken
    <3>3. QED
      BY <1>1, <2>1, <3>2 DEF Spoken
  <2>2. CASE socket # "open"
    BY <1>1, <1>3, <1>5, <2>2 DEF Delivers, Deliver, Spoken
  <2>3. QED
    BY <2>1, <2>2
<1>6. CASE Cuts(s)
  BY <1>1, <1>3, <1>6 DEF Cuts, Spoken
<1>7. QED
  BY <1>1, <1>4, <1>5, <1>6

LEMMA SpokenWords == ASSUME Words PROVE Spoken \in Seq(Work)
BY DEF Words, Spoken

\* What has been silent about u, if it is untried or current after a step.
LEMMA WasSilent ==
  ASSUME Shape, ClientShape, RunStep, CoreStep, [Next]_vars, NEW u \in Utterances,
         Once(u), ToldOnce(u)
  PROVE  /\ (Untried(u) \/ At(u, {"start"}))' => Silent(Spoken, u, Outcomes)
         /\ active'.u = u => Silent(Spoken, u, {"decision", "translation", "aborted"})
<1>1. ASSUME Untried(u)' PROVE Silent(Spoken, u, Outcomes)
  BY <1>1, UntriedWas DEF ToldOnce
<1>2. ASSUME At(u, {"start"})' PROVE Silent(Spoken, u, Outcomes)
  <2>1. At(u, EventWork)' /\ run'.pc = "start"
    BY <1>2 DEF At, EventWork
  <2>2. At(u, {"start"}) \/ At(u, {"authorize"})
    BY <2>1, EventWas DEF At
  <2>3. QED
    BY <2>2 DEF ToldOnce, Untried, At
<1>3. ASSUME active'.u = u PROVE Silent(Spoken, u, {"decision", "translation", "aborted"})
  <2>1. u # None /\ NoUtterance.u = None
    BY RelayAssumption DEF NoUtterance
  <2>2. active.u = u \/ Opens(u)
    BY <1>3, <2>1, ActiveChanges, BeginsOpens
  <2>3. CASE active.u = u
    BY <2>3 DEF ToldOnce
  <2>4. CASE Opens(u)
    BY <2>4 DEF ToldOnce, Untried, MayBegin, Silent, Outcomes
  <2>5. QED
    BY <2>2, <2>3, <2>4
<1>4. QED
  BY <1>1, <1>2, <1>3

\* What a step says of u; the utterance is over for the drain and the client.
LEMMA SaidOf ==
  ASSUME Shape, ClientShape, RunStep, CoreStep, [Next]_vars, NEW u \in Utterances,
         Once(u), ToldOnce(u), socket = "open", NEW s \in Seq(Work),
         Aborts(u, s) \/ Denies(u, s) \/ Accepts(u, s) \/ Translates(u, s)
  PROVE  /\ Heard(Spoken, u) /\ Orderly(s, u)
         /\ Silent(Spoken, u, Verdicts) \/ Silent(s, u, Verdicts)
         /\ Silent(Spoken, u, {"translation"}) \/ Silent(s, u, {"translation"})
         /\ Silent(Spoken, u, {"aborted"}) \/ Silent(s, u, Outcomes)
         /\ Targets(Spoken, u) \/ Silent(s, u, {"translation"})
         /\ ~Untried(u)' /\ ~At(u, {"start"})'
         /\ active'.u = u => Silent(s, u, {"decision", "translation", "aborted"})
<1>1. Heard(Spoken, u) /\ u # None /\ NoUtterance.u = None
  BY RelayAssumption DEF ToldOnce, NoUtterance
<1>2. CASE Aborts(u, s) \/ Denies(u, s) \/ Translates(u, s)
  <2>1. active.u = u /\ active'.u = None /\ run'.pc \in {"idle", "drain"}
    BY <1>1, <1>2 DEF Aborts, Denies, Translates, Idle
  <2>2. Silent(Spoken, u, {"decision", "translation", "aborted"})
    BY <2>1 DEF ToldOnce
  <2>3. Silent(Spoken, u, {"translation"}) /\ Silent(Spoken, u, {"aborted"})
    BY <2>2 DEF Silent
  <2>4. ~MayBegin(u)'
    BY <2>1, OneStartStays DEF Once
  <2>5. ~Untried(u)' /\ ~At(u, {"start"})'
    BY <1>1, <2>1, <2>4 DEF Untried, At
  <2>6. Len(s) = 1 \/ (Len(s) = 2 /\ s[2].u = None)
    BY <1>2 DEF Aborts, Denies, Translates, Said, Message
  <2>7. s[1].u = u /\ \A k \in 1..Len(s) : s[k].u = u => k = 1
    BY <1>1, <1>2, <2>6 DEF Aborts, Denies, Translates, Message
  <2>8. Orderly(s, u)
    BY <2>7 DEF Orderly
  <2>9. CASE Aborts(u, s)
    <3>1. s[1].kind = "aborted"
      BY <2>9 DEF Aborts, Message
    <3>2. Silent(s, u, Verdicts) /\ Silent(s, u, {"translation"})
      BY <2>7, <3>1 DEF Silent, Verdicts
    <3>3. QED
      BY <1>1, <2>1, <2>3, <2>5, <2>8, <3>2
  <2>10. CASE Denies(u, s)
    <3>1. Untried(u)
      BY <2>10 DEF Denies, Untried, At
    <3>2. Silent(Spoken, u, Verdicts)
      BY <3>1 DEF ToldOnce, Silent, Outcomes, Verdicts
    <3>3. s[1].kind = "decision"
      BY <2>10 DEF Denies, Message
    <3>4. Silent(s, u, {"translation"})
      BY <2>7, <3>3 DEF Silent
    <3>5. QED
      BY <1>1, <2>1, <2>3, <2>5, <2>8, <3>2, <3>4
  <2>11. CASE Translates(u, s)
    <3>1. Targets(Spoken, u)
      BY <2>11 DEF Translates, ToldOnce
    <3>2. s[1].kind = "translation"
      BY <2>11 DEF Translates, Message
    <3>3. Silent(s, u, Verdicts)
      BY <2>7, <3>2 DEF Silent, Verdicts
    <3>4. QED
      BY <1>1, <2>1, <2>3, <2>5, <2>8, <3>1, <3>3
  <2>12. QED
    BY <1>2, <2>9, <2>10, <2>11
<1>3. CASE Accepts(u, s)
  <2>1. At(u, {"authorize", "start"}) /\ run'.pc = "drain" /\ At(u, EventWork)
    BY <1>3 DEF Accepts, At, EventWork
  <2>2. Silent(Spoken, u, Outcomes)
    BY <2>1 DEF ToldOnce, Untried, At
  <2>3. Silent(Spoken, u, Verdicts) /\ Silent(Spoken, u, {"aborted"})
    BY <2>2 DEF Silent, Outcomes, Verdicts
  <2>4. ~Untried(u)' /\ ~At(u, {"start"})'
    BY <2>1, UntriedWas DEF At
  <2>5. /\ Len(s) = 2 /\ s[1].kind = "final" /\ s[2].kind = "target"
        /\ s[1].u = u /\ s[2].u = u
    BY <1>3 DEF Accepts, Accepted, Message
  <2>6. Silent(s, u, {"translation"}) /\ Silent(s, u, {"decision", "translation", "aborted"})
    BY <2>5 DEF Silent
  <2>7. Orderly(s, u)
    BY <2>5 DEF Orderly, Verdicts
  <2>8. QED
    BY <1>1, <2>3, <2>4, <2>6, <2>7
<1>4. QED
  BY <1>2, <1>3

\* A step that says nothing of u.
LEMMA SaidOfOthers ==
  ASSUME NEW s \in Seq(Work), NEW u, \A k \in 1..Len(s) : s[k].u # u
  PROVE  Orderly(s, u) /\ \A kinds : Silent(s, u, kinds)
BY DEF Orderly, Silent

LEMMA ToldStays ==
  ASSUME IInv, Shape, BegunAtMostOnce, Words, [Next]_vars, NEW u \in Utterances, ToldOnce(u)
  PROVE  ToldOnce(u)'
<1>1. RunStep /\ CoreStep /\ ClientShape /\ Once(u)
  BY ShapeSources, EveryRunStep, EveryCoreStep DEF BegunAtMostOnce
<1>2. PICK s \in Seq(Work) :
        /\ Says(s)
        /\ \/ socket' # "open" /\ Begun(Spoken', Spoken)
           \/ socket = "open" /\ Spoken' = Spoken \o s
  BY EveryTellStep, SpokenStep
<1>3. Spoken \in Seq(Work) /\ Spoken' \in Seq(Work)
  <2>1. Spoken \in Seq(Work) /\ Words'
    BY SpokenWords, WordsStay
  <2>2. Spoken' \in Seq(Work)
    BY <2>1 DEF Words, Spoken
  <2>3. QED
    BY <2>1, <2>2
<1>4. /\ (Untried(u) \/ At(u, {"start"}))' => Silent(Spoken, u, Outcomes)
      /\ active'.u = u => Silent(Spoken, u, {"decision", "translation", "aborted"})
  BY <1>1, WasSilent
<1>5. Heard(Spoken, u)
  BY DEF ToldOnce
<1>6. CASE socket' # "open" /\ Begun(Spoken', Spoken)
  BY <1>3, <1>4, <1>5, <1>6, BegunHeard DEF ToldOnce
<1>7. CASE socket = "open" /\ Spoken' = Spoken \o s
  <2>1. ASSUME token' = u PROVE Targets(Spoken', u)
    <3>1. u # None
      BY RelayAssumption
    <3>2. CASE token = u
      BY <1>3, <1>7, <3>2, JoinedTargets DEF ToldOnce
    <3>3. CASE s = Accepted(u)
      <4>1. s[2].kind = "target" /\ s[2].u = u /\ 2 \in 1..Len(s)
        BY <3>3 DEF Accepted, Message
      <4>2. Targets(s, u)
        BY <4>1 DEF Targets
      <4>3. QED
        BY <1>3, <1>7, <4>2, JoinedTargets
    <3>4. QED
      BY <1>2, <2>1, <3>1, <3>2, <3>3 DEF Says
  <2>2. CASE Aborts(u, s) \/ Denies(u, s) \/ Accepts(u, s) \/ Translates(u, s)
    <3>1. /\ Heard(Spoken, u) /\ Orderly(s, u)
          /\ Silent(Spoken, u, Verdicts) \/ Silent(s, u, Verdicts)
          /\ Silent(Spoken, u, {"translation"}) \/ Silent(s, u, {"translation"})
          /\ Silent(Spoken, u, {"aborted"}) \/ Silent(s, u, Outcomes)
          /\ Targets(Spoken, u) \/ Silent(s, u, {"translation"})
          /\ ~Untried(u)' /\ ~At(u, {"start"})'
          /\ active'.u = u => Silent(s, u, {"decision", "translation", "aborted"})
      BY <1>1, <1>7, <2>2, SaidOf
    <3>2. Heard(Spoken \o s, u)
      BY <1>3, <3>1, JoinedHeard
    <3>3. active'.u = u => Silent(Spoken \o s, u, {"decision", "translation", "aborted"})
      BY <1>3, <1>4, <3>1, JoinedSilent
    <3>4. QED
      BY <1>7, <2>1, <3>1, <3>2, <3>3 DEF ToldOnce
  <2>3. CASE ~(Aborts(u, s) \/ Denies(u, s) \/ Accepts(u, s) \/ Translates(u, s))
    <3>1. \A k \in 1..Len(s) : s[k].u # u
      <4>1. CASE Plain(s)
        BY <4>1, RelayAssumption DEF Plain
      <4>2. ASSUME NEW v \in Utterances,
                   Aborts(v, s) \/ Denies(v, s) \/ Accepts(v, s) \/ Translates(v, s)
            PROVE  \A k \in 1..Len(s) : s[k].u # u
        <5>1. v # u /\ u # None
          BY <2>3, <4>2, RelayAssumption
        <5>2. QED
          BY <4>2, <5>1 DEF Aborts, Denies, Accepts, Translates, Accepted, Message, Said
      <4>3. QED
        BY <1>2, <4>1, <4>2 DEF Says
    <3>2. Orderly(s, u) /\ \A kinds : Silent(s, u, kinds)
      BY <3>1, SaidOfOthers
    <3>3. Heard(Spoken \o s, u)
      BY <1>3, <1>5, <3>2, JoinedHeard
    <3>4. \A kinds : Silent(Spoken, u, kinds) => Silent(Spoken \o s, u, kinds)
      BY <1>3, <3>2, JoinedSilent
    <3>5. QED
      BY <1>4, <1>7, <2>1, <3>3, <3>4 DEF ToldOnce
  <2>4. QED
    BY <2>2, <2>3
<1>8. QED
  BY <1>2, <1>6, <1>7

LEMMA InitTold == ASSUME Init, NEW u \in Utterances PROVE ToldOnce(u)
<1>1. Spoken = <<>> /\ token = None
  BY DEF Init, Spoken, Idle
<1>2. Len(Spoken) = 0
  BY <1>1
<1>3. QED
  BY <1>1, <1>2, RelayAssumption DEF ToldOnce, Heard, Orderly, Targeted, Silent

LEMMA OneAtMost ==
  ASSUME NEW S, \A x, y \in S : x = y PROVE Cardinality(S) <= 1
<1>1. CASE S = {}
  BY <1>1, FS_EmptySet
<1>2. CASE S # {}
  <2>1. PICK x : x \in S
    BY <1>2
  <2>2. S = {x}
    BY <2>1
  <2>3. Cardinality({x}) = 1
    BY FS_Singleton
  <2>4. QED
    BY <2>2, <2>3
<1>3. QED
  BY <1>1, <1>2

\* what is on the wire was spoken
LEMMA WireHeard ==
  ASSUME Words, NEW u \in Utterances, ToldOnce(u) PROVE Heard(wire, u)
<1>1. wire \in Seq(Work) /\ Spoken \in Seq(Work)
  BY SpokenWords DEF Words
<1>2. Begun(wire, Spoken)
  <2>1. Len(wire) <= Len(wire)
    BY <1>1
  <2>2. Begun(wire, wire) /\ Begun(wire, wire \o run.out)
    BY <1>1, <2>1 DEF Begun, Words
  <2>3. QED
    BY <2>2 DEF Spoken
<1>3. QED
  BY <1>1, <1>2, BegunHeard DEF ToldOnce

LEMMA ToldOutcome ==
  ASSUME Words, \A u \in Utterances : ToldOnce(u) PROVE OneOutcome
<1>1. SUFFICES ASSUME NEW u \in Utterances
      PROVE  /\ Cardinality(Positions({"decision", "target"}, u)) <= 1
             /\ Cardinality(Positions({"translation"}, u)) <= 1
             /\ \A k \in Positions({"translation"}, u) :
                  \E j \in Positions({"target"}, u) : j < k
             /\ \A k \in Positions({"aborted"}, u) :
                  \A j \in Positions({"final", "decision", "target", "translation",
                                      "aborted"}, u) : j <= k
  BY DEF OneOutcome
<1>2. Orderly(wire, u) /\ Targeted(wire, u)
  BY WireHeard DEF Heard
<1>3. \A j, k \in Positions({"decision", "target"}, u) : j = k
  BY <1>2 DEF Orderly, Positions, Verdicts
<1>4. \A j, k \in Positions({"translation"}, u) : j = k
  BY <1>2 DEF Orderly, Positions
<1>5. \A k \in Positions({"translation"}, u) : \E j \in Positions({"target"}, u) : j < k
  BY <1>2 DEF Targeted, Positions
<1>6. \A k \in Positions({"aborted"}, u) :
        \A j \in Positions({"final", "decision", "target", "translation", "aborted"}, u) : j <= k
  BY <1>2 DEF Orderly, Positions, Outcomes
<1>7. QED
  BY <1>3, <1>4, <1>5, <1>6, OneAtMost

\* OneOutcome: of every utterance a client hears one verdict and one translation
\* at most, the translation only after 'target', and nothing once it was aborted
\* (drainAsyncEvents, authorizeGeneration, finishActive, deliver), whatever the
\* client sends, in whatever order callbacks, answers, heartbeats and the close
\* of the socket come.
THEOREM OutcomesAreOne == Spec => []OneOutcome
<1> DEFINE Told1 == \A u \in Utterances : ToldOnce(u)
<1>1. Init => Told1
  BY InitTold
<1>2. Conversation /\ Told1 /\ [Next]_vars => Told1'
  BY ToldStays DEF Conversation
<1>3. Conversation /\ Told1 => OneOutcome
  BY ToldOutcome DEF Conversation
<1>4. QED
  BY <1>1, <1>2, <1>3, ConversationHolds, PTL DEF Spec

(***************************************************************************)
(* No final transcript is lost                                             *)
(***************************************************************************)
LEMMA PendingWaits ==
  ASSUME NEW q, QueueShape(q, Events)
  PROVE  \A e : e \in ToSet(Pending(q)) <=>
           \E k \in (q.head + 1)..Len(q.events) : q.events[k] = e
<1>1. /\ q.head \in Nat /\ Len(q.events) \in Nat /\ q.head <= Len(q.events)
      /\ Pending(q) \in Seq(Events) /\ Len(Pending(q)) = Len(q.events) - q.head
      /\ \A j \in 1..Len(Pending(q)) : Pending(q)[j] = q.events[q.head + j]
  BY PendingShape DEF QueueShape
<1>2. \A e : e \in ToSet(Pending(q)) <=> \E j \in 1..Len(Pending(q)) : Pending(q)[j] = e
  BY DEF ToSet
<1>3. ASSUME NEW e, NEW j \in 1..Len(Pending(q)), Pending(q)[j] = e
      PROVE  \E k \in (q.head + 1)..Len(q.events) : q.events[k] = e
  <2>1. q.head + j \in (q.head + 1)..Len(q.events) /\ q.events[q.head + j] = e
    BY <1>1, <1>3
  <2>2. QED
    BY <2>1
<1>4. ASSUME NEW e, NEW k \in (q.head + 1)..Len(q.events), q.events[k] = e
      PROVE  \E j \in 1..Len(Pending(q)) : Pending(q)[j] = e
  <2>1. k - q.head \in 1..Len(Pending(q)) /\ q.head + (k - q.head) = k
    BY <1>1
  <2>2. QED
    BY <1>1, <1>4, <2>1
<1>5. QED
  BY <1>2, <1>3, <1>4

\* what a step does to an event e that waits
Handled(e) ==
  \/ \E k \in (queue'.head + 1)..Len(queue'.events) : queue'.events[k] = e
  \/ e = Taken /\ queue'.head = queue.head + 1
  \/ active'.u # e.u
  \/ /\ active'.failed
     /\ \E k \in (queue'.head + 1)..Len(queue'.events) : queue'.events[k].kind = "failed"

LEMMA AppendsHandles ==
  ASSUME Shape, LastWord, NEW f \in Events, Appends(f), NEW k \in Waiters,
         queue.events[k].kind # "partial"
  PROVE  Handled(queue.events[k])
<1> DEFINE r == Appended(queue, f)
           e == queue.events[k]
<1>1. QueueShape(queue, Events) /\ queue' = r
  BY DEF Shape, Appends
<1>2. /\ QueueShape(r, Events)
      /\ f.kind = "failed" /\ (\A j \in Waiters : queue.events[j].u = f.u)
           => r.head + 1 = Len(r.events) /\ r.events[r.head + 1] = f
      /\ f.kind # "failed" => \E i \in (r.head + 1)..Len(r.events) : r.events[i] = e
  <2>1. Grown(r, queue, f, Events)
    BY <1>1, AppendedShape
  <2>2. f.kind = "failed" /\ (\A j \in Waiters : queue.events[j].u = f.u)
           => r.head + 1 = Len(r.events) /\ r.events[r.head + 1] = f
    BY <2>1 DEF Grown, Waiters
  <2>3. f.kind # "failed" => \E i \in (r.head + 1)..Len(r.events) : r.events[i] = e
    BY <2>1 DEF Grown, Waiters
  <2>4. QED
    BY <2>1, <2>2, <2>3 DEF Grown
<1> HIDE DEF r
<1>3. CASE f.kind # "failed"
  BY <1>1, <1>2, <1>3 DEF Handled
<1>4. CASE f.kind = "failed"
  <2>1. \A j \in Waiters : queue.events[j].u = f.u
    BY DEF LastWord, Appends
  <2>2. r.head + 1 = Len(r.events) /\ r.events[r.head + 1] = f
    BY <1>2, <1>4, <2>1
  <2>3. r.head + 1 \in (r.head + 1)..Len(r.events)
    BY <1>2, <2>2 DEF QueueShape
  <2>4. active'.failed
    BY <1>4, FailedFields DEF Appends, Shape
  <2>5. QED
    BY <1>1, <1>4, <2>2, <2>3, <2>4 DEF Handled
<1>5. QED
  BY <1>3, <1>4

LEMMA EveryEventHandled ==
  ASSUME Shape, LastWord, CoreStep, NEW k \in Waiters, queue.events[k].kind # "partial"
  PROVE  Handled(queue.events[k])
<1>1. QueueShape(queue, Events)
  BY DEF Shape
<1>2. CASE queue' = queue
  BY <1>2 DEF Handled, Waiters
<1>3. CASE Overs
  <2>1. queue.events[k].u # None
    BY QueueNumbers, RelayAssumption DEF Events
  <2>2. QED
    BY <1>3, <2>1, OverFields DEF Overs, Handled
<1>4. CASE Takes
  <2>1. queue'.events = queue.events /\ queue'.head = queue.head + 1
    BY <1>1, <1>4, TakenShape DEF Takes
  <2>2. queue.head \in Nat /\ Len(queue.events) \in Nat
    BY <1>1 DEF QueueShape
  <2>3. k = queue.head + 1 \/ k \in (queue.head + 1 + 1)..Len(queue.events)
    BY <2>2 DEF Waiters
  <2>4. QED
    BY <2>1, <2>3 DEF Handled, Taken
<1>5. CASE Compacts
  <2>1. QueueShape(Compact(queue), Events) /\ Pending(Compact(queue)) = Pending(queue)
    BY <1>1, CompactShape
  <2>2. queue.events[k] \in ToSet(Pending(queue))
    BY <1>1, PendingWaits DEF Waiters
  <2>3. QED
    BY <1>5, <2>1, <2>2, PendingWaits DEF Compacts, Handled
<1>6. CASE \E f \in Events : Appends(f)
  BY <1>6, AppendsHandles
<1>7. QED
  BY <1>2, <1>3, <1>4, <1>5, <1>6
  DEF CoreStep, CoreSame, Begins, Commits, Acquires, Permits

\* An overflow is forgotten only with the session, or for a failure.
LEMMA OverflowStays ==
  ASSUME Shape, CoreStep, queue.overflow, ~queue'.overflow
  PROVE  phase' = "terminal" \/ active'.failed
<1>1. QueueShape(queue, Events)
  BY DEF Shape
<1>2. queue' # queue
  OBVIOUS
<1>3. CASE Overs
  <2>1. queue.overflow \in {TRUE, FALSE}
    BY <1>1 DEF QueueShape
  <2>2. CASE queue' = [EmptyQueue EXCEPT !.overflow = queue.overflow]
    BY <2>1, <2>2, EmptyShape
  <2>3. QED
    BY <1>3, <2>2 DEF Overs
<1>4. CASE Takes
  BY <1>1, <1>4, TakenShape DEF Takes
<1>5. CASE Compacts
  BY <1>1, <1>5, CompactShape DEF Compacts
<1>6. ASSUME NEW e \in Events, Appends(e) PROVE active'.failed
  <2>1. ~Refuses(queue, e)
    BY <1>2, <1>6 DEF Appends, Appended
  <2>2. e.kind = "failed"
    BY <2>1 DEF Refuses
  <2>3. QED
    BY <1>6, <2>2, FailedFields DEF Appends, Shape
<1>7. QED
  BY <1>2, <1>3, <1>4, <1>5, <1>6
  DEF CoreStep, CoreSame, Begins, Commits, Acquires, Permits

\* What waits and what overflowed, over a step.
LEMMA StepKeepsFinals ==
  ASSUME IInv, Shape, LastWord, [Next]_vars
  PROVE  /\ \A e \in PendingEvents :
              e.kind # "partial" =>
                \/ e \in ToSet(Pending(queue)')
                \/ e = Taken /\ queue'.head = queue.head + 1
                \/ active'.u # e.u
                \/ active'.failed /\ \E f \in ToSet(Pending(queue)') : f.kind = "failed"
         /\ queue.overflow /\ ~queue'.overflow => phase' = "terminal" \/ active'.failed
<1>1. CoreStep
  BY ShapeSources, EveryCoreStep
<1>2. QueueShape(queue, Events) /\ QueueShape(queue', Events)
  BY <1>1, QueueStays DEF Shape
<1>3. \A e : e \in PendingEvents <=> \E k \in Waiters : queue.events[k] = e
  BY <1>2, PendingWaits DEF PendingEvents, Waiters
<1>4. \A e : e \in ToSet(Pending(queue')) <=>
        \E k \in (queue'.head + 1)..Len(queue'.events) : queue'.events[k] = e
  BY <1>2, PendingWaits
<1>5. ASSUME NEW e \in PendingEvents, e.kind # "partial"
      PROVE  \/ e \in ToSet(Pending(queue)')
             \/ e = Taken /\ queue'.head = queue.head + 1
             \/ active'.u # e.u
             \/ active'.failed /\ \E f \in ToSet(Pending(queue)') : f.kind = "failed"
  <2>1. Handled(e)
    BY <1>1, <1>3, <1>5, EveryEventHandled
  <2>2. QED
    BY <1>4, <2>1 DEF Handled
<1>6. QED
  BY <1>1, <1>5, OverflowStays

\* NoFinalLost: an event that waits, but a partial transcript, waits until the
\* drain takes it, its utterance ends, or a failure of the provider supersedes
\* it; and an overflow is not forgotten (appendAsyncEvent, compactEventQueue,
\* finishActive), for every capacity of the queue.
THEOREM FinalsAreKept == Spec => NoFinalLost
<1>1. Init => IInv /\ Shape /\ LastWord
  BY InitSound, InitShape, InitHeard
<1>2. IInv /\ Shape /\ LastWord /\ [Next]_vars => (IInv /\ Shape /\ LastWord)'
  <2>1. SUFFICES ASSUME IInv, Shape, LastWord, [Next]_vars PROVE IInv' /\ Shape' /\ LastWord'
    OBVIOUS
  <2>2. CoreStep
    BY <2>1, ShapeSources, EveryCoreStep
  <2>3. QED
    BY <2>1, <2>2, StepInvariant, ShapeStep, WordStays
<1>3. IInv /\ Shape /\ LastWord /\ [Next]_vars =>
        /\ \A e \in PendingEvents :
             e.kind # "partial" =>
               \/ e \in ToSet(Pending(queue)')
               \/ e = Taken /\ queue'.head = queue.head + 1
               \/ active'.u # e.u
               \/ active'.failed /\ \E f \in ToSet(Pending(queue)') : f.kind = "failed"
        /\ queue.overflow /\ ~queue'.overflow => phase' = "terminal" \/ active'.failed
  BY StepKeepsFinals
<1>4. QED
  BY <1>1, <1>2, <1>3, PTL DEF Spec, NoFinalLost
=============================================================================
