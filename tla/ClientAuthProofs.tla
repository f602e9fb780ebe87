--------------------------- MODULE ClientAuthProofs ---------------------------
(***************************************************************************)
(* Proofs about the client's credential controller: no reload, lost        *)
(* request or late one loses the credential the relay holds current, and   *)
(* what a task answered is durable.                                        *)
(***************************************************************************)
EXTENDS ClientAuth, SequenceTheorems, TLAPS

(***************************************************************************)
(* Types                                                                   *)
(***************************************************************************)
Rows ==
  [version : Nat \ {0}, secret : Nat, status : {"active", "revoked"}, redeemedAt : Nat,
   absolute : Nat, pending : BOOLEAN, pendingExpires : Nat]
Records ==
  [inst : Nat, version : Nat, secret : Nat, absolute : Nat, dueAt : Nat,
   pending : BOOLEAN, pendingExpires : Nat]
Credentials == [inst : Nat, version : Nat, secret : Nat]
GrantsHeld == [inst : Nat, version : Nat, secret : Nat, token : Nat]
Callbacks == [version : Nat, token : Nat, phase : {"acquired", "authenticated"}]
Reasons ==
  {"missing", "absolute-expired", "credential-rejected", "revocation-unconfirmed"}
ClientRecords ==
  [initialized : BOOLEAN, storageError : BOOLEAN, volatile : BOOLEAN,
   record : Records \cup {NoRecord}, pendingClear : Reasons \cup {Absent},
   pendingRevocation : Credentials \cup {Absent},
   grant : GrantsHeld \cup {Absent}, callback : Callbacks \cup {Absent}]
Operations ==
  {"none", "initialize", "enroll", "retry", "reset", "prepare", "revoke",
   "acquire", "recordAuthenticated", "reject"}
Saved == {"ready", "recorded", "pended", "decide", "grant", "candidate"}
Cleared == {"answer", "awake", "revoke", "redeem"}
Places ==
  {"idle", "clear", "load", "save", "resolve", "confirm", "begin"} \cup Saved
  \cup Cleared
Outcomes ==
  Reasons \cup {"none", "storage-error", "unavailable", "required", "lease", "stale",
                "ready", "recorded", "revoked", "pairing-uncertain",
                "pairing-failed"}
AnswersGiven == [kind : {"ok", "401", "409", "fail"}, expires : Nat]
Tasks ==
  [op : Operations, pc : Places, after : Saved \cup Cleared,
   answer : AnswersGiven \cup {Absent}, cred : Credentials \cup {Absent},
   keep : Credentials \cup {Absent}, outcome : Outcomes]
Messages == [kind : {"confirm", "begin", "revoke"}, cred : Credentials]

AuthTypeOK ==
  /\ authClock \in Nat /\ store \in Records \cup {NoRecord}
  /\ server \in Seq(Rows) /\ client \in ClientRecords /\ task \in Tasks
  /\ adrift \subseteq Messages /\ grants \in Nat

(***************************************************************************)
(* What the relay holds, the record, and the requests under way            *)
(***************************************************************************)
Installations == 1..Len(server)
Named(cred) == cred = Absent \/ cred.inst \in Installations

ValidAt(s, now) == s.status = "active" /\ now < s.absolute

\* A secret that was pending is alive in row s only as s's own.
Held(s, secret, now) ==
  \/ ~ValidAt(s, now) \/ now >= secret \/ s.secret = secret
  \/ s.pending /\ s.pendingExpires = secret

\* Row s relies on a secret that record r names, or one whose deadline passed.
Relied(r, s, now) ==
  ValidAt(s, now) /\ now < s.secret =>
    s.secret = r.secret \/ (r.pending /\ s.secret = r.pendingExpires)

\* The times of a record are in order.
InOrder(r, s, now) ==
  /\ r.absolute = s.absolute /\ r.secret <= r.dueAt
  /\ r.pending => /\ r.secret <= now
                  /\ r.pendingExpires <= now + PendingTtl
                  /\ r.pendingExpires <= r.absolute
                  /\ Held(s, r.pendingExpires, now)

Names(r, secret) == (r.pending /\ r.pendingExpires = secret) \/ r.secret = secret

\* A confirmation still on its way that the relay would serve names a
\* credential of the record.
Expected(r, s, now, messages) ==
  \A m \in messages :
    m.kind = "confirm" /\ m.cred.inst = r.inst /\ ValidAt(s, now)
      /\ now < m.cred.secret => Names(r, m.cred.secret)

SoundAt(r, rows, now, messages) ==
  r # NoRecord =>
    /\ r.inst \in 1..Len(rows)
    /\ InOrder(r, rows[r.inst], now) /\ Relied(r, rows[r.inst], now)
    /\ Expected(r, rows[r.inst], now, messages)

Sound(r) == SoundAt(r, server, authClock, adrift)

RowsInOrder ==
  \A i \in Installations :
    server[i].secret # 0 => server[i].version > 1

Credited ==
  /\ \A m \in adrift : m.cred.inst \in Installations
  /\ Named(client.pendingRevocation) /\ Named(task.cred) /\ Named(task.keep)

(***************************************************************************)
(* Where a task is, and what it may rely on there                          *)
(***************************************************************************)
Steady ==
  \/ task.pc \in {"resolve", "confirm", "decide", "begin", "pended", "grant",
                  "candidate", "recorded", "ready"}
  \/ task.pc = "awake" /\ task.op = "revoke" /\ task.cred = Absent

Goal(pc) ==
  task.pc = pc \/ (task.pc = "save" /\ task.after = pc)

Flow ==
  /\ task.pc # "idle" => task.outcome = "none"
  /\ task.pc = "save" => task.after \in Saved
  /\ task.pc = "clear" => task.after \in Cleared /\ client.pendingClear \in Reasons
  /\ task.pc \in {"resolve", "confirm"} =>
       task.after \in {"decide", "grant", "candidate"}
  /\ (\/ Goal("revoke")
      \/ (task.pc = "clear" /\ task.after = "revoke")
      \/ task.outcome = "revoked") =>
       task.cred \in Credentials /\ task.cred.inst \in Installations
  /\ task.pc = "clear" /\ task.after = "awake" => task.op = "enroll"
  /\ Goal("decide") => ~client.record.pending
  /\ Goal("recorded") => client.callback \in Callbacks
  /\ task.pc = "begin" =>
       ~client.record.pending /\ client.record.dueAt <= authClock
  /\ task.pc = "confirm" => client.record.pending
  /\ task.answer # Absent =>
       \/ task.pc \in {"confirm", "begin", "redeem", "revoke"} \/ Goal("ready")
       \/ task.pc = "clear" /\ task.after = "answer"

Durable ==
  /\ task.pc = "save" => client.record # NoRecord /\ ~client.storageError
  /\ task.pc # "save" /\ client.record # NoRecord /\ ~client.storageError =>
       store = client.record
  /\ Steady => client.record # NoRecord /\ ~client.storageError
  /\ task.pc = "revoke" => store = NoRecord
  /\ client.grant # Absent => client.record # NoRecord

\* The answer in hand is still true of the relay.
Answered ==
  LET s == server[client.record.inst]
      a == task.answer
      e == client.record.pendingExpires IN
  a # Absent =>
    /\ task.pc = "confirm" /\ a.kind = "ok" => s.secret = e
    /\ task.pc = "confirm" /\ a.kind = "401" => ~RowValid(s) \/ authClock >= e
    /\ task.pc = "begin" /\ a.kind = "ok" =>
         /\ Held(s, a.expires, authClock) /\ a.expires <= s.absolute
         /\ a.expires <= authClock + PendingTtl
    /\ task.pc = "redeem" /\ a.kind = "ok" =>
         /\ a.expires \in Installations
         /\ server[a.expires].secret = 0
         /\ \A m \in adrift : m.cred.inst # a.expires
    /\ task.pc = "revoke" /\ a.kind = "ok" =>
         server[task.cred.inst].status = "revoked"

AuthInvariant ==
  /\ AuthTypeOK /\ RowsInOrder /\ Credited
  /\ Sound(store) /\ Sound(client.record)
  /\ Flow /\ Durable /\ Answered /\ AnswersDurable

(***************************************************************************)
(* Records against rows                                                    *)
(***************************************************************************)
\* What serving a request may do to a row.
RowStep(s, row, now, kind, secret) ==
  /\ row \in Rows /\ row.absolute = s.absolute
  /\ ValidAt(row, now) => ValidAt(s, now)
  /\ \/ row.secret = s.secret
     \/ /\ kind = "confirm" /\ ValidAt(s, now) /\ now < secret
        /\ s.pending /\ s.pendingExpires = secret /\ row.secret = secret
  /\ \A e \in Nat : /\ Held(s, e, now)
                    /\ row.secret = s.secret \/ row.secret = e
                    => Held(row, e, now)
  /\ s.status = "revoked" => row.status = "revoked"
  /\ row.secret # 0 /\ (s.secret # 0 => s.version > 1) => row.version > 1

\* Serving a request is such a step.
LEMMA ServedRow ==
  ASSUME NEW s \in Rows, NEW secret \in Nat, authClock \in Nat,
         NEW kind \in {"confirm", "begin", "revoke"}
  PROVE  /\ RowStep(s, At(kind, s, secret).row, authClock, kind, secret)
         /\ At(kind, s, secret).answer \in AnswersGiven
<1> DEFINE row == At(kind, s, secret).row
<1>0. RowStep(s, s, authClock, kind, secret)
  BY DEF RowStep, Rows
<1>1. CASE kind = "confirm"
  <2>0. At(kind, s, secret) = PromoteAt(s, secret)
    BY <1>1 DEF At
  <2>1. CASE RowValid(s) /\ s.secret = secret /\ s.version > 1
    BY <2>0, <2>1, <1>0 DEF PromoteAt, Row, AnswersGiven
  <2>2. CASE /\ ~(RowValid(s) /\ s.secret = secret /\ s.version > 1)
             /\ RowValid(s) /\ s.pending /\ s.pendingExpires = secret
             /\ authClock < secret
    <3> DEFINE promoted == [s EXCEPT !.version = @ + 1, !.secret = secret,
                                     !.pending = FALSE]
    <3>1. At(kind, s, secret) = Row(promoted, "ok")
      BY <2>0, <2>2 DEF PromoteAt
    <3> DEFINE v == s.version + 1
               next == [s EXCEPT !.version = v]
    <3>0. s.version \in Nat \ {0} /\ v \in Nat \ {0}
      BY DEF Rows
    <3>2. promoted = [next EXCEPT !.secret = secret, !.pending = FALSE]
      OBVIOUS
    <3> HIDE DEF v
    <3>3. /\ next \in Rows /\ next.absolute = s.absolute /\ next.status = s.status
          /\ next.version = v
      BY <3>0 DEF Rows
    <3> HIDE DEF next, promoted
    <3>4. /\ promoted \in Rows /\ promoted.absolute = s.absolute
          /\ promoted.status = s.status /\ promoted.secret = secret
          /\ promoted.version = v
      BY <3>2, <3>3 DEF Rows
    <3> USE DEF v
    <3> HIDE DEF promoted
    <3>5. RowStep(s, promoted, authClock, kind, secret)
      BY <1>1, <2>2, <3>0, <3>4 DEF RowStep, ValidAt, RowValid, Held
    <3> QED  BY <3>1, <3>5 DEF Row, AnswersGiven
  <2>3. CASE /\ ~(RowValid(s) /\ s.secret = secret /\ s.version > 1)
             /\ ~(RowValid(s) /\ s.pending /\ s.pendingExpires = secret
                    /\ authClock < secret)
    BY <2>0, <2>3, <1>0 DEF PromoteAt, Row, AnswersGiven
  <2> QED  BY <2>1, <2>2, <2>3
<1>2. CASE kind = "begin"
  <2> DEFINE e == Least(authClock + PendingTtl, s.absolute)
             begun == [s EXCEPT !.pending = TRUE, !.pendingExpires = e]
  <2>0. At(kind, s, secret) = BeginAt(s, secret)
    BY <1>2 DEF At
  <2>1. CASE ~RowValid(s) \/ s.secret # secret
    BY <2>0, <2>1, <1>0 DEF BeginAt, Row, AnswersGiven
  <2>2. CASE /\ ~(~RowValid(s) \/ s.secret # secret)
             /\ s.pending /\ authClock < s.pendingExpires
    BY <2>0, <2>2, <1>0 DEF BeginAt, Row, AnswersGiven
  <2>3. CASE /\ ~(~RowValid(s) \/ s.secret # secret)
             /\ ~(s.pending /\ authClock < s.pendingExpires)
    <3>1. At(kind, s, secret) = [row |-> begun,
                                 answer |-> [kind |-> "ok", expires |-> e]]
      BY <2>0, <2>3 DEF BeginAt
    <3>2. e \in Nat
      BY LifetimesAssumption DEF Least, Rows
    <3>3. /\ begun \in Rows /\ begun.absolute = s.absolute
          /\ begun.status = s.status /\ begun.secret = s.secret
          /\ begun.version = s.version
      BY <3>2 DEF Rows
    <3>4. s.pendingExpires \in Nat /\ s.absolute \in Nat
      BY DEF Rows
    <3> HIDE DEF begun, e
    <3>5. RowStep(s, begun, authClock, kind, secret)
      BY <2>3, <3>3, <3>4 DEF RowStep, ValidAt, RowValid, Held
    <3> QED  BY <3>1, <3>2, <3>5 DEF AnswersGiven
  <2> QED  BY <2>1, <2>2, <2>3
<1>3. CASE kind = "revoke"
  <2> DEFINE gone == [s EXCEPT !.status = "revoked", !.pending = FALSE]
  <2>0. At(kind, s, secret) = RevokeAt(s, secret)
    BY <1>3 DEF At
  <2>1. CASE s.secret = secret /\ (RowValid(s) \/ s.status = "revoked")
    <3>1. At(kind, s, secret) = Row(gone, "ok")
      BY <2>0, <2>1 DEF RevokeAt
    <3>2. /\ gone \in Rows /\ gone.absolute = s.absolute
          /\ gone.status = "revoked" /\ gone.secret = s.secret
          /\ gone.version = s.version
      BY DEF Rows
    <3> HIDE DEF gone
    <3>3. RowStep(s, gone, authClock, kind, secret)
      BY <3>2 DEF RowStep, ValidAt, Held
    <3> QED  BY <3>1, <3>3 DEF Row, AnswersGiven
  <2>2. CASE ~(s.secret = secret /\ (RowValid(s) \/ s.status = "revoked"))
    BY <2>0, <2>2, <1>0 DEF RevokeAt, Row, AnswersGiven
  <2> QED  BY <2>1, <2>2
<1> QED  BY <1>1, <1>2, <1>3

\* What the answers say of the row they leave.
LEMMA AnswerIsTrue ==
  ASSUME NEW s \in Rows, NEW secret \in Nat, authClock \in Nat
  PROVE  /\ PromoteAt(s, secret).answer.kind = "ok" =>
              PromoteAt(s, secret).row.secret = secret
         /\ /\ PromoteAt(s, secret).answer.kind = "401"
            /\ s.secret # 0 => s.version > 1
            /\ Held(s, secret, authClock)
            => ~ValidAt(s, authClock) \/ authClock >= secret
         /\ PromoteAt(s, secret).answer.kind = "401" =>
              PromoteAt(s, secret).row = s
         /\ BeginAt(s, secret).answer.kind = "ok" =>
              LET e == BeginAt(s, secret).answer.expires IN
              /\ Held(BeginAt(s, secret).row, e, authClock)
              /\ e <= s.absolute /\ e <= authClock + PendingTtl
         /\ RevokeAt(s, secret).answer.kind = "ok" =>
              RevokeAt(s, secret).row.status = "revoked"
<1>0. s.pendingExpires \in Nat /\ s.absolute \in Nat /\ s.secret \in Nat
      /\ s.version \in Nat
  BY DEF Rows
<1>1. PromoteAt(s, secret).answer.kind = "ok" => PromoteAt(s, secret).row.secret = secret
  BY DEF PromoteAt, Row, Rows
<1>2. PromoteAt(s, secret).answer.kind = "401" =>
        /\ PromoteAt(s, secret).row = s
        /\ ~(RowValid(s) /\ s.secret = secret /\ s.version > 1)
        /\ ~(RowValid(s) /\ s.pending /\ s.pendingExpires = secret
               /\ authClock < secret)
  BY DEF PromoteAt, Row
<1>3. ASSUME PromoteAt(s, secret).answer.kind = "401", s.secret # 0 => s.version > 1,
             Held(s, secret, authClock)
      PROVE  ~ValidAt(s, authClock) \/ authClock >= secret
  <2>1. CASE s.secret = secret
    <3>1. s.secret = 0 \/ ~ValidAt(s, authClock)
      BY <1>2, <1>3, <2>1 DEF RowValid, ValidAt
    <3> QED  BY <2>1, <3>1, <1>0
  <2>2. CASE s.secret # secret
    BY <1>2, <1>3, <1>0, <2>2 DEF RowValid, ValidAt, Held
  <2> QED  BY <2>1, <2>2
<1>4. BeginAt(s, secret).answer.kind = "ok" =>
        LET e == BeginAt(s, secret).answer.expires IN
        /\ Held(BeginAt(s, secret).row, e, authClock)
        /\ e <= s.absolute /\ e <= authClock + PendingTtl
  <2> DEFINE e == Least(authClock + PendingTtl, s.absolute)
             begun == [s EXCEPT !.pending = TRUE, !.pendingExpires = e]
  <2> SUFFICES ASSUME BeginAt(s, secret).answer.kind = "ok"
               PROVE  LET x == BeginAt(s, secret).answer.expires IN
                      /\ Held(BeginAt(s, secret).row, x, authClock)
                      /\ x <= s.absolute /\ x <= authClock + PendingTtl
    OBVIOUS
  <2>1. BeginAt(s, secret) =
          [row |-> begun, answer |-> [kind |-> "ok", expires |-> e]]
    BY DEF BeginAt, Row
  <2>2. e \in Nat /\ e <= s.absolute /\ e <= authClock + PendingTtl
    BY <1>0, LifetimesAssumption DEF Least
  <2>3. begun.pending = TRUE /\ begun.pendingExpires = e
    BY DEF Rows
  <2> HIDE DEF e, begun
  <2>4. BeginAt(s, secret).row = begun /\ BeginAt(s, secret).answer.expires = e
    BY <2>1
  <2>5. Held(begun, e, authClock)
    BY <2>3 DEF Held
  <2> QED  BY <2>2, <2>4, <2>5
<1>5. RevokeAt(s, secret).answer.kind = "ok" => RevokeAt(s, secret).row.status = "revoked"
  BY DEF RevokeAt, Row, Rows
<1> QED  BY <1>1, <1>2, <1>3, <1>4, <1>5

\* A record that fits the relay still does when time has passed.
LEMMA SoundLater ==
  ASSUME NEW rows \in Seq(Rows), NEW messages \in SUBSET Messages,
         NEW now \in Nat, NEW later \in Nat, now <= later,
         NEW r \in Records \cup {NoRecord}, SoundAt(r, rows, now, messages)
  PROVE  SoundAt(r, rows, later, messages)
<1> SUFFICES ASSUME r # NoRecord
             PROVE  SoundAt(r, rows, later, messages)
  BY DEF SoundAt
<1> DEFINE s == rows[r.inst]
<1>1. r \in Records /\ r.inst \in 1..Len(rows) /\ s \in Rows
  BY DEF SoundAt
<1>2. /\ r.pendingExpires \in Nat /\ r.secret \in Nat
      /\ s.absolute \in Nat /\ s.secret \in Nat
  BY <1>1 DEF Records, Rows
<1>3. InOrder(r, s, now) /\ Relied(r, s, now) /\ Expected(r, s, now, messages)
  BY DEF SoundAt
<1> HIDE DEF s
<1>4. ValidAt(s, later) => ValidAt(s, now)
  BY <1>2 DEF ValidAt
<1>5. InOrder(r, s, later)
  BY <1>2, <1>3, <1>4, LifetimesAssumption DEF InOrder, Held
<1>6. Relied(r, s, later)
  BY <1>2, <1>3, <1>4 DEF Relied
<1>7. Expected(r, s, later, messages)
  <2> SUFFICES ASSUME NEW m \in messages, m.kind = "confirm", m.cred.inst = r.inst,
                      ValidAt(s, later), later < m.cred.secret
               PROVE  Names(r, m.cred.secret)
    BY DEF Expected
  <2>1. m.cred.secret \in Nat
    BY DEF Messages, Credentials
  <2> QED  BY <1>3, <1>4, <2>1 DEF Expected
<1> QED  BY <1>1, <1>5, <1>6, <1>7 DEF SoundAt, s

\* The same with other requests adrift, if those that confirm name it.
LEMMA SoundOtherMessages ==
  ASSUME NEW rows, NEW messages, NEW others, NEW now, NEW r,
         SoundAt(r, rows, now, messages),
         r # NoRecord =>
           \A m \in others \ messages :
             m.kind = "confirm" /\ m.cred.inst = r.inst => Names(r, m.cred.secret)
  PROVE  SoundAt(r, rows, now, others)
BY DEF SoundAt, Expected

\* The same when a request was served, if the credential it promoted is the
\* record's.
LEMMA SoundServed ==
  ASSUME NEW rows \in Seq(Rows), NEW messages \in SUBSET Messages, NEW now \in Nat,
         NEW r \in Records \cup {NoRecord}, SoundAt(r, rows, now, messages),
         NEW i \in 1..Len(rows), NEW row, NEW kind, NEW secret \in Nat,
         RowStep(rows[i], row, now, kind, secret),
         r # NoRecord /\ r.inst = i /\ kind = "confirm" /\ now < secret
           /\ ValidAt(rows[i], now) => Names(r, secret)
  PROVE  SoundAt(r, [rows EXCEPT ![i] = row], now, messages)
<1> DEFINE after == [rows EXCEPT ![i] = row]
<1> SUFFICES ASSUME r # NoRecord
             PROVE  SoundAt(r, after, now, messages)
  BY DEF SoundAt
<1> DEFINE s == rows[r.inst]
<1>1. r \in Records /\ r.inst \in 1..Len(rows) /\ s \in Rows
  BY DEF SoundAt
<1>2. Len(after) = Len(rows)
  BY ExceptSeq, row \in Rows DEF RowStep
<1>3. CASE r.inst # i
  <2>1. after[r.inst] = s
    BY <1>1, <1>3
  <2> QED  BY <1>1, <1>2, <2>1 DEF SoundAt
<1>4. CASE r.inst = i
  <2>1. after[r.inst] = row /\ s = rows[i]
    BY <1>1, <1>4
  <2>2. InOrder(r, s, now) /\ Relied(r, s, now) /\ Expected(r, s, now, messages)
    BY DEF SoundAt
  <2>3. RowStep(s, row, now, kind, secret)
    BY <2>1
  <2>4. r.pendingExpires \in Nat /\ r.secret \in Nat
    BY <1>1 DEF Records
  <2>5. ASSUME row.secret # s.secret
        PROVE  /\ ValidAt(s, now) /\ now < secret /\ row.secret = secret
               /\ Names(r, secret)
    BY <1>4, <2>1, <2>3, <2>5 DEF RowStep
  <2>6. CASE r.pending
    <3>1. row.secret = s.secret \/ row.secret = r.pendingExpires
      BY <2>2, <2>4, <2>5, <2>6 DEF Names, InOrder
    <3>2. Held(row, r.pendingExpires, now)
      BY <2>2, <2>3, <2>4, <2>6, <3>1 DEF RowStep, InOrder
    <3> QED
      <4>1. InOrder(r, row, now)
        BY <2>2, <2>3, <3>2 DEF InOrder, RowStep
      <4>2. Relied(r, row, now)
        BY <2>2, <2>3, <2>6, <3>1 DEF Relied, RowStep
      <4>3. Expected(r, row, now, messages)
        BY <2>2, <2>3 DEF Expected, RowStep
      <4> QED  BY <1>1, <1>2, <2>1, <4>1, <4>2, <4>3 DEF SoundAt
  <2>7. CASE ~r.pending
    <3>1. InOrder(r, row, now)
      BY <2>2, <2>3, <2>7 DEF InOrder, RowStep
    <3>2. Relied(r, row, now)
      BY <2>2, <2>3, <2>5, <2>7 DEF Relied, RowStep, Names
    <3>3. Expected(r, row, now, messages)
      BY <2>2, <2>3 DEF Expected, RowStep
    <3> QED  BY <1>1, <1>2, <2>1, <3>1, <3>2, <3>3 DEF SoundAt
  <2> QED  BY <2>6, <2>7
<1> QED  BY <1>3, <1>4

\* And when another installation was redeemed.
LEMMA SoundRedeemed ==
  ASSUME NEW rows \in Seq(Rows), NEW row \in Rows, NEW messages, NEW now,
         NEW r, SoundAt(r, rows, now, messages)
  PROVE  SoundAt(r, Append(rows, row), now, messages)
<1> SUFFICES ASSUME r # NoRecord
             PROVE  SoundAt(r, Append(rows, row), now, messages)
  BY DEF SoundAt
<1>1. r.inst \in 1..Len(rows)
  BY DEF SoundAt
<1>2. Append(rows, row)[r.inst] = rows[r.inst] /\ Len(Append(rows, row)) = Len(rows) + 1
  BY <1>1
<1>3. r.inst \in 1..Len(Append(rows, row))
  BY <1>1, <1>2
<1> QED  BY <1>2, <1>3 DEF SoundAt

(***************************************************************************)
(* Records the controller makes of records                                 *)
(***************************************************************************)
LEMMA CurrentOnlyFields ==
  ASSUME NEW r \in Records
  PROVE  /\ CurrentOnly(r) \in Records /\ CurrentOnly(r) # NoRecord
         /\ CurrentOnly(r).pending = FALSE
         /\ CurrentOnly(r).inst = r.inst /\ CurrentOnly(r).secret = r.secret
         /\ CurrentOnly(r).absolute = r.absolute /\ CurrentOnly(r).dueAt = r.dueAt
         /\ CurrentOnly(r).version = r.version
BY DEF CurrentOnly, Records, NoRecord

LEMMA PromotedFields ==
  ASSUME NEW r \in Records, authClock \in Nat
  PROVE  /\ PromotedRecord(r) \in Records /\ PromotedRecord(r) # NoRecord
         /\ PromotedRecord(r).pending = FALSE
         /\ PromotedRecord(r).inst = r.inst
         /\ PromotedRecord(r).secret = r.pendingExpires
         /\ PromotedRecord(r).absolute = r.absolute
         /\ PromotedRecord(r).dueAt = Boundary(r)
<1> DEFINE c == CurrentOnly(r)
           v == c.version + 1
           d == Boundary(r)
<1>1. c \in Records /\ c.inst = r.inst /\ c.absolute = r.absolute /\ c.pending = FALSE
  BY CurrentOnlyFields
<1>2. v \in Nat /\ d \in Nat /\ r.pendingExpires \in Nat
  BY <1>1, LifetimesAssumption DEF Records, Boundary, Least
<1> DEFINE n == [c EXCEPT !.version = v]
           o == [n EXCEPT !.secret = r.pendingExpires]
<1>3. PromotedRecord(r) = [o EXCEPT !.dueAt = d]
  BY DEF PromotedRecord
<1> HIDE DEF c, v, d
<1>4. /\ n \in Records /\ n.inst = r.inst /\ n.absolute = r.absolute
      /\ n.pending = FALSE
  BY <1>1, <1>2 DEF Records
<1> HIDE DEF n
<1>5. /\ o \in Records /\ o.inst = r.inst /\ o.absolute = r.absolute
      /\ o.pending = FALSE /\ o.secret = r.pendingExpires
  BY <1>2, <1>4 DEF Records
<1> HIDE DEF o
<1>6. /\ PromotedRecord(r) \in Records /\ PromotedRecord(r).inst = r.inst
      /\ PromotedRecord(r).absolute = r.absolute /\ PromotedRecord(r).pending = FALSE
      /\ PromotedRecord(r).secret = r.pendingExpires /\ PromotedRecord(r).dueAt = d
  BY <1>2, <1>3, <1>5 DEF Records
<1>7. NoRecord \notin Records
  BY DEF NoRecord, Records
<1> QED  BY <1>6, <1>7 DEF d

LEMMA PendingFields ==
  ASSUME NEW r \in Records, NEW e \in Nat
  PROVE  /\ WithPending(r, e) \in Records /\ WithPending(r, e) # NoRecord
         /\ WithPending(r, e).pending = TRUE
         /\ WithPending(r, e).pendingExpires = e
         /\ WithPending(r, e).inst = r.inst /\ WithPending(r, e).secret = r.secret
         /\ WithPending(r, e).absolute = r.absolute
         /\ WithPending(r, e).dueAt = r.dueAt
<1> DEFINE c == CurrentOnly(r)
<1>1. /\ c \in Records /\ c.inst = r.inst /\ c.absolute = r.absolute
      /\ c.dueAt = r.dueAt /\ c.secret = r.secret
  BY CurrentOnlyFields
<1>2. WithPending(r, e) = [c EXCEPT !.pending = TRUE, !.pendingExpires = e]
  BY DEF WithPending
<1> HIDE DEF c
<1> QED  BY <1>1, <1>2 DEF Records, NoRecord

\* A pending credential is given up once it cannot be the relay's any more.
LEMMA SoundGivenUp ==
  ASSUME AuthTypeOK, NEW r \in Records, Sound(r),
         r.pending => \/ authClock >= r.pendingExpires
                      \/ ~ValidAt(server[r.inst], authClock)
  PROVE  Sound(CurrentOnly(r))
<1> DEFINE c == CurrentOnly(r)
           s == server[r.inst]
<1>0. r # NoRecord
  BY DEF Records, NoRecord
<1>1. /\ c # NoRecord /\ c.pending = FALSE /\ c.inst = r.inst /\ c.secret = r.secret
      /\ c.absolute = r.absolute /\ c.dueAt = r.dueAt
  BY CurrentOnlyFields
<1>2. /\ r.inst \in 1..Len(server) /\ InOrder(r, s, authClock)
      /\ Relied(r, s, authClock) /\ Expected(r, s, authClock, adrift)
  BY <1>0 DEF Sound, SoundAt
<1>3. r.pendingExpires \in Nat /\ r.secret \in Nat /\ authClock \in Nat
  BY DEF Records, AuthTypeOK
<1> HIDE DEF c, s
<1>4. r.pending => authClock >= r.pendingExpires \/ ~ValidAt(s, authClock)
  BY DEF s
<1>5. InOrder(c, s, authClock)
  BY <1>1, <1>2 DEF InOrder
<1>6. Relied(c, s, authClock)
  BY <1>1, <1>2, <1>3, <1>4 DEF Relied
<1>7. Expected(c, s, authClock, adrift)
  BY <1>1, <1>2, <1>3, <1>4 DEF Expected, Names
<1> QED  BY <1>1, <1>2, <1>5, <1>6, <1>7 DEF Sound, SoundAt, c, s

\* The credential the relay has promoted becomes the record's own.
LEMMA SoundPromoted ==
  ASSUME AuthTypeOK, NEW r \in Records, Sound(r), r.pending,
         server[r.inst].secret = r.pendingExpires
  PROVE  Sound(PromotedRecord(r))
<1> DEFINE c == PromotedRecord(r)
           s == server[r.inst]
<1>0. r # NoRecord
  BY DEF Records, NoRecord
<1>1. /\ c # NoRecord /\ c.pending = FALSE /\ c.inst = r.inst
      /\ c.secret = r.pendingExpires /\ c.absolute = r.absolute
      /\ c.dueAt = Boundary(r)
  BY PromotedFields DEF AuthTypeOK
<1>2. /\ r.inst \in 1..Len(server) /\ InOrder(r, s, authClock)
      /\ Relied(r, s, authClock) /\ Expected(r, s, authClock, adrift)
  BY <1>0 DEF Sound, SoundAt
<1>3. /\ r.pendingExpires \in Nat /\ r.secret \in Nat /\ authClock \in Nat
      /\ r.absolute \in Nat
  BY DEF Records, AuthTypeOK
<1>4. s.secret = r.pendingExpires
  OBVIOUS
<1> HIDE DEF c, s
<1>5. InOrder(c, s, authClock)
  BY <1>1, <1>2, <1>3, LifetimesAssumption DEF InOrder, Boundary, Least
<1>6. Relied(c, s, authClock)
  BY <1>1, <1>4 DEF Relied
<1>7. Expected(c, s, authClock, adrift)
  <2> SUFFICES ASSUME NEW m \in adrift, m.kind = "confirm", m.cred.inst = r.inst,
                      ValidAt(s, authClock), authClock < m.cred.secret
               PROVE  c.secret = m.cred.secret
    BY <1>1 DEF Expected, Names
  <2>1. Names(r, m.cred.secret) /\ m.cred.secret \in Nat
    BY <1>2 DEF Expected, AuthTypeOK, Messages, Credentials
  <2> QED  BY <1>1, <1>2, <1>3, <2>1 DEF Names, InOrder
<1> QED  BY <1>1, <1>2, <1>5, <1>6, <1>7 DEF Sound, SoundAt, c, s

\* A rotation begins only when the current credential is an old one.
LEMMA SoundPended ==
  ASSUME AuthTypeOK, NEW r \in Records, Sound(r), ~r.pending, r.dueAt <= authClock,
         NEW e \in Nat, Held(server[r.inst], e, authClock),
         e <= authClock + PendingTtl, e <= server[r.inst].absolute
  PROVE  Sound(WithPending(r, e))
<1> DEFINE c == WithPending(r, e)
           s == server[r.inst]
<1>0. r # NoRecord
  BY DEF Records, NoRecord
<1>1. /\ c # NoRecord /\ c.pending = TRUE /\ c.pendingExpires = e
      /\ c.inst = r.inst /\ c.secret = r.secret /\ c.absolute = r.absolute
      /\ c.dueAt = r.dueAt
  BY PendingFields
<1>2. /\ r.inst \in 1..Len(server) /\ InOrder(r, s, authClock)
      /\ Relied(r, s, authClock) /\ Expected(r, s, authClock, adrift)
  BY <1>0 DEF Sound, SoundAt
<1>3. r.secret \in Nat /\ r.dueAt \in Nat /\ authClock \in Nat
  BY DEF Records, AuthTypeOK
<1>4. Held(s, e, authClock) /\ e <= s.absolute
  OBVIOUS
<1> HIDE DEF c, s
<1>5. InOrder(c, s, authClock)
  BY <1>1, <1>2, <1>3, <1>4 DEF InOrder
<1>6. Relied(c, s, authClock)
  BY <1>1, <1>2 DEF Relied
<1>7. Expected(c, s, authClock, adrift)
  BY <1>1, <1>2 DEF Expected, Names
<1> QED  BY <1>1, <1>2, <1>5, <1>6, <1>7 DEF Sound, SoundAt, c, s

\* A redeemed installation whose credential nobody has used yet.
LEMMA SoundInstallation ==
  ASSUME AuthTypeOK, NEW i \in Installations, server[i].secret = 0,
         \A m \in adrift : m.cred.inst # i
  PROVE  /\ AsInstallationRecord(server[i], i) \in Records
         /\ Sound(AsInstallationRecord(server[i], i))
<1> DEFINE s == server[i]
           r == AsInstallationRecord(s, i)
           d == Least(s.redeemedAt + RotationPeriod, s.absolute)
<1>1. s \in Rows /\ i \in Nat /\ authClock \in Nat
  BY DEF AuthTypeOK, Installations
<1>2. d \in Nat /\ s.absolute \in Nat
  BY <1>1, LifetimesAssumption DEF Rows, Least
<1>3. r = [inst |-> i, version |-> 1, secret |-> 0, absolute |-> s.absolute,
           dueAt |-> d, pending |-> FALSE, pendingExpires |-> 0]
  BY DEF AsInstallationRecord
<1>4. s.secret = 0
  OBVIOUS
<1> HIDE DEF r, d, s
<1>5. r \in Records /\ r # NoRecord
  BY <1>1, <1>2, <1>3 DEF Records, NoRecord
<1>6. InOrder(r, s, authClock)
  BY <1>2, <1>3 DEF InOrder
<1>7. Relied(r, s, authClock)
  BY <1>3, <1>4 DEF Relied
<1>8. Expected(r, s, authClock, adrift)
  BY <1>3 DEF Expected
<1> QED  BY <1>3, <1>5, <1>6, <1>7, <1>8 DEF Sound, SoundAt, Installations, r, s

(***************************************************************************)
(* The ways a step of the controller may end                               *)
(***************************************************************************)
\* What the controller's variables have to satisfy between two steps.
Keeps(c) ==
  /\ c \in ClientRecords /\ Sound(c.record) /\ Named(c.pendingRevocation)
  /\ c.grant # Absent => c.record # NoRecord

LEMMA ClientKeeps ==
  ASSUME AuthInvariant
  PROVE  Keeps(client)
BY DEF AuthInvariant, AuthTypeOK, Keeps, Credited, Durable

\* The relay and the requests under way are left alone.
Apart == UNCHANGED <<authClock, server, adrift>> /\ grants' \in Nat

LEMMA ApartIsSound ==
  ASSUME Apart, NEW r
  PROVE  Sound(r) <=> SoundAt(r, server', authClock', adrift')
BY DEF Apart, Sound

\* A task ends with an outcome.
LEMMA GivesKeeps ==
  ASSUME AuthInvariant, Apart, NEW c, Keeps(c), NEW o \in Outcomes \ {"revoked"},
         Gives(c, o), store' \in {store, NoRecord, client.record},
         c.record # NoRecord /\ ~c.storageError => store' = c.record,
         o \in Reasons \ {"missing"} => store' = NoRecord,
         o \in {"ready", "lease", "recorded"} =>
           c.record # NoRecord /\ ~c.storageError
  PROVE  AuthInvariant'
<1>1. client' = c /\ task' = [NoTask EXCEPT !.outcome = o]
  BY DEF Gives, Leads
<1>2. /\ task' \in Tasks /\ task'.pc = "idle" /\ task'.op = "none"
      /\ task'.answer = Absent /\ task'.cred = Absent /\ task'.keep = Absent
      /\ task'.outcome = o
  BY <1>1 DEF NoTask, Tasks, Operations, Places, Cleared, Outcomes
<1>3. AuthTypeOK'
  BY <1>1, <1>2 DEF AuthInvariant, AuthTypeOK, Apart, Keeps, ClientRecords
<1>4. RowsInOrder' /\ Credited'
  BY <1>1, <1>2 DEF AuthInvariant, RowsInOrder, Credited, Apart, Keeps, Named,
                    Installations
<1>5. Sound(store)' /\ Sound(client.record)'
  <2>1. Sound(store') /\ Sound(c.record)
    BY DEF AuthInvariant, Keeps, Sound, SoundAt
  <2> QED  BY <1>1, <2>1, ApartIsSound DEF Sound, Apart
<1>6. Flow' /\ Durable' /\ Answered'
  BY <1>1, <1>2 DEF Flow, Durable, Answered, Steady, Goal, Keeps
<1>7. AnswersDurable'
  BY <1>1, <1>2 DEF AnswersDurable, Reasons
<1> QED  BY <1>3, <1>4, <1>5, <1>6, <1>7 DEF AuthInvariant

\* The record is given up, and the store is to be cleared of it.
LEMMA ClearsKeeps ==
  ASSUME AuthInvariant, Apart, NEW c \in ClientRecords, Named(c.pendingRevocation),
         NEW t \in Tasks, Named(t.cred), Named(t.keep), t.outcome = "none",
         NEW reason \in Reasons, NEW after \in Cleared, Clears(c, t, reason, after),
         store' \in {store, client.record},
         after = "revoke" => t.cred \in Credentials /\ t.cred.inst \in Installations,
         after = "awake" => t.op = "enroll",
         after # "answer" => t.answer = Absent
  PROVE  AuthInvariant'
<1>1. client' = Clearing(c, reason) /\ task' = [t EXCEPT !.pc = "clear", !.after = after]
  BY DEF Clears, Leads
<1>2. /\ task' \in Tasks /\ task'.pc = "clear" /\ task'.op = t.op
      /\ task'.answer = t.answer /\ task'.cred = t.cred /\ task'.keep = t.keep
      /\ task'.outcome = "none" /\ task'.after = after
  BY <1>1 DEF Tasks, Places, Cleared, Saved
<1>3. /\ client' \in ClientRecords /\ client'.record = NoRecord
      /\ client'.pendingRevocation = c.pendingRevocation
      /\ client'.pendingClear = reason /\ client'.grant = Absent
  BY <1>1 DEF Clearing, ClientRecords
<1>4. AuthTypeOK'
  BY <1>2, <1>3 DEF AuthInvariant, AuthTypeOK, Apart, ClientRecords
<1>5. RowsInOrder' /\ Credited'
  BY <1>2, <1>3 DEF AuthInvariant, RowsInOrder, Credited, Apart, Named,
                    Installations
<1>6. Sound(store)' /\ Sound(client.record)'
  <2>1. Sound(store') /\ Sound(NoRecord)
    BY DEF AuthInvariant, Sound, SoundAt
  <2> QED  BY <1>3, <2>1, ApartIsSound DEF Sound, Apart
<1>7. Flow' /\ Durable' /\ Answered' /\ AnswersDurable'
  BY <1>2, <1>3 DEF Flow, Durable, Answered, Steady, Goal, AnswersDurable,
                    Installations, Apart
<1> QED  BY <1>4, <1>5, <1>6, <1>7 DEF AuthInvariant

\* The store is to be cleared of a record that was given up before.
LEMMA ClearsAgainKeeps ==
  ASSUME AuthInvariant, Apart, store' = store, task.pc # "save",
         NEW t \in Tasks, Named(t.cred), Named(t.keep), t.outcome = "none",
         client.pendingClear \in Reasons, NEW after \in Cleared,
         NEW c, Keeps(c), c.record = client.record, c.storageError = client.storageError,
         c.pendingClear = client.pendingClear,
         Leads(c, [t EXCEPT !.pc = "clear", !.after = after]),
         after = "revoke" => t.cred \in Credentials /\ t.cred.inst \in Installations,
         after = "awake" => t.op = "enroll",
         after # "answer" => t.answer = Absent
  PROVE  AuthInvariant'
<1>1. client' = c /\ task' = [t EXCEPT !.pc = "clear", !.after = after]
  BY DEF Leads
<1>2. /\ task' \in Tasks /\ task'.pc = "clear" /\ task'.op = t.op
      /\ task'.answer = t.answer /\ task'.cred = t.cred /\ task'.keep = t.keep
      /\ task'.outcome = "none" /\ task'.after = after
  BY <1>1 DEF Tasks, Places, Cleared, Saved
<1>3. AuthTypeOK'
  BY <1>1, <1>2 DEF AuthInvariant, AuthTypeOK, Apart, Keeps
<1>4. RowsInOrder' /\ Credited'
  BY <1>1, <1>2 DEF AuthInvariant, RowsInOrder, Credited, Apart, Named, Keeps,
                    Installations
<1>5. Sound(store)' /\ Sound(client.record)'
  BY <1>1, ApartIsSound DEF AuthInvariant, Sound, Apart, Keeps
<1>6. Flow' /\ Durable' /\ Answered' /\ AnswersDurable'
  BY <1>1, <1>2 DEF AuthInvariant, Flow, Durable, Answered, Steady, Goal,
                    AnswersDurable, Installations, Apart, Keeps
<1> QED  BY <1>3, <1>4, <1>5, <1>6 DEF AuthInvariant

\* A record is about to be saved, unless its time is over.
LEMMA PersistsKeeps ==
  ASSUME AuthInvariant, Apart, store' = store,
         NEW c \in ClientRecords, Named(c.pendingRevocation),
         NEW t \in Tasks, Named(t.cred), Named(t.keep), t.outcome = "none",
         NEW r \in Records, Sound(r), NEW after \in Saved, Persists(c, t, r, after),
         after = "decide" => ~r.pending,
         after = "recorded" => c.callback \in Callbacks,
         t.answer = Absent \/ after = "ready"
  PROVE  AuthInvariant'
<1> DEFINE held == [c EXCEPT !.record = r, !.volatile = TRUE, !.storageError = FALSE]
<1>1. /\ held \in ClientRecords /\ held.record = r /\ held.storageError = FALSE
      /\ held.pendingRevocation = c.pendingRevocation /\ held.callback = c.callback
  BY DEF ClientRecords
<1>2. \/ Clears(held, t, "absolute-expired", "answer")
      \/ Leads(held, [t EXCEPT !.pc = "save", !.after = after])
  BY DEF Persists
<1> HIDE DEF held
<1>3. CASE Clears(held, t, "absolute-expired", "answer")
  BY <1>1, <1>3, ClearsKeeps DEF Reasons, Cleared
<1>4. CASE Leads(held, [t EXCEPT !.pc = "save", !.after = after])
  <2>1. client' = held /\ task' = [t EXCEPT !.pc = "save", !.after = after]
    BY <1>4 DEF Leads
  <2>2. /\ task' \in Tasks /\ task'.pc = "save" /\ task'.op = t.op
        /\ task'.answer = t.answer /\ task'.cred = t.cred /\ task'.keep = t.keep
        /\ task'.outcome = "none" /\ task'.after = after
    BY <2>1 DEF Tasks, Places, Cleared, Saved
  <2>3. AuthTypeOK'
    BY <1>1, <2>1, <2>2 DEF AuthInvariant, AuthTypeOK, Apart
  <2>4. RowsInOrder' /\ Credited'
    BY <1>1, <2>1, <2>2 DEF AuthInvariant, RowsInOrder, Credited, Apart, Named,
                            Installations
  <2>5. Sound(store)' /\ Sound(client.record)'
    BY <1>1, <2>1, ApartIsSound DEF AuthInvariant, Sound, Apart
  <2>6. r # NoRecord
    BY DEF Records, NoRecord
  <2>7. Flow' /\ Durable' /\ Answered' /\ AnswersDurable'
    BY <1>1, <2>1, <2>2, <2>6 DEF Flow, Durable, Answered, Steady, Goal,
                                  AnswersDurable, Saved
  <2> QED  BY <2>3, <2>4, <2>5, <2>7 DEF AuthInvariant
<1> QED  BY <1>2, <1>3, <1>4

\* A task goes on to its next await.
LEMMA GoesKeeps ==
  ASSUME AuthInvariant, Apart, store' \in {store, NoRecord, client.record},
         NEW c, Keeps(c), c.record # NoRecord /\ ~c.storageError => store' = c.record,
         NEW t \in Tasks, Named(t.cred), Named(t.keep), Leads(c, t),
         t.outcome = "none", t.answer = Absent \/ t.pc = "ready",
         t.pc \in {"load", "awake", "resolve", "confirm", "decide", "begin", "redeem",
                   "revoke"} \cup Saved,
         \/ t.pc \in {"load", "redeem", "revoke"}
         \/ t.pc = "awake" /\ (t.op # "revoke" \/ t.cred # Absent)
         \/ c.record # NoRecord /\ ~c.storageError,
         t.pc \in {"resolve", "confirm"} => t.after \in {"decide", "grant", "candidate"},
         t.pc \in {"decide", "begin"} => ~c.record.pending,
         t.pc = "begin" => c.record.dueAt <= authClock,
         t.pc = "confirm" => c.record.pending,
         t.pc = "recorded" => c.callback \in Callbacks,
         t.pc = "revoke" => /\ store' = NoRecord /\ t.cred \in Credentials
                            /\ t.cred.inst \in Installations
  PROVE  AuthInvariant'
<1>1. client' = c /\ task' = t
  BY DEF Leads
<1>2. AuthTypeOK'
  BY <1>1 DEF AuthInvariant, AuthTypeOK, Apart, Keeps, ClientRecords
<1>3. RowsInOrder' /\ Credited'
  BY <1>1 DEF AuthInvariant, RowsInOrder, Credited, Apart, Named, Keeps,
                    Installations
<1>4. Sound(store)' /\ Sound(client.record)'
  <2>1. Sound(store') /\ Sound(c.record)
    BY DEF AuthInvariant, Keeps, Sound, SoundAt
  <2> QED  BY <1>1, <2>1, ApartIsSound DEF Sound, Apart
<1>5. t.pc \notin {"idle", "save", "clear"}
  BY DEF Saved
<1>6. Flow'
  BY <1>1, <1>5 DEF Flow, Goal, Apart, Installations
<1>7. Durable'
  BY <1>1, <1>5 DEF Durable, Steady, Keeps
<1>8. Answered' /\ AnswersDurable'
  BY <1>1 DEF Answered, AnswersDurable
<1> QED  BY <1>2, <1>3, <1>4, <1>6, <1>7, <1>8 DEF AuthInvariant

(***************************************************************************)
(* Tasks, up to their first await                                          *)
(***************************************************************************)
LEMMA AskedFields ==
  ASSUME NEW op \in Operations
  PROVE  /\ Asked(op) \in Tasks /\ Asked(op).op = op /\ Asked(op).pc = "idle"
         /\ Asked(op).answer = Absent /\ Asked(op).cred = Absent
         /\ Asked(op).keep = Absent /\ Asked(op).outcome = "none"
BY DEF Asked, NoTask, Tasks, Operations, Places, Cleared, Outcomes

LEMMA NothingNamed == Named(Absent)
BY DEF Named

LEMMA InvalidatedKeeps ==
  ASSUME NEW c, Keeps(c)
  PROVE  /\ Keeps(Invalidated(c)) /\ Invalidated(c).record = c.record
         /\ Invalidated(c).storageError = c.storageError
         /\ Invalidated(c).pendingClear = c.pendingClear
         /\ Invalidated(c).pendingRevocation = c.pendingRevocation
         /\ Invalidated(c).initialized = c.initialized
         /\ Invalidated(c).volatile = c.volatile
<1> DEFINE i == Invalidated(c)
<1>1. c \in ClientRecords
  BY DEF Keeps
<1>2. /\ i \in ClientRecords /\ i.record = c.record
      /\ i.storageError = c.storageError /\ i.pendingClear = c.pendingClear
      /\ i.pendingRevocation = c.pendingRevocation /\ i.grant = Absent
      /\ i.initialized = c.initialized /\ i.volatile = c.volatile
  BY <1>1 DEF Invalidated, ClientRecords
<1> HIDE DEF i
<1>3. Keeps(i)
  BY <1>2 DEF Keeps
<1> QED  BY <1>2, <1>3 DEF i

\* What a task that is about to start may rely on.
LEMMA AtRest ==
  ASSUME AuthInvariant, task.pc = "idle", UNCHANGED outside
  PROVE  /\ Apart /\ Keeps(client) /\ Keeps(Invalidated(client))
         /\ client.record # NoRecord /\ ~client.storageError => store = client.record
         /\ client.pendingClear \in Reasons \cup {Absent}
         /\ client.pendingRevocation \in Credentials \cup {Absent}
         /\ Named(client.pendingRevocation)
         /\ client \in ClientRecords /\ Invalidated(client) \in ClientRecords
         /\ task.pc # "save"
<1>1. Apart
  BY DEF AuthInvariant, AuthTypeOK, Apart, outside
<1>2. Keeps(client) /\ Keeps(Invalidated(client))
  BY ClientKeeps, InvalidatedKeeps
<1>3. client.record # NoRecord /\ ~client.storageError => store = client.record
  BY DEF AuthInvariant, Durable
<1>4. /\ client.pendingClear \in Reasons \cup {Absent}
      /\ client.pendingRevocation \in Credentials \cup {Absent}
  BY DEF AuthInvariant, AuthTypeOK, ClientRecords
<1> QED  BY <1>1, <1>2, <1>3, <1>4 DEF Keeps

LEMMA InitializeKeeps == ASSUME AuthInvariant, Initialize PROVE AuthInvariant'
<1> DEFINE t == Asked("initialize")
<1>1. task.pc = "idle" /\ UNCHANGED outside /\ store' = store
  BY DEF Initialize, Quiet
<1>2. CASE client.pendingRevocation # Absent /\ Gives(client, "storage-error")
  BY <1>1, <1>2, AtRest, GivesKeeps DEF Outcomes, Reasons
<1>3. /\ t \in Tasks /\ t.cred = Absent /\ t.keep = Absent /\ t.answer = Absent
      /\ t.outcome = "none"
  BY AskedFields DEF Operations
<1>4. CASE client.pendingClear # Absent /\ ClearsAgain(t, "answer")
  <2>1. client.pendingClear \in Reasons
    BY <1>1, <1>4, AtRest
  <2> HIDE DEF t
  <2>2. Leads(client, [t EXCEPT !.pc = "clear", !.after = "answer"])
    BY <1>4 DEF ClearsAgain
  <2> QED  BY <1>1, <1>3, <2>1, <2>2, AtRest, NothingNamed, ClearsAgainKeeps DEF Cleared
<1>5. CASE Leads(client, [t EXCEPT !.pc = "load"])
  <2> DEFINE u == [t EXCEPT !.pc = "load"]
  <2> HIDE DEF t
  <2>1. /\ u \in Tasks /\ u.pc = "load" /\ u.cred = Absent /\ u.keep = Absent
        /\ u.answer = Absent /\ u.outcome = "none"
    BY <1>3 DEF Tasks, Places
  <2>2. Leads(client, u)
    BY <1>5
  <2> HIDE DEF u
  <2> QED  BY <1>1, <2>1, <2>2, AtRest, NothingNamed, GoesKeeps
<1> QED  BY <1>2, <1>4, <1>5 DEF Initialize

LEMMA EnrollKeeps == ASSUME AuthInvariant, Enroll PROVE AuthInvariant'
<1> DEFINE c == Invalidated(client)
           t == Asked("enroll")
<1>1. task.pc = "idle" /\ UNCHANGED outside /\ store' = store
  BY DEF Enroll, Quiet
<1>2. /\ c.record = client.record /\ c.storageError = client.storageError
      /\ c.pendingClear = client.pendingClear /\ Keeps(c)
  BY ClientKeeps, InvalidatedKeeps
<1>3. /\ t \in Tasks /\ t.cred = Absent /\ t.keep = Absent /\ t.answer = Absent
      /\ t.outcome = "none" /\ t.op = "enroll"
  BY AskedFields DEF Operations
<1>4. \/ Gives(c, "storage-error")
      \/ /\ c.pendingClear # Absent
         /\ Leads(c, [t EXCEPT !.pc = "clear", !.after = "awake"])
      \/ Leads(c, [t EXCEPT !.pc = "awake"])
  BY DEF Enroll
<1> HIDE DEF c, t
<1>5. CASE Gives(c, "storage-error")
  BY <1>1, <1>2, <1>5, AtRest, GivesKeeps DEF Outcomes, Reasons
<1>6. CASE c.pendingClear # Absent /\ Leads(c, [t EXCEPT !.pc = "clear", !.after = "awake"])
  BY <1>1, <1>2, <1>3, <1>6, AtRest, NothingNamed, ClearsAgainKeeps DEF Cleared
<1>7. CASE Leads(c, [t EXCEPT !.pc = "awake"])
  <2> DEFINE u == [t EXCEPT !.pc = "awake"]
  <2>1. /\ u \in Tasks /\ u.pc = "awake" /\ u.cred = Absent /\ u.keep = Absent
        /\ u.answer = Absent /\ u.outcome = "none" /\ u.op = "enroll"
    BY <1>3 DEF Tasks, Places, Cleared
  <2>2. Leads(c, u)
    BY <1>7
  <2> HIDE DEF u
  <2> QED  BY <1>1, <1>2, <2>1, <2>2, AtRest, NothingNamed, GoesKeeps
<1> QED  BY <1>4, <1>5, <1>6, <1>7

LEMMA RetryPersistenceKeeps ==
  ASSUME AuthInvariant, RetryPersistence PROVE AuthInvariant'
<1> DEFINE t == Asked("retry")
           c == Invalidated(client)
           p == client.pendingRevocation
<1>1. task.pc = "idle" /\ UNCHANGED outside /\ store' = store
  BY DEF RetryPersistence, Quiet
<1>2. /\ c.record = client.record /\ c.storageError = client.storageError /\ Keeps(c)
  BY ClientKeeps, InvalidatedKeeps
<1>3. /\ t \in Tasks /\ t.cred = Absent /\ t.keep = Absent /\ t.answer = Absent
      /\ t.outcome = "none" /\ t.op = "retry"
  BY AskedFields DEF Operations
<1>4. \/ p # Absent /\ Leads(c, [t EXCEPT !.pc = "awake", !.cred = p])
      \/ client.pendingClear # Absent /\ ClearsAgain(t, "answer")
      \/ client.record # NoRecord /\ Persists(client, t, client.record, "ready")
      \/ Leads(client, [t EXCEPT !.pc = "load"])
  BY DEF RetryPersistence
<1>5. Named(p) /\ p \in Credentials \cup {Absent}
  BY <1>1, AtRest
<1> HIDE DEF c, t, p
<1>6. CASE p # Absent /\ Leads(c, [t EXCEPT !.pc = "awake", !.cred = p])
  <2> DEFINE u == [t EXCEPT !.pc = "awake", !.cred = p]
  <2>1. /\ u \in Tasks /\ u.pc = "awake" /\ u.cred = p /\ u.keep = Absent
        /\ u.answer = Absent /\ u.outcome = "none" /\ u.op = "retry"
    BY <1>3, <1>5 DEF Tasks, Places, Cleared
  <2>2. Leads(c, u)
    BY <1>6
  <2> HIDE DEF u
  <2> QED  BY <1>1, <1>2, <1>5, <2>1, <2>2, AtRest, NothingNamed, GoesKeeps
<1>7. CASE client.pendingClear # Absent /\ ClearsAgain(t, "answer")
  <2>1. client.pendingClear \in Reasons
    BY <1>1, <1>7, AtRest
  <2>2. Leads(client, [t EXCEPT !.pc = "clear", !.after = "answer"])
    BY <1>7 DEF ClearsAgain
  <2> QED  BY <1>1, <1>3, <2>1, <2>2, AtRest, NothingNamed, ClearsAgainKeeps DEF Cleared
<1>8. CASE client.record # NoRecord /\ Persists(client, t, client.record, "ready")
  <2>1. client.record \in Records /\ Sound(client.record)
    BY <1>8 DEF AuthInvariant, AuthTypeOK, ClientRecords
  <2> QED  BY <1>1, <1>3, <1>8, <2>1, AtRest, NothingNamed, PersistsKeeps DEF Saved
<1>9. CASE Leads(client, [t EXCEPT !.pc = "load"])
  <2> DEFINE u == [t EXCEPT !.pc = "load"]
  <2>1. /\ u \in Tasks /\ u.pc = "load" /\ u.cred = Absent /\ u.keep = Absent
        /\ u.answer = Absent /\ u.outcome = "none"
    BY <1>3 DEF Tasks, Places
  <2>2. Leads(client, u)
    BY <1>9
  <2> HIDE DEF u
  <2> QED  BY <1>1, <2>1, <2>2, AtRest, NothingNamed, GoesKeeps
<1> QED  BY <1>4, <1>6, <1>7, <1>8, <1>9

LEMMA ResetEnrollmentKeeps ==
  ASSUME AuthInvariant, ResetEnrollment PROVE AuthInvariant'
<1>1. task.pc = "idle" /\ UNCHANGED outside /\ store' = store
  BY DEF ResetEnrollment, Quiet
<1>2. CASE Gives(client, "storage-error")
  BY <1>1, <1>2, AtRest, GivesKeeps DEF Outcomes, Reasons
<1>3. CASE Clears(client, Asked("reset"), "missing", "answer")
  <2>1. "reset" \in Operations /\ "missing" \in Reasons /\ "answer" \in Cleared
    BY DEF Operations, Reasons, Cleared
  <2> QED  BY <1>1, <1>3, <2>1, AtRest, AskedFields, NothingNamed, ClearsKeeps
<1> QED  BY <1>2, <1>3 DEF ResetEnrollment

LEMMA PrepareSessionBoundaryKeeps ==
  ASSUME AuthInvariant, PrepareSessionBoundary PROVE AuthInvariant'
<1> DEFINE c == Invalidated(client)
           t == Asked("prepare")
<1>1. task.pc = "idle" /\ UNCHANGED outside /\ store' = store
  BY DEF PrepareSessionBoundary, Quiet
<1>2. /\ c.record = client.record /\ c.storageError = client.storageError
      /\ c.pendingClear = client.pendingClear /\ Keeps(c) /\ c \in ClientRecords
      /\ Named(c.pendingRevocation)
  BY ClientKeeps, InvalidatedKeeps DEF Keeps
<1>3. /\ t \in Tasks /\ t.cred = Absent /\ t.keep = Absent /\ t.answer = Absent
      /\ t.outcome = "none" /\ t.op = "prepare" /\ t.after = "answer"
  BY AskedFields DEF Operations, Asked, NoTask
<1>4. \/ Gives(c, "storage-error")
      \/ Gives(c, "unavailable") \/ Gives(c, "missing")
      \/ c.pendingClear # Absent /\ Leads(c, [t EXCEPT !.pc = "clear"])
      \/ Clears(c, t, "absolute-expired", "answer")
      \/ Usable(c) /\ Leads(c, [t EXCEPT !.pc = "resolve", !.after = "decide"])
  BY DEF PrepareSessionBoundary, Unusable
<1> HIDE DEF c, t
<1>5. CASE Gives(c, "storage-error") \/ Gives(c, "unavailable") \/ Gives(c, "missing")
  BY <1>1, <1>2, <1>5, AtRest, GivesKeeps DEF Outcomes, Reasons
<1>6. CASE c.pendingClear # Absent /\ Leads(c, [t EXCEPT !.pc = "clear"])
  <2>1. [t EXCEPT !.pc = "clear"] = [t EXCEPT !.pc = "clear", !.after = "answer"]
    BY <1>3 DEF Tasks
  <2>2. client.pendingClear \in Reasons
    BY <1>1, <1>2, <1>6, AtRest
  <2>3. Leads(c, [t EXCEPT !.pc = "clear", !.after = "answer"])
    BY <1>6, <2>1
  <2> QED  BY <1>1, <1>2, <1>3, <2>2, <2>3, AtRest, NothingNamed, ClearsAgainKeeps DEF Cleared
<1>7. CASE Clears(c, t, "absolute-expired", "answer")
  <2>1. "absolute-expired" \in Reasons /\ "answer" \in Cleared
    BY DEF Reasons, Cleared
  <2> QED  BY <1>1, <1>2, <1>3, <1>7, <2>1, AtRest, NothingNamed, ClearsKeeps
<1>8. CASE Usable(c) /\ Leads(c, [t EXCEPT !.pc = "resolve", !.after = "decide"])
  <2> DEFINE u == [t EXCEPT !.pc = "resolve", !.after = "decide"]
  <2>1. /\ u \in Tasks /\ u.pc = "resolve" /\ u.cred = Absent /\ u.keep = Absent
        /\ u.answer = Absent /\ u.outcome = "none" /\ u.after = "decide"
    BY <1>3 DEF Tasks, Places, Saved
  <2>2. Leads(c, u) /\ client.record # NoRecord /\ ~client.storageError
    BY <1>2, <1>8 DEF Usable
  <2> HIDE DEF u
  <2> QED  BY <1>1, <1>2, <2>1, <2>2, AtRest, NothingNamed, GoesKeeps
<1> QED  BY <1>4, <1>5, <1>6, <1>7, <1>8

LEMMA RevokeCurrentKeeps ==
  ASSUME AuthInvariant, RevokeCurrent PROVE AuthInvariant'
<1> DEFINE c == Invalidated(client)
           t == Asked("revoke")
           p == client.pendingRevocation
<1>1. task.pc = "idle" /\ UNCHANGED outside /\ store' = store
  BY DEF RevokeCurrent, Quiet
<1>2. /\ c.record = client.record /\ c.storageError = client.storageError
      /\ c.pendingClear = client.pendingClear /\ Keeps(c) /\ c \in ClientRecords
      /\ Named(c.pendingRevocation) /\ c.pendingRevocation = p
  BY ClientKeeps, InvalidatedKeeps DEF Keeps
<1>3. /\ t \in Tasks /\ t.cred = Absent /\ t.keep = Absent /\ t.answer = Absent
      /\ t.outcome = "none" /\ t.op = "revoke" /\ t.after = "answer"
  BY AskedFields DEF Operations, Asked, NoTask
<1>4. \/ p # Absent /\ Leads(c, [t EXCEPT !.pc = "awake", !.cred = p])
      \/ Gives(c, "storage-error") \/ Gives(c, "unavailable") \/ Gives(c, "missing")
      \/ c.pendingClear # Absent /\ Leads(c, [t EXCEPT !.pc = "clear"])
      \/ Clears(c, t, "absolute-expired", "answer")
      \/ Usable(c) /\ Leads(c, [t EXCEPT !.pc = "awake"])
  BY <1>2 DEF RevokeCurrent, Unusable
<1>5. Named(p) /\ p \in Credentials \cup {Absent}
  BY <1>1, AtRest
<1> HIDE DEF c, t, p
<1>6. CASE p # Absent /\ Leads(c, [t EXCEPT !.pc = "awake", !.cred = p])
  <2> DEFINE u == [t EXCEPT !.pc = "awake", !.cred = p]
  <2>1. /\ u \in Tasks /\ u.pc = "awake" /\ u.cred = p /\ u.keep = Absent
        /\ u.answer = Absent /\ u.outcome = "none" /\ u.op = "revoke"
    BY <1>3, <1>5 DEF Tasks, Places, Cleared
  <2>2. Leads(c, u)
    BY <1>6
  <2> HIDE DEF u
  <2> QED  BY <1>1, <1>2, <1>5, <1>6, <2>1, <2>2, AtRest, NothingNamed, GoesKeeps
<1>7. CASE Gives(c, "storage-error") \/ Gives(c, "unavailable") \/ Gives(c, "missing")
  BY <1>1, <1>2, <1>7, AtRest, GivesKeeps DEF Outcomes, Reasons
<1>8. CASE c.pendingClear # Absent /\ Leads(c, [t EXCEPT !.pc = "clear"])
  <2>1. [t EXCEPT !.pc = "clear"] = [t EXCEPT !.pc = "clear", !.after = "answer"]
    BY <1>3 DEF Tasks
  <2>2. client.pendingClear \in Reasons
    BY <1>1, <1>2, <1>8, AtRest
  <2>3. Leads(c, [t EXCEPT !.pc = "clear", !.after = "answer"])
    BY <1>8, <2>1
  <2> QED  BY <1>1, <1>2, <1>3, <2>2, <2>3, AtRest, NothingNamed, ClearsAgainKeeps DEF Cleared
<1>9. CASE Clears(c, t, "absolute-expired", "answer")
  <2>1. "absolute-expired" \in Reasons /\ "answer" \in Cleared
    BY DEF Reasons, Cleared
  <2> QED  BY <1>1, <1>2, <1>3, <1>9, <2>1, AtRest, NothingNamed, ClearsKeeps
<1>10. CASE Usable(c) /\ Leads(c, [t EXCEPT !.pc = "awake"])
  <2> DEFINE u == [t EXCEPT !.pc = "awake"]
  <2>1. /\ u \in Tasks /\ u.pc = "awake" /\ u.cred = Absent /\ u.keep = Absent
        /\ u.answer = Absent /\ u.outcome = "none"
    BY <1>3 DEF Tasks, Places, Cleared
  <2>2. Leads(c, u) /\ client.record # NoRecord /\ ~client.storageError
    BY <1>2, <1>10 DEF Usable
  <2> HIDE DEF u
  <2> QED  BY <1>1, <1>2, <2>1, <2>2, AtRest, NothingNamed, GoesKeeps
<1> QED  BY <1>4, <1>6, <1>7, <1>8, <1>9, <1>10

(***************************************************************************)
(* The provider                                                            *)
(***************************************************************************)
LEMMA AcquireKeeps == ASSUME AuthInvariant, Acquire PROVE AuthInvariant'
<1> DEFINE g == client.grant
           l == [version |-> g.version, token |-> g.token, phase |-> "acquired"]
           c == [client EXCEPT !.grant = Absent, !.callback = l]
<1>1. task.pc = "idle" /\ store' = store
  BY DEF Acquire
<1>2. Apart
  BY DEF Acquire, Apart, AuthInvariant, AuthTypeOK
<1>3. /\ Keeps(client) /\ client \in ClientRecords /\ Named(client.pendingRevocation)
      /\ client.record # NoRecord /\ ~client.storageError => store = client.record
      /\ g \in GrantsHeld \cup {Absent} /\ (g # Absent => client.record # NoRecord)
  BY <1>1, ClientKeeps DEF Keeps, AuthInvariant, Durable, ClientRecords
<1>4. \/ Gives(client, "storage-error") \/ Gives(client, "required")
      \/ Clears(client, Asked("acquire"), "absolute-expired", "answer")
      \/ ~client.storageError /\ g # Absent /\ Gives(c, "lease")
  BY DEF Acquire
<1>5. CASE Gives(client, "storage-error") \/ Gives(client, "required")
  BY <1>1, <1>2, <1>3, <1>5, GivesKeeps DEF Outcomes, Reasons
<1>6. CASE Clears(client, Asked("acquire"), "absolute-expired", "answer")
  <2>1. "acquire" \in Operations /\ "absolute-expired" \in Reasons /\ "answer" \in Cleared
    BY DEF Operations, Reasons, Cleared
  <2> QED  BY <1>1, <1>2, <1>3, <1>6, <2>1, AskedFields, NothingNamed, ClearsKeeps
<1>7. CASE ~client.storageError /\ g # Absent /\ Gives(c, "lease")
  <2>1. l \in Callbacks
    BY <1>3, <1>7 DEF Callbacks, GrantsHeld
  <2> HIDE DEF l
  <2>2. /\ c \in ClientRecords /\ c.record = client.record
        /\ c.pendingRevocation = client.pendingRevocation
        /\ c.storageError = client.storageError /\ c.grant = Absent
    BY <1>3, <2>1 DEF ClientRecords
  <2> HIDE DEF c
  <2>3. Keeps(c)
    BY <1>3, <2>2 DEF Keeps
  <2> QED  BY <1>1, <1>2, <1>3, <1>7, <2>2, <2>3, GivesKeeps DEF Outcomes, Reasons
<1> QED  BY <1>4, <1>5, <1>6, <1>7

LEMMA RecordAuthenticatedKeeps ==
  ASSUME AuthInvariant, NEW l, RecordAuthenticated(l) PROVE AuthInvariant'
<1> DEFINE t == Asked("recordAuthenticated")
<1>1. task.pc = "idle" /\ store' = store
  BY DEF RecordAuthenticated
<1>2. Apart
  BY DEF RecordAuthenticated, Apart, AuthInvariant, AuthTypeOK
<1>3. /\ Keeps(client) /\ client \in ClientRecords /\ Named(client.pendingRevocation)
      /\ client.record # NoRecord /\ ~client.storageError => store = client.record
  BY <1>1, ClientKeeps DEF Keeps, AuthInvariant, Durable
<1>4. /\ t \in Tasks /\ t.cred = Absent /\ t.keep = Absent /\ t.answer = Absent
      /\ t.outcome = "none"
  BY AskedFields DEF Operations
<1>5. \/ Gives(client, "stale") \/ Gives(client, "storage-error")
      \/ Clears(client, t, "absolute-expired", "answer")
      \/ Mine(l) /\ Persists(client, t, client.record, "recorded")
  BY DEF RecordAuthenticated
<1> HIDE DEF t
<1>6. CASE Gives(client, "stale") \/ Gives(client, "storage-error")
  BY <1>1, <1>2, <1>3, <1>6, GivesKeeps DEF Outcomes, Reasons
<1>7. CASE Clears(client, t, "absolute-expired", "answer")
  <2>1. "absolute-expired" \in Reasons /\ "answer" \in Cleared
    BY DEF Reasons, Cleared
  <2> QED  BY <1>1, <1>2, <1>3, <1>4, <1>7, <2>1, NothingNamed, ClearsKeeps
<1>8. CASE Mine(l) /\ Persists(client, t, client.record, "recorded")
  <2>1. /\ client.record \in Records /\ Sound(client.record)
        /\ client.callback \in Callbacks
    BY <1>3, <1>8 DEF Mine, Keeps, ClientRecords
  <2> QED  BY <1>1, <1>2, <1>3, <1>4, <1>8, <2>1, NothingNamed, PersistsKeeps DEF Saved
<1> QED  BY <1>5, <1>6, <1>7, <1>8

LEMMA RejectKeeps == ASSUME AuthInvariant, NEW l, Reject(l) PROVE AuthInvariant'
<1>1. task.pc = "idle" /\ store' = store
  BY DEF Reject
<1>2. Apart
  BY DEF Reject, Apart, AuthInvariant, AuthTypeOK
<1>3. /\ Keeps(client) /\ client \in ClientRecords /\ Named(client.pendingRevocation)
      /\ client.record # NoRecord /\ ~client.storageError => store = client.record
  BY <1>1, ClientKeeps DEF Keeps, AuthInvariant, Durable
<1>4. CASE Gives(client, "stale")
  BY <1>1, <1>2, <1>3, <1>4, GivesKeeps DEF Outcomes, Reasons
<1>5. CASE Clears(client, Asked("reject"), "credential-rejected", "answer")
  <2>1. "reject" \in Operations /\ "credential-rejected" \in Reasons /\ "answer" \in Cleared
    BY DEF Operations, Reasons, Cleared
  <2> QED  BY <1>1, <1>2, <1>3, <1>5, <2>1, AskedFields, NothingNamed, ClearsKeeps
<1> QED  BY <1>4, <1>5 DEF Reject

(***************************************************************************)
(* The durable record                                                      *)
(***************************************************************************)
\* What holds of the task that runs.
LEMMA Running ==
  ASSUME AuthInvariant, task.pc # "idle", UNCHANGED outside
  PROVE  /\ Apart /\ Keeps(client) /\ client \in ClientRecords
         /\ Named(client.pendingRevocation)
         /\ task \in Tasks /\ Named(task.cred) /\ Named(task.keep)
         /\ task.outcome = "none"
         /\ client.pendingClear \in Reasons \cup {Absent}
<1>1. Apart
  BY DEF AuthInvariant, AuthTypeOK, Apart, outside
<1>2. Keeps(client)
  BY ClientKeeps
<1> QED  BY <1>1, <1>2 DEF AuthInvariant, AuthTypeOK, Credited, Flow, Keeps, ClientRecords

\* Whatever the store refuses, the task ends and says so.
LEMMA StorageFailsKeeps ==
  ASSUME AuthInvariant, task.pc # "idle", UNCHANGED outside, store' = store,
         StorageFails(client)
  PROVE  AuthInvariant'
<1> DEFINE p == IF task.keep = Absent THEN client.pendingRevocation ELSE task.keep
           g == IF task.keep = Absent THEN client.grant ELSE Absent
           b == IF \/ task.keep # Absent
                   \/ task.op = "recordAuthenticated" THEN Absent ELSE client.callback
           c == [client EXCEPT !.storageError = TRUE, !.pendingRevocation = p,
                               !.grant = g, !.callback = b]
<1>1. /\ Apart /\ Keeps(client) /\ client \in ClientRecords /\ task \in Tasks
      /\ Named(task.keep)
  BY Running
<1>2. /\ p \in Credentials \cup {Absent} /\ Named(p)
      /\ g \in GrantsHeld \cup {Absent} /\ b \in Callbacks \cup {Absent}
      /\ g # Absent => client.record # NoRecord
  BY <1>1 DEF Tasks, ClientRecords, Keeps
<1>3. Gives(c, "storage-error")
  BY DEF StorageFails
<1> HIDE DEF p, g, b
<1>4. /\ c \in ClientRecords /\ c.storageError = TRUE /\ c.pendingRevocation = p
      /\ c.grant = g /\ c.record = client.record
  BY <1>1, <1>2 DEF ClientRecords
<1> HIDE DEF c
<1>5. Keeps(c)
  BY <1>1, <1>2, <1>4 DEF Keeps
<1> QED  BY <1>1, <1>3, <1>4, <1>5, GivesKeeps DEF Outcomes, Reasons

LEMMA StoreClearKeeps == ASSUME AuthInvariant, StoreClear PROVE AuthInvariant'
<1> DEFINE i == Invalidated(client)
           c == [i EXCEPT !.pendingClear = Absent, !.record = NoRecord,
                          !.volatile = FALSE, !.initialized = TRUE,
                          !.storageError = FALSE]
           t == [task EXCEPT !.pc = task.after]
<1>1. task.pc = "clear" /\ UNCHANGED outside
  BY DEF StoreClear
<1>2. /\ Apart /\ Keeps(client) /\ task \in Tasks /\ Named(task.cred)
      /\ Named(task.keep) /\ task.outcome = "none"
  BY <1>1, Running
<1>3. /\ task.after \in Cleared /\ client.pendingClear \in Reasons
      /\ task.after = "revoke" =>
           task.cred \in Credentials /\ task.cred.inst \in Installations
      /\ task.after = "awake" => task.op = "enroll"
      /\ task.after # "answer" => task.answer = Absent
  BY <1>1 DEF AuthInvariant, Flow, Goal
<1>4. CASE StorageFails(client) /\ UNCHANGED store
  BY <1>1, <1>4, StorageFailsKeeps
<1>5. /\ i \in ClientRecords /\ Keeps(i) /\ i.pendingRevocation = client.pendingRevocation
  BY <1>2, InvalidatedKeeps DEF Keeps
<1> HIDE DEF i
<1>6. /\ c \in ClientRecords /\ c.record = NoRecord
      /\ c.pendingRevocation = i.pendingRevocation /\ c.grant = i.grant
  BY <1>5 DEF ClientRecords
<1>7. Keeps(c)
  <2>1. i.grant = Absent
    BY <1>2 DEF i, Invalidated, Keeps, ClientRecords
  <2> QED  BY <1>5, <1>6, <2>1 DEF Keeps, Sound, SoundAt
<1>8. CASE /\ store' = NoRecord
           /\ \/ Gives(c, client.pendingClear)
              \/ task.after # "answer" /\ Leads(c, t)
  <2> HIDE DEF c
  <2>1. CASE Gives(c, client.pendingClear)
    BY <1>2, <1>3, <1>6, <1>7, <1>8, <2>1, GivesKeeps DEF Outcomes, Reasons
  <2>2. CASE task.after # "answer" /\ Leads(c, t)
    <3>1. /\ t \in Tasks /\ t.pc = task.after /\ t.op = task.op /\ t.cred = task.cred
          /\ t.keep = task.keep /\ t.answer = task.answer /\ t.outcome = "none"
          /\ t.after = task.after
      BY <1>2, <1>3 DEF Tasks, Places
    <3>2. t.pc \in {"awake", "revoke", "redeem"}
      BY <1>3, <2>2, <3>1 DEF Cleared
    <3> HIDE DEF t
    <3> QED  BY <1>2, <1>3, <1>6, <1>7, <1>8, <2>2, <3>1, <3>2, GoesKeeps
  <2> QED  BY <1>8, <2>1, <2>2
<1> QED  BY <1>4, <1>8 DEF StoreClear, i

\* While a record is saved, it and the store's are both sound.
LEMMA StoreSaveKeeps == ASSUME AuthInvariant, StoreSave PROVE AuthInvariant'
<1> DEFINE c == [client EXCEPT !.volatile = FALSE, !.storageError = FALSE]
           t == [task EXCEPT !.pc = task.after, !.keep = Absent]
<1>1. task.pc = "save" /\ UNCHANGED outside
  BY DEF StoreSave
<1>2. /\ Apart /\ Keeps(client) /\ client \in ClientRecords
      /\ Named(client.pendingRevocation) /\ task \in Tasks /\ Named(task.cred)
      /\ Named(task.keep) /\ task.outcome = "none"
  BY <1>1, Running
<1>3. /\ client.record # NoRecord /\ task.after \in Saved
      /\ task.after = "decide" => ~client.record.pending
      /\ task.after = "recorded" => client.callback \in Callbacks
      /\ task.answer = Absent \/ task.after = "ready"
  BY <1>1 DEF AuthInvariant, Flow, Durable, Goal
<1>4. CASE StorageFails(client) /\ UNCHANGED store
  BY <1>1, <1>4, StorageFailsKeeps
<1>5. CASE store' = client.record /\ Clears(client, task, "absolute-expired", "answer")
  <2>1. "absolute-expired" \in Reasons /\ "answer" \in Cleared
    BY DEF Reasons, Cleared
  <2> QED  BY <1>2, <1>5, <2>1, ClearsKeeps
<1>6. CASE store' = client.record /\ Leads(c, t)
  <2>1. /\ c \in ClientRecords /\ c.record = client.record /\ c.storageError = FALSE
        /\ c.pendingRevocation = client.pendingRevocation /\ c.grant = client.grant
        /\ c.callback = client.callback
    BY <1>2 DEF ClientRecords
  <2>2. /\ t \in Tasks /\ t.pc = task.after /\ t.op = task.op /\ t.cred = task.cred
        /\ t.keep = Absent /\ t.answer = task.answer /\ t.outcome = "none"
        /\ t.after = task.after
    BY <1>2, <1>3 DEF Tasks, Places
  <2>3. t.pc \in Saved /\ t.pc \notin {"resolve", "confirm", "begin", "revoke"}
    BY <1>3, <2>2 DEF Saved
  <2> HIDE DEF c, t
  <2>4. Keeps(c)
    BY <1>2, <2>1 DEF Keeps
  <2> QED  BY <1>2, <1>3, <1>6, <2>1, <2>2, <2>3, <2>4, NothingNamed, GoesKeeps
<1> QED  BY <1>4, <1>5, <1>6 DEF StoreSave, Expires

LEMMA StoreLoadKeeps == ASSUME AuthInvariant, StoreLoad PROVE AuthInvariant'
<1> DEFINE i == Invalidated(client)
           c == [i EXCEPT !.record = NoRecord, !.volatile = FALSE, !.initialized = TRUE]
           loaded == [c EXCEPT !.record = store, !.storageError = FALSE]
           failed == [c EXCEPT !.storageError = TRUE]
<1>1. task.pc = "load" /\ UNCHANGED outside /\ store' = store
  BY DEF StoreLoad
<1>2. /\ Apart /\ Keeps(client) /\ client \in ClientRecords /\ task \in Tasks
      /\ Named(task.cred) /\ Named(task.keep) /\ task.outcome = "none"
  BY <1>1, Running
<1>3. /\ i \in ClientRecords /\ Named(i.pendingRevocation) /\ i.grant = Absent
  BY <1>2, InvalidatedKeeps DEF Keeps, Invalidated, ClientRecords
<1>4. store \in Records \cup {NoRecord} /\ Sound(store)
  BY DEF AuthInvariant, AuthTypeOK
<1>5. \/ Gives(failed, "storage-error")
      \/ Clears(loaded, task, "absolute-expired", "answer")
      \/ Gives(loaded, IF store = NoRecord THEN "missing" ELSE "ready")
  BY DEF StoreLoad
<1> HIDE DEF i
<1>6. /\ c \in ClientRecords /\ c.record = NoRecord
      /\ c.pendingRevocation = i.pendingRevocation /\ c.grant = Absent
  BY <1>3 DEF ClientRecords
<1> HIDE DEF c
<1>7. /\ failed \in ClientRecords /\ failed.record = NoRecord
      /\ failed.pendingRevocation = i.pendingRevocation /\ failed.grant = Absent
  BY <1>6 DEF ClientRecords
<1>8. /\ loaded \in ClientRecords /\ loaded.record = store
      /\ loaded.pendingRevocation = i.pendingRevocation /\ loaded.grant = Absent
      /\ loaded.storageError = FALSE
  BY <1>4, <1>6 DEF ClientRecords
<1> HIDE DEF failed, loaded
<1>9. Keeps(failed) /\ Keeps(loaded)
  BY <1>3, <1>4, <1>7, <1>8 DEF Keeps, Sound, SoundAt
<1>10. CASE Gives(failed, "storage-error")
  BY <1>1, <1>2, <1>7, <1>9, <1>10, GivesKeeps DEF Outcomes, Reasons
<1>11. CASE Clears(loaded, task, "absolute-expired", "answer")
  <2>1. "absolute-expired" \in Reasons /\ "answer" \in Cleared
    BY DEF Reasons, Cleared
  <2> QED  BY <1>1, <1>2, <1>3, <1>8, <1>11, <2>1, ClearsKeeps
<1>12. CASE Gives(loaded, IF store = NoRecord THEN "missing" ELSE "ready")
  <2>1. CASE store = NoRecord
    <3>1. Gives(loaded, "missing")
      BY <1>12, <2>1
    <3> QED  BY <1>1, <1>2, <1>8, <1>9, <2>1, <3>1, GivesKeeps DEF Outcomes, Reasons
  <2>2. CASE store # NoRecord
    <3>1. Gives(loaded, "ready")
      BY <1>12, <2>2
    <3> QED  BY <1>1, <1>2, <1>8, <1>9, <2>2, <3>1, GivesKeeps DEF Outcomes, Reasons
  <2> QED  BY <2>1, <2>2
<1> QED  BY <1>5, <1>10, <1>11, <1>12

(***************************************************************************)
(* Tasks, from one await to the next                                       *)
(***************************************************************************)
\* A task that works with the record has it, and the store has it too.
LEMMA AtWork ==
  ASSUME AuthInvariant, Steady
  PROVE  /\ client.record \in Records /\ client.record # NoRecord
         /\ ~client.storageError /\ store = client.record /\ Sound(client.record)
         /\ client.record.inst \in Installations
         /\ InOrder(client.record, server[client.record.inst], authClock)
<1>1. client.record # NoRecord /\ ~client.storageError /\ task.pc # "save"
  BY DEF AuthInvariant, Durable, Steady
<1>2. client.record \in Records /\ store = client.record /\ Sound(client.record)
  BY <1>1 DEF AuthInvariant, AuthTypeOK, ClientRecords, Durable
<1> QED  BY <1>1, <1>2 DEF Sound, SoundAt, Installations

LEMMA ExpiresKeeps ==
  ASSUME AuthInvariant, task.pc # "idle", UNCHANGED outside, store' = store, Expires
  PROVE  AuthInvariant'
<1>1. "absolute-expired" \in Reasons /\ "answer" \in Cleared
  BY DEF Reasons, Cleared
<1> QED  BY <1>1, Running, ClearsKeeps DEF Expires

\* A task that keeps the record goes on.
LEMMA GoesOnKeeps ==
  ASSUME AuthInvariant, Steady, UNCHANGED outside, store' = store,
         NEW pc \in {"resolve", "confirm", "decide", "begin", "grant", "candidate"},
         NEW after \in Saved, NEW cred \in Credentials \cup {Absent}, Named(cred),
         Leads(client, [task EXCEPT !.pc = pc, !.after = after, !.answer = Absent,
                                    !.cred = cred]),
         pc \in {"resolve", "confirm"} => after \in {"decide", "grant", "candidate"},
         pc \in {"decide", "begin"} => ~client.record.pending,
         pc = "begin" => client.record.dueAt <= authClock,
         pc = "confirm" => client.record.pending
  PROVE  AuthInvariant'
<1> DEFINE t == [task EXCEPT !.pc = pc, !.after = after, !.answer = Absent,
                             !.cred = cred]
<1>1. task.pc # "idle"
  BY DEF Steady
<1>2. /\ Apart /\ Keeps(client) /\ task \in Tasks /\ Named(task.keep)
      /\ task.outcome = "none"
  BY <1>1, Running
<1>3. client.record # NoRecord /\ ~client.storageError /\ store = client.record
  BY AtWork
<1>4. /\ t \in Tasks /\ t.pc = pc /\ t.after = after /\ t.cred = cred
      /\ t.keep = task.keep /\ t.answer = Absent /\ t.outcome = "none"
  BY <1>2 DEF Tasks, Places, Saved
<1>5. pc \in {"load", "awake", "resolve", "confirm", "decide", "begin", "redeem",
              "revoke"} \cup Saved
      /\ pc \notin {"recorded", "revoke"}
  BY DEF Saved
<1>6. Leads(client, t)
  OBVIOUS
<1> HIDE DEF t
<1> QED  BY <1>2, <1>3, <1>4, <1>5, <1>6, GoesKeeps

\* The same for Goes, which leaves everything but the place and the answer.
LEMMA GoesToKeeps ==
  ASSUME AuthInvariant, Steady, UNCHANGED outside, store' = store,
         NEW pc \in {"resolve", "confirm", "decide", "begin", "grant", "candidate"},
         Goes(pc),
         pc \in {"resolve", "confirm"} => task.after \in {"decide", "grant", "candidate"},
         pc \in {"decide", "begin"} => ~client.record.pending,
         pc = "begin" => client.record.dueAt <= authClock,
         pc = "confirm" => client.record.pending
  PROVE  AuthInvariant'
<1> DEFINE t == [task EXCEPT !.pc = pc, !.answer = Absent]
<1>1. task.pc # "idle"
  BY DEF Steady
<1>2. /\ Apart /\ Keeps(client) /\ task \in Tasks /\ Named(task.keep)
      /\ Named(task.cred) /\ task.outcome = "none"
  BY <1>1, Running
<1>3. client.record # NoRecord /\ ~client.storageError /\ store = client.record
  BY AtWork
<1>4. /\ t \in Tasks /\ t.pc = pc /\ t.after = task.after /\ t.cred = task.cred
      /\ t.keep = task.keep /\ t.answer = Absent /\ t.outcome = "none"
  BY <1>2 DEF Tasks, Places, Saved
<1>5. pc \in {"load", "awake", "resolve", "confirm", "decide", "begin", "redeem",
              "revoke"} \cup Saved
      /\ pc \notin {"recorded", "revoke"}
  BY DEF Saved
<1>6. Leads(client, t)
  BY DEF Goes
<1> HIDE DEF t
<1> QED  BY <1>2, <1>3, <1>4, <1>5, <1>6, GoesKeeps

\* A task ends as it is.
LEMMA EndsKeeps ==
  ASSUME AuthInvariant, task.pc # "idle", task.pc # "save", UNCHANGED outside,
         store' = store, NEW o \in Outcomes \ {"revoked"}, Gives(client, o),
         o \notin Reasons \ {"missing"},
         o \in {"ready", "lease", "recorded"} => Steady
  PROVE  AuthInvariant'
<1>1. Apart /\ Keeps(client)
  BY Running
<1>2. client.record # NoRecord /\ ~client.storageError => store = client.record
  BY DEF AuthInvariant, Durable
<1>3. o \in {"ready", "lease", "recorded"} =>
        client.record # NoRecord /\ ~client.storageError
  BY AtWork
<1> QED  BY <1>1, <1>2, <1>3, GivesKeeps

LEMMA ReadyKeeps == ASSUME AuthInvariant, Ready PROVE AuthInvariant'
<1>1. task.pc = "ready" /\ UNCHANGED outside /\ store' = store /\ Gives(client, "ready")
  BY DEF Ready, Steps
<1>2. Steady
  BY <1>1 DEF Steady
<1> QED  BY <1>1, <1>2, EndsKeeps DEF Outcomes, Reasons

LEMMA AwakeKeeps == ASSUME AuthInvariant, Awake PROVE AuthInvariant'
<1>1. task.pc = "awake" /\ UNCHANGED outside /\ store' = store
  BY DEF Awake, Steps
<1>2. /\ Apart /\ Keeps(client) /\ client \in ClientRecords /\ task \in Tasks
      /\ Named(client.pendingRevocation) /\ Named(task.cred) /\ Named(task.keep)
      /\ task.outcome = "none" /\ client.pendingClear \in Reasons \cup {Absent}
  BY <1>1, Running
<1>3. task.answer = Absent
  BY <1>1 DEF AuthInvariant, Flow, Goal
<1>4. /\ "absolute-expired" \in Reasons /\ "revocation-unconfirmed" \in Reasons
      /\ "revoke" \in Cleared /\ "redeem" \in Cleared
  BY DEF Reasons, Cleared
<1>5. CASE Gives(client, "unavailable")
  BY <1>1, <1>5, EndsKeeps DEF Outcomes, Reasons
<1>6. CASE task.cred # Absent
  <2>1. task.cred \in Credentials /\ task.cred.inst \in Installations
    BY <1>2, <1>6 DEF Tasks, Named
  <2>2. CASE Clears(client, task, "revocation-unconfirmed", "revoke")
    BY <1>1, <1>2, <1>3, <1>4, <2>1, <2>2, ClearsKeeps
  <2>3. CASE client.pendingClear # Absent /\ ClearsAgain(task, "revoke")
    <3>1. Leads(client, [task EXCEPT !.pc = "clear", !.after = "revoke"])
          /\ client.pendingClear \in Reasons
      BY <1>2, <2>3 DEF ClearsAgain
    <3> QED  BY <1>1, <1>2, <1>3, <1>4, <2>1, <3>1, ClearsAgainKeeps
  <2>4. CASE Clears(client, task, "absolute-expired", "redeem")
    BY <1>1, <1>2, <1>3, <1>4, <2>4, ClearsKeeps
  <2>5. CASE Goes("redeem")
    BY <1>1, <1>2, <2>5, GoesKeeps DEF Goes, Tasks, Places, Cleared, AuthInvariant, Durable
  <2> QED  BY <1>5, <1>6, <2>2, <2>3, <2>4, <2>5 DEF Awake
<1>7. CASE task.op = "enroll" /\ Clears(client, task, "absolute-expired", "redeem")
  BY <1>1, <1>2, <1>3, <1>4, <1>7, ClearsKeeps
<1>8. CASE task.op = "enroll" /\ Goes("redeem")
  BY <1>1, <1>2, <1>8, GoesKeeps DEF Goes, Tasks, Places, Cleared, AuthInvariant, Durable
<1>9. CASE task.op = "revoke" /\ task.cred = Absent
  <2>1. Steady
    BY <1>1, <1>9 DEF Steady
  <2>2. CASE Expires
    BY <1>1, <2>2, ExpiresKeeps
  <2>3. CASE Leads(client, [task EXCEPT !.pc = "resolve", !.after = "candidate"])
    <3>1. [task EXCEPT !.pc = "resolve", !.after = "candidate"] =
            [task EXCEPT !.pc = "resolve", !.after = "candidate", !.answer = Absent,
                         !.cred = Absent]
      BY <1>2, <1>3, <1>9 DEF Tasks
    <3>2. "candidate" \in Saved
      BY DEF Saved
    <3> QED  BY <1>1, <2>1, <2>3, <3>1, <3>2, NothingNamed, GoesOnKeeps
  <2> QED  BY <1>4, <1>5, <1>9, <2>2, <2>3 DEF Awake
<1> QED  BY <1>5, <1>6, <1>7, <1>8, <1>9 DEF Awake

LEMMA ResolveKeeps == ASSUME AuthInvariant, Resolve PROVE AuthInvariant'
<1> DEFINE r == client.record
<1>1. task.pc = "resolve" /\ UNCHANGED outside /\ store' = store
  BY DEF Resolve, Steps
<1>2. Steady
  BY <1>1 DEF Steady
<1>3. /\ Apart /\ client \in ClientRecords /\ task \in Tasks
      /\ Named(client.pendingRevocation) /\ Named(task.cred) /\ Named(task.keep)
      /\ task.outcome = "none"
  BY <1>1, Running
<1>4. r \in Records /\ Sound(r)
  BY <1>2, AtWork
<1>5. task.after \in {"decide", "grant", "candidate"} /\ task.answer = Absent
  BY <1>1 DEF AuthInvariant, Flow, Goal
<1>6. CASE ~r.pending
  <2>1. Goes(task.after)
    BY <1>6 DEF Resolve
  <2> QED  BY <1>1, <1>2, <1>5, <1>6, <2>1, GoesToKeeps
<1>7. CASE r.pending /\ PendingExpired(r)
  <2>1. Persists(client, task, CurrentOnly(r), task.after)
    BY <1>7 DEF Resolve
  <2>2. CurrentOnly(r) \in Records /\ ~CurrentOnly(r).pending
    BY <1>4, CurrentOnlyFields
  <2>3. Sound(CurrentOnly(r))
    BY <1>4, <1>7, SoundGivenUp DEF PendingExpired, AuthInvariant
  <2>4. task.after \in Saved /\ task.after # "recorded"
    BY <1>5 DEF Saved
  <2> QED  BY <1>1, <1>3, <1>5, <2>1, <2>2, <2>3, <2>4, PersistsKeeps
<1>8. CASE r.pending /\ ~PendingExpired(r)
  <2>1. Goes("confirm")
    BY <1>8 DEF Resolve
  <2> QED  BY <1>1, <1>2, <1>5, <1>8, <2>1, GoesToKeeps
<1> QED  BY <1>6, <1>7, <1>8

LEMMA PendingIsCredential ==
  ASSUME NEW r \in Records, r.inst \in Installations
  PROVE  /\ Pending(r) \in Credentials /\ Named(Pending(r))
         /\ Pending(r).inst = r.inst /\ Pending(r).secret = r.pendingExpires
         /\ Current(r) \in Credentials /\ Named(Current(r))
         /\ Current(r).inst = r.inst /\ Current(r).secret = r.secret
BY DEF Pending, Current, Credentials, Records, Named

\* The answer to a confirmation is still true when the controller takes it.
LEMMA ConfirmedKeeps == ASSUME AuthInvariant, Confirmed PROVE AuthInvariant'
<1> DEFINE r == client.record
           a == task.answer
           k == IF task.op = "revoke" THEN Pending(r) ELSE Absent
<1>1. task.pc = "confirm" /\ UNCHANGED outside /\ store' = store /\ a # Absent
  BY DEF Confirmed, Steps
<1>2. Steady
  BY <1>1 DEF Steady
<1>3. /\ Apart /\ client \in ClientRecords /\ task \in Tasks
      /\ Named(client.pendingRevocation) /\ Named(task.cred) /\ Named(task.keep)
      /\ task.outcome = "none"
  BY <1>1, Running
<1>4. r \in Records /\ Sound(r) /\ r.inst \in Installations
  BY <1>2, AtWork
<1>5. task.after \in {"decide", "grant", "candidate"} /\ r.pending
  BY <1>1 DEF AuthInvariant, Flow, Goal
<1>6. task.after \in Saved /\ task.after # "recorded"
  BY <1>5 DEF Saved
<1>7. /\ Pending(r) \in Credentials /\ Named(Pending(r)) /\ Named(k)
      /\ k \in Credentials \cup {Absent}
  BY <1>4, PendingIsCredential, NothingNamed
<1>8. /\ a.kind = "ok" => server[r.inst].secret = r.pendingExpires
      /\ a.kind = "401" =>
           ~RowValid(server[r.inst]) \/ authClock >= r.pendingExpires
  BY <1>1 DEF AuthInvariant, Answered
<1>9. CASE Expires
  BY <1>1, <1>9, ExpiresKeeps
<1>10. CASE /\ a.kind = "ok"
            /\ Persists(client, [task EXCEPT !.answer = Absent, !.keep = k],
                        PromotedRecord(r), task.after)
  <2> DEFINE t == [task EXCEPT !.answer = Absent, !.keep = k]
             p == PromotedRecord(r)
  <2>1. p \in Records /\ ~p.pending
    BY <1>4, PromotedFields DEF AuthInvariant, AuthTypeOK
  <2>2. Sound(p)
    BY <1>4, <1>5, <1>8, <1>10, SoundPromoted DEF AuthInvariant
  <2> HIDE DEF k
  <2>3. /\ t \in Tasks /\ t.cred = task.cred /\ t.keep = k /\ t.outcome = "none"
        /\ t.answer = Absent
    BY <1>3, <1>7 DEF Tasks
  <2>4. Persists(client, t, p, task.after)
    BY <1>10
  <2> HIDE DEF t, p
  <2> QED  BY <1>1, <1>3, <1>6, <1>7, <2>1, <2>2, <2>3, <2>4, PersistsKeeps
<1>11. CASE /\ PendingExpired(r) \/ ConfirmRefused
            /\ Persists(client, [task EXCEPT !.answer = Absent], CurrentOnly(r), task.after)
  <2> DEFINE t == [task EXCEPT !.answer = Absent]
             p == CurrentOnly(r)
  <2>1. p \in Records /\ ~p.pending
    BY <1>4, CurrentOnlyFields
  <2>2. Sound(p)
    BY <1>4, <1>8, <1>11, SoundGivenUp
       DEF PendingExpired, ConfirmRefused, AuthInvariant, RowValid, ValidAt
  <2>3. /\ t \in Tasks /\ t.cred = task.cred /\ t.keep = task.keep
        /\ t.outcome = "none" /\ t.answer = Absent
    BY <1>3 DEF Tasks
  <2>4. Persists(client, t, p, task.after)
    BY <1>11
  <2> HIDE DEF t, p
  <2> QED  BY <1>1, <1>3, <1>6, <2>1, <2>2, <2>3, <2>4, PersistsKeeps
<1>12. CASE Leads(client, [task EXCEPT !.pc = "candidate", !.answer = Absent,
                                       !.cred = Pending(r)])
  <2>1. [task EXCEPT !.pc = "candidate", !.answer = Absent, !.cred = Pending(r)] =
          [task EXCEPT !.pc = "candidate", !.after = task.after, !.answer = Absent,
                       !.cred = Pending(r)]
    BY <1>3 DEF Tasks
  <2> QED  BY <1>1, <1>2, <1>6, <1>7, <1>12, <2>1, GoesOnKeeps
<1>13. CASE Gives(client, "unavailable")
  BY <1>1, <1>13, EndsKeeps DEF Outcomes, Reasons
<1> QED  BY <1>9, <1>10, <1>11, <1>12, <1>13 DEF Confirmed

LEMMA DecideKeeps == ASSUME AuthInvariant, Decide PROVE AuthInvariant'
<1>1. task.pc = "decide" /\ UNCHANGED outside /\ store' = store
  BY DEF Decide, Steps
<1>2. Steady /\ ~client.record.pending
  BY <1>1 DEF Steady, AuthInvariant, Flow, Goal
<1>3. CASE Expires
  BY <1>1, <1>3, ExpiresKeeps
<1>4. CASE authClock >= client.record.dueAt /\ Goes("begin")
  <2>1. client.record.dueAt <= authClock
    BY <1>2, <1>4, AtWork DEF AuthInvariant, AuthTypeOK, Records
  <2> QED  BY <1>1, <1>2, <1>4, <2>1, GoesToKeeps
<1>5. CASE Goes("grant")
  BY <1>1, <1>2, <1>5, GoesToKeeps
<1> QED  BY <1>3, <1>4, <1>5 DEF Decide

LEMMA BegunKeeps == ASSUME AuthInvariant, Begun PROVE AuthInvariant'
<1> DEFINE r == client.record
           a == task.answer
<1>1. task.pc = "begin" /\ UNCHANGED outside /\ store' = store /\ a # Absent
  BY DEF Begun, Steps
<1>2. Steady /\ ~r.pending /\ r.dueAt <= authClock
  BY <1>1 DEF Steady, AuthInvariant, Flow, Goal
<1>3. /\ Apart /\ client \in ClientRecords /\ task \in Tasks
      /\ Named(client.pendingRevocation) /\ Named(task.cred) /\ Named(task.keep)
      /\ task.outcome = "none" /\ a \in AnswersGiven
  BY <1>1, Running DEF Tasks
<1>4. r \in Records /\ Sound(r)
  BY <1>2, AtWork
<1>5. CASE Expires
  BY <1>1, <1>5, ExpiresKeeps
<1>6. CASE Clears(client, task, "credential-rejected", "answer")
  <2>1. "credential-rejected" \in Reasons /\ "answer" \in Cleared
    BY DEF Reasons, Cleared
  <2> QED  BY <1>1, <1>3, <1>6, <2>1, ClearsKeeps
<1>7. CASE Goes("grant")
  BY <1>1, <1>2, <1>7, GoesToKeeps
<1>8. CASE Gives(client, "unavailable")
  BY <1>1, <1>8, EndsKeeps DEF Outcomes, Reasons
<1>9. CASE /\ a.kind = "ok"
           /\ Persists(client, [task EXCEPT !.answer = Absent],
                       WithPending(r, a.expires), "pended")
  <2> DEFINE t == [task EXCEPT !.answer = Absent]
             p == WithPending(r, a.expires)
  <2>1. a.expires \in Nat
    BY <1>3 DEF AnswersGiven
  <2>2. p \in Records
    BY <1>4, <2>1, PendingFields
  <2>3. /\ Held(server[r.inst], a.expires, authClock)
        /\ a.expires <= server[r.inst].absolute
        /\ a.expires <= authClock + PendingTtl
    BY <1>1, <1>9 DEF AuthInvariant, Answered
  <2>4. Sound(p)
    BY <1>2, <1>4, <2>1, <2>3, SoundPended DEF AuthInvariant
  <2>5. /\ t \in Tasks /\ t.cred = task.cred /\ t.keep = task.keep
        /\ t.outcome = "none" /\ t.answer = Absent
    BY <1>3 DEF Tasks
  <2>6. Persists(client, t, p, "pended") /\ "pended" \in Saved
    BY <1>9 DEF Saved
  <2> HIDE DEF t, p
  <2> QED  BY <1>1, <1>3, <2>2, <2>4, <2>5, <2>6, PersistsKeeps
<1> QED  BY <1>5, <1>6, <1>7, <1>8, <1>9 DEF Begun

LEMMA PendedKeeps == ASSUME AuthInvariant, Pended PROVE AuthInvariant'
<1>1. /\ task.pc = "pended" /\ UNCHANGED outside /\ store' = store
      /\ Leads(client, [task EXCEPT !.pc = "resolve", !.after = "grant"])
  BY DEF Pended, Steps
<1>2. Steady /\ task.answer = Absent
  BY <1>1 DEF Steady, AuthInvariant, Flow, Goal
<1>3. task \in Tasks /\ Named(task.cred) /\ task.cred \in Credentials \cup {Absent}
  BY <1>1, Running DEF Tasks
<1>4. [task EXCEPT !.pc = "resolve", !.after = "grant"] =
        [task EXCEPT !.pc = "resolve", !.after = "grant", !.answer = Absent,
                     !.cred = task.cred]
  BY <1>2, <1>3 DEF Tasks
<1>5. "grant" \in Saved
  BY DEF Saved
<1> QED  BY <1>1, <1>2, <1>3, <1>4, <1>5, GoesOnKeeps

LEMMA GrantKeeps == ASSUME AuthInvariant, Grant PROVE AuthInvariant'
<1> DEFINE g == GrantOf(client.record, grants + 1)
           c == [client EXCEPT !.grant = g]
<1>1. task.pc = "grant" /\ store' = store /\ task.pc # "idle" /\ task.pc # "save"
  BY DEF Grant
<1>2. /\ Steady /\ client.record \in Records /\ client.record # NoRecord
      /\ ~client.storageError /\ store = client.record
  BY <1>1, AtWork DEF Steady
<1>3. CASE Expires /\ UNCHANGED grants
  <2>1. UNCHANGED outside
    BY <1>3 DEF Grant, outside
  <2> QED  BY <1>1, <1>3, <2>1, ExpiresKeeps
<1>4. CASE Gives(client, "unavailable") /\ UNCHANGED grants
  <2>1. UNCHANGED outside
    BY <1>4 DEF Grant, outside
  <2> QED  BY <1>1, <1>4, <2>1, EndsKeeps DEF Outcomes, Reasons
<1>5. CASE grants' = grants + 1 /\ Gives(c, "ready")
  <2>1. Apart
    BY <1>5 DEF Grant, Apart, AuthInvariant, AuthTypeOK
  <2>2. g \in GrantsHeld
    BY <1>2 DEF GrantOf, GrantsHeld, Records, AuthInvariant, AuthTypeOK
  <2> HIDE DEF g
  <2>3. /\ c \in ClientRecords /\ c.record = client.record
        /\ c.pendingRevocation = client.pendingRevocation
        /\ c.storageError = client.storageError
    BY <2>2 DEF ClientRecords, AuthInvariant, AuthTypeOK
  <2> HIDE DEF c
  <2>4. Keeps(c)
    BY <1>2, <2>3, ClientKeeps DEF Keeps
  <2> QED  BY <1>1, <1>2, <1>5, <2>1, <2>3, <2>4, GivesKeeps DEF Outcomes, Reasons
<1>6. CASE /\ grants' = grants + 1
           /\ Gives([client EXCEPT !.grant = GrantOf(client.record, grants')], "ready")
  BY <1>5, <1>6
<1> QED  BY <1>3, <1>4, <1>6 DEF Grant

LEMMA RecordedKeeps == ASSUME AuthInvariant, Recorded PROVE AuthInvariant'
<1> DEFINE b == [client.callback EXCEPT !.phase = "authenticated"]
           c == [client EXCEPT !.callback = b]
<1>1. task.pc = "recorded" /\ UNCHANGED outside /\ store' = store
  BY DEF Recorded, Steps
<1>2. /\ Steady /\ client.record # NoRecord
      /\ ~client.storageError /\ store = client.record
  BY <1>1, AtWork DEF Steady
<1>3. CASE Expires
  BY <1>1, <1>3, ExpiresKeeps
<1>4. CASE Gives(c, "recorded")
  <2>1. client.callback \in Callbacks
    BY <1>1 DEF AuthInvariant, Flow, Goal
  <2>2. b \in Callbacks
    BY <2>1 DEF Callbacks
  <2> HIDE DEF b
  <2>3. /\ c \in ClientRecords /\ c.record = client.record
        /\ c.pendingRevocation = client.pendingRevocation
        /\ c.storageError = client.storageError /\ c.grant = client.grant
    BY <2>2 DEF ClientRecords, AuthInvariant, AuthTypeOK
  <2> HIDE DEF c
  <2>4. Keeps(c) /\ Apart
    BY <1>1, <1>2, <2>3, Running DEF Keeps
  <2> QED  BY <1>1, <1>2, <1>4, <2>3, <2>4, GivesKeeps DEF Outcomes, Reasons
<1> QED  BY <1>3, <1>4 DEF Recorded

LEMMA CandidateKeeps == ASSUME AuthInvariant, Candidate PROVE AuthInvariant'
<1> DEFINE k == IF task.cred = Absent THEN Current(client.record) ELSE task.cred
           t == [task EXCEPT !.cred = k]
<1>1. task.pc = "candidate" /\ UNCHANGED outside /\ store' = store
  BY DEF Candidate, Steps
<1>2. /\ Steady /\ client.record \in Records /\ client.record.inst \in Installations
  BY <1>1, AtWork DEF Steady
<1>3. /\ Apart /\ client \in ClientRecords /\ task \in Tasks
      /\ Named(client.pendingRevocation) /\ Named(task.cred) /\ Named(task.keep)
      /\ task.outcome = "none" /\ task.cred \in Credentials \cup {Absent}
  BY <1>1, Running DEF Tasks
<1>4. k \in Credentials /\ k.inst \in Installations
  BY <1>2, <1>3, PendingIsCredential DEF Named
<1>5. task.answer = Absent
  BY <1>1 DEF AuthInvariant, Flow, Goal
<1>6. CASE Expires
  BY <1>1, <1>6, ExpiresKeeps
<1>7. CASE Clears(client, t, "revocation-unconfirmed", "revoke")
  <2> HIDE DEF k
  <2>1. /\ t \in Tasks /\ t.cred = k /\ t.keep = task.keep
        /\ t.outcome = "none" /\ t.answer = Absent
    BY <1>3, <1>4, <1>5 DEF Tasks
  <2>2. "revocation-unconfirmed" \in Reasons /\ "revoke" \in Cleared
    BY DEF Reasons, Cleared
  <2>3. Named(k)
    BY <1>4 DEF Named
  <2> HIDE DEF t
  <2> QED  BY <1>1, <1>3, <1>4, <1>7, <2>1, <2>2, <2>3, ClearsKeeps
<1> QED  BY <1>6, <1>7 DEF Candidate

\* A credential is reported revoked only when the relay holds it so.
LEMMA RevokedKeeps == ASSUME AuthInvariant, Revoked PROVE AuthInvariant'
<1> DEFINE c == [client EXCEPT !.pendingRevocation = Absent]
           o == IF task.answer.kind = "ok" THEN "revoked" ELSE "revocation-unconfirmed"
<1>1. task.pc = "revoke" /\ UNCHANGED outside /\ store' = store /\ task.answer # Absent
  BY DEF Revoked, Steps
<1>2. /\ Apart /\ Keeps(client) /\ task \in Tasks /\ Named(task.cred)
  BY <1>1, Running
<1>3. /\ store = NoRecord
      /\ client.record # NoRecord /\ ~client.storageError => store = client.record
  BY <1>1 DEF AuthInvariant, Durable
<1>4. client' = c /\ task' = [NoTask EXCEPT !.cred = task.cred, !.outcome = o]
  BY DEF Revoked, Leads
<1>5. o = "revoked" => server[task.cred.inst].status = "revoked"
  BY <1>1 DEF AuthInvariant, Answered
<1>6. o \in {"revoked", "revocation-unconfirmed"}
  OBVIOUS
<1> HIDE DEF o
<1>7. /\ task' \in Tasks /\ task'.pc = "idle" /\ task'.op = "none"
      /\ task'.answer = Absent /\ task'.cred = task.cred /\ task'.keep = Absent
      /\ task'.outcome = o
  BY <1>2, <1>4, <1>6 DEF NoTask, Tasks, Operations, Places, Cleared, Outcomes, Reasons
<1>8. /\ c \in ClientRecords /\ c.record = client.record /\ c.pendingRevocation = Absent
      /\ c.grant = client.grant /\ c.storageError = client.storageError
  BY <1>2 DEF ClientRecords, Keeps
<1> HIDE DEF c
<1>9. Keeps(c)
  BY <1>2, <1>8 DEF Keeps, Named
<1>10. AuthTypeOK'
  BY <1>1, <1>4, <1>7, <1>9 DEF AuthInvariant, AuthTypeOK, Apart, Keeps, outside
<1>11. RowsInOrder' /\ Credited'
  BY <1>2, <1>4, <1>7, <1>9 DEF AuthInvariant, RowsInOrder, Credited, Apart, Keeps, Named,
                          Installations
<1>12. Sound(store)' /\ Sound(client.record)'
  BY <1>1, <1>2, <1>4, <1>8, ApartIsSound DEF AuthInvariant, Sound, Apart
<1>13. Flow' /\ Answered'
  <2>1. task.cred \in Credentials /\ task.cred.inst \in Installations
    BY <1>1 DEF AuthInvariant, Flow, Goal
  <2> QED  BY <1>2, <1>7, <2>1 DEF Flow, Answered, Goal, Apart, Installations
<1>14. Durable'
  BY <1>1, <1>3, <1>4, <1>7, <1>8, <1>9 DEF Durable, Steady, Keeps
<1>15. AnswersDurable'
  BY <1>1, <1>2, <1>3, <1>5, <1>6, <1>7 DEF AnswersDurable, Apart
<1> QED  BY <1>10, <1>11, <1>12, <1>13, <1>14, <1>15 DEF AuthInvariant

LEMMA EnrolledKeeps == ASSUME AuthInvariant, Enrolled PROVE AuthInvariant'
<1> DEFINE i == task.answer.expires
           r == AsInstallationRecord(server[i], i)
           c == [client EXCEPT !.initialized = TRUE]
<1>1. task.pc = "redeem" /\ UNCHANGED outside /\ store' = store /\ task.answer # Absent
  BY DEF Enrolled, Steps
<1>2. /\ Apart /\ Keeps(client) /\ task \in Tasks /\ Named(task.cred)
      /\ Named(task.keep) /\ task.outcome = "none" /\ client \in ClientRecords
      /\ Named(client.pendingRevocation)
  BY <1>1, Running
<1>3. CASE \/ Gives(client, "pairing-uncertain") \/ Gives(client, "pairing-failed")
  BY <1>1, <1>3, EndsKeeps DEF Outcomes, Reasons
<1>4. CASE task.answer.kind = "ok" /\ Persists(c, task, r, "ready")
  <2>1. i \in Installations /\ server[i].secret = 0 /\ \A m \in adrift : m.cred.inst # i
    BY <1>1, <1>4 DEF AuthInvariant, Answered
  <2>2. r \in Records /\ Sound(r)
    BY <2>1, SoundInstallation DEF AuthInvariant
  <2> HIDE DEF r
  <2>3. /\ c \in ClientRecords /\ c.pendingRevocation = client.pendingRevocation
    BY <1>2 DEF ClientRecords
  <2> HIDE DEF c
  <2> QED  BY <1>1, <1>2, <1>4, <2>2, <2>3, PersistsKeeps DEF Saved
<1> QED  BY <1>3, <1>4 DEF Enrolled

(***************************************************************************)
(* Requests, reloads and time                                              *)
(***************************************************************************)
\* A request that is served leaves one row different, and the record it was
\* made of still fits.
LEMMA ServingKeeps ==
  ASSUME AuthInvariant, NEW kind \in {"confirm", "begin", "revoke"},
         NEW cred \in Credentials, cred.inst \in Installations,
         server' = [server EXCEPT ![cred.inst] =
                      At(kind, server[cred.inst], cred.secret).row],
         UNCHANGED <<authClock, store, client>>, adrift' \in SUBSET adrift,
         kind = "confirm" =>
           \A r \in {store, client.record} :
             r # NoRecord /\ r.inst = cred.inst /\ authClock < cred.secret
               /\ ValidAt(server[cred.inst], authClock) => Names(r, cred.secret)
  PROVE  /\ server' \in Seq(Rows) /\ Installations' = Installations
         /\ Sound(store)' /\ Sound(client.record)' /\ RowsInOrder'
         /\ RowStep(server[cred.inst], server'[cred.inst], authClock, kind, cred.secret)
         /\ \A i \in Installations : i # cred.inst => server'[i] = server[i]
<1> DEFINE i == cred.inst
           row == At(kind, server[i], cred.secret).row
<1>1. /\ authClock \in Nat /\ server \in Seq(Rows) /\ adrift \in SUBSET Messages
      /\ store \in Records \cup {NoRecord} /\ client.record \in Records \cup {NoRecord}
      /\ cred.secret \in Nat /\ i \in 1..Len(server) /\ server[i] \in Rows
  BY DEF AuthInvariant, AuthTypeOK, ClientRecords, Credentials, Installations
<1>2. RowStep(server[i], row, authClock, kind, cred.secret)
  BY <1>1, ServedRow
<1> HIDE DEF row
<1>3. row \in Rows /\ server' = [server EXCEPT ![i] = row]
  BY <1>2 DEF RowStep, row
<1>4. /\ server' \in Seq(Rows) /\ Len(server') = Len(server) /\ server'[i] = row
      /\ \A j \in 1..Len(server) : j # i => server'[j] = server[j]
  BY <1>1, <1>3, ExceptSeq
<1>5. \A r \in {store, client.record} : SoundAt(r, server', authClock, adrift)
  <2> TAKE r \in {store, client.record}
  <2>1. SoundAt(r, server, authClock, adrift) /\ r \in Records \cup {NoRecord}
    BY <1>1 DEF AuthInvariant, Sound
  <2>2. r # NoRecord /\ r.inst = i /\ kind = "confirm" /\ authClock < cred.secret
          /\ ValidAt(server[i], authClock) => Names(r, cred.secret)
    OBVIOUS
  <2>3. SoundAt(r, [server EXCEPT ![i] = row], authClock, adrift)
    <3> DEFINE secret == cred.secret
    <3>1. RowStep(server[i], row, authClock, kind, secret) /\ secret \in Nat
      BY <1>1, <1>2
    <3>2. i \in 1..Len(server) /\ authClock \in Nat /\ server \in Seq(Rows)
          /\ adrift \in SUBSET Messages
      BY <1>1
    <3>3. r # NoRecord /\ r.inst = i /\ kind = "confirm" /\ authClock < secret
            /\ ValidAt(server[i], authClock) => Names(r, secret)
      BY <2>2
    <3> HIDE DEF secret, i
    <3> QED  BY <2>1, <3>1, <3>2, <3>3, SoundServed
  <2> QED  BY <1>3, <2>3
<1>6. Sound(store)' /\ Sound(client.record)'
  <2>1. \A r \in {store, client.record} : SoundAt(r, server', authClock, adrift')
    BY <1>5, SoundOtherMessages
  <2> QED  BY <2>1 DEF Sound
<1>7. RowsInOrder'
  BY <1>1, <1>2, <1>4 DEF AuthInvariant, RowsInOrder, RowStep, Installations
<1> QED  BY <1>2, <1>4, <1>6, <1>7 DEF Installations

\* What the request in flight presents, and what kind of request it is.
LEMMA InFlightCredential ==
  ASSUME AuthInvariant, InFlight
  PROVE  /\ Presented \in Credentials /\ Presented.inst \in Installations
         /\ task.pc \in {"confirm", "begin", "revoke"}
         /\ task.pc \in {"confirm", "begin"} =>
              /\ store = client.record /\ client.record \in Records
              /\ client.record.inst = Presented.inst
         /\ task.pc = "confirm" =>
              /\ client.record.pending
              /\ client.record.pendingExpires = Presented.secret
<1>1. task.pc \in {"confirm", "begin", "revoke"}
  BY DEF InFlight
<1>2. CASE task.pc \in {"confirm", "begin"}
  <2>1. /\ client.record \in Records /\ store = client.record
        /\ client.record.inst \in Installations
    BY <1>2, AtWork DEF Steady
  <2>2. task.pc = "confirm" => client.record.pending
    BY DEF AuthInvariant, Flow
  <2> QED  BY <1>2, <2>1, <2>2, PendingIsCredential DEF Presented
<1>3. CASE task.pc = "revoke"
  BY <1>3 DEF AuthInvariant, Flow, Goal, Presented
<1> QED  BY <1>1, <1>2, <1>3

LEMMA AnswersFields ==
  ASSUME AuthTypeOK, NEW a \in AnswersGiven, Answers(a)
  PROVE  /\ task' \in Tasks /\ task'.answer = a /\ task'.pc = task.pc
         /\ task'.op = task.op /\ task'.after = task.after /\ task'.cred = task.cred
         /\ task'.keep = task.keep /\ task'.outcome = task.outcome
BY DEF AuthTypeOK, Answers, Tasks

LEMMA FailureIsAnswer == Failure \in AnswersGiven /\ Failure.kind = "fail"
BY DEF Failure, AnswersGiven

LEMMA ServeKeeps == ASSUME AuthInvariant, Serve PROVE AuthInvariant'
<1> DEFINE cred == Presented
           s == server[cred.inst]
           at == At(task.pc, s, cred.secret)
<1>1. /\ InFlight /\ UNCHANGED <<authClock, store, client, adrift, grants>>
      /\ server' = [server EXCEPT ![cred.inst] = at.row]
      /\ Answers(at.answer) \/ Answers(Failure)
  BY DEF Serve
<1>2. /\ cred \in Credentials /\ cred.inst \in Installations
      /\ task.pc \in {"confirm", "begin", "revoke"}
      /\ task.pc \in {"confirm", "begin"} =>
           /\ store = client.record /\ client.record \in Records
           /\ client.record.inst = cred.inst
      /\ task.pc = "confirm" =>
           /\ client.record.pending /\ client.record.pendingExpires = cred.secret
  BY <1>1, InFlightCredential
<1>3. s \in Rows /\ cred.secret \in Nat /\ authClock \in Nat /\ AuthTypeOK
  BY <1>2 DEF AuthInvariant, AuthTypeOK, Installations, Credentials
<1>4. at.answer \in AnswersGiven
  BY <1>2, <1>3, ServedRow
<1> HIDE DEF cred
<1>5. /\ server' \in Seq(Rows) /\ Installations' = Installations
      /\ Sound(store)' /\ Sound(client.record)' /\ RowsInOrder'
      /\ RowStep(s, server'[cred.inst], authClock, task.pc, cred.secret)
      /\ \A i \in Installations : i # cred.inst => server'[i] = server[i]
  <2>1. task.pc = "confirm" => \A r \in {store, client.record} : Names(r, cred.secret)
    BY <1>2 DEF Names
  <2> QED  BY <1>1, <1>2, <2>1, ServingKeeps
<1>6. server'[cred.inst] = at.row
  BY <1>1, <1>2, <1>3 DEF AuthTypeOK, Installations
<1>7. PICK a : a \in AnswersGiven /\ (a = at.answer \/ a = Failure) /\ Answers(a)
  BY <1>1, <1>4, FailureIsAnswer
<1>8. /\ task' \in Tasks /\ task'.answer = a /\ task'.pc = task.pc
      /\ task'.op = task.op /\ task'.after = task.after /\ task'.cred = task.cred
      /\ task'.keep = task.keep /\ task'.outcome = task.outcome
  BY <1>3, <1>7, AnswersFields
<1>9. AuthTypeOK' /\ Credited'
  BY <1>1, <1>5, <1>8 DEF AuthInvariant, AuthTypeOK, Credited, Named
<1>10. Flow' /\ Durable'
  BY <1>1, <1>2, <1>5, <1>8 DEF AuthInvariant, Flow, Durable, Steady, Goal
<1>11. AnswersDurable'
  BY <1>2, <1>8, <1>10 DEF Flow, AnswersDurable
<1>12. Answered'
  <2> SUFFICES ASSUME a.kind # "fail"
               PROVE  Answered'
    BY <1>2, <1>8 DEF Answered
  <2>1. a = at.answer
    BY <1>7, FailureIsAnswer
  <2>2. CASE task.pc = "confirm"
    <3>1. at = PromoteAt(s, cred.secret)
      BY <2>2 DEF At
    <3>2. s.secret # 0 => s.version > 1
      BY <1>2 DEF AuthInvariant, RowsInOrder
    <3>3. Held(s, cred.secret, authClock)
      BY <1>2, <2>2, AtWork DEF Steady, InOrder
    <3>4. /\ a.kind = "ok" => at.row.secret = cred.secret
          /\ a.kind = "401" => /\ at.row = s
                               /\ ~ValidAt(s, authClock) \/ authClock >= cred.secret
      BY <1>3, <2>1, <3>1, <3>2, <3>3, AnswerIsTrue
    <3> HIDE DEF at, s
    <3>5. ~RowValid(s)' <=> ~ValidAt(s', authClock)
      BY <1>1 DEF RowValid, ValidAt
    <3>6. /\ client'.record.inst = cred.inst
          /\ client'.record.pendingExpires = cred.secret
          /\ server'[client'.record.inst] = at.row
      BY <1>1, <1>2, <1>6, <2>2
    <3> QED  BY <1>1, <1>8, <2>2, <3>4, <3>6 DEF Answered, RowValid, ValidAt
  <2>3. CASE task.pc = "begin"
    <3>1. at = BeginAt(s, cred.secret)
      BY <2>3 DEF At
    <3>2. a.kind = "ok" => /\ Held(at.row, a.expires, authClock)
                           /\ a.expires <= s.absolute
                           /\ a.expires <= authClock + PendingTtl
      BY <1>3, <2>1, <3>1, AnswerIsTrue
    <3>3. at.row.absolute = s.absolute
      BY <1>5, <1>6 DEF RowStep
    <3> HIDE DEF at, s
    <3>4. server'[client'.record.inst] = at.row
      BY <1>1, <1>2, <1>6, <2>3
    <3> QED  BY <1>1, <1>8, <2>3, <3>2, <3>3, <3>4 DEF Answered
  <2>4. CASE task.pc = "revoke"
    <3>1. at = RevokeAt(s, cred.secret)
      BY <2>4 DEF At
    <3>2. a.kind = "ok" => at.row.status = "revoked"
      BY <1>3, <2>1, <3>1, AnswerIsTrue
    <3>3. cred = task.cred
      BY <2>4 DEF Presented, cred
    <3> HIDE DEF at, s
    <3> QED  BY <1>6, <1>8, <2>4, <3>2, <3>3 DEF Answered
  <2> QED  BY <1>2, <2>2, <2>3, <2>4
<1> QED  BY <1>5, <1>9, <1>10, <1>11, <1>12 DEF AuthInvariant

\* The requests that lose their caller keep naming what the record names.
LEMMA StillExpected ==
  ASSUME AuthInvariant, InFlight,
         adrift' \in {adrift, {[kind |-> task.pc, cred |-> Presented]}}
  PROVE  /\ adrift' \subseteq Messages
         /\ \A m \in adrift' : m.cred.inst \in Installations
         /\ SoundAt(store, server, authClock, adrift')
         /\ SoundAt(client.record, server, authClock, adrift')
<1> DEFINE cred == Presented
           n == [kind |-> task.pc, cred |-> cred]
<1>1. /\ cred \in Credentials /\ cred.inst \in Installations
      /\ task.pc \in {"confirm", "begin", "revoke"}
      /\ task.pc = "confirm" => /\ store = client.record /\ client.record.pending
                                /\ client.record.pendingExpires = cred.secret
  BY InFlightCredential
<1>2. adrift' \in {adrift, {n}} /\ n.kind = task.pc /\ n.cred = cred
  OBVIOUS
<1> HIDE DEF cred
<1>3. n \in Messages
  BY <1>1 DEF Messages
<1> HIDE DEF n
<1>4. \A m \in adrift' \ adrift : m = n
  BY <1>2
<1>5. \A r \in {store, client.record} : SoundAt(r, server, authClock, adrift')
  <2> TAKE r \in {store, client.record}
  <2>1. SoundAt(r, server, authClock, adrift)
    BY DEF AuthInvariant, Sound
  <2>2. \A m \in adrift' \ adrift :
          m.kind = "confirm" /\ m.cred.inst = r.inst => Names(r, m.cred.secret)
    BY <1>1, <1>2, <1>4 DEF Names
  <2> QED  BY <2>1, <2>2, SoundOtherMessages
<1> QED  BY <1>1, <1>2, <1>3, <1>5 DEF AuthInvariant, AuthTypeOK, Credited

LEMMA LoseKeeps == ASSUME AuthInvariant, Lose PROVE AuthInvariant'
<1>1. /\ InFlight /\ Answers(Failure)
      /\ adrift' \in {adrift, {[kind |-> task.pc, cred |-> Presented]}}
      /\ UNCHANGED <<authClock, store, server, client, grants>>
  BY DEF Lose
<1>2. AuthTypeOK /\ task.pc \in {"confirm", "begin", "revoke"}
  BY <1>1 DEF AuthInvariant, InFlight
<1>3. /\ task' \in Tasks /\ task'.answer = Failure /\ task'.pc = task.pc
      /\ task'.op = task.op /\ task'.after = task.after /\ task'.cred = task.cred
      /\ task'.keep = task.keep /\ task'.outcome = task.outcome
  BY <1>1, <1>2, AnswersFields, FailureIsAnswer
<1>4. /\ adrift' \subseteq Messages /\ \A m \in adrift' : m.cred.inst \in Installations
      /\ SoundAt(store, server, authClock, adrift')
      /\ SoundAt(client.record, server, authClock, adrift')
  BY <1>1, StillExpected
<1>5. AuthTypeOK' /\ Credited' /\ RowsInOrder'
  BY <1>1, <1>3, <1>4 DEF AuthInvariant, AuthTypeOK, Credited, Named, Installations,
                          RowsInOrder
<1>6. Sound(store)' /\ Sound(client.record)'
  BY <1>1, <1>4 DEF Sound
<1>7. Flow' /\ Durable'
  BY <1>1, <1>2, <1>3 DEF AuthInvariant, Flow, Durable, Steady, Goal, Installations
<1>8. Answered' /\ AnswersDurable'
  BY <1>2, <1>3, <1>7, FailureIsAnswer DEF Answered, AnswersDurable, Flow
<1> QED  BY <1>5, <1>6, <1>7, <1>8 DEF AuthInvariant

LEMMA RestartKeeps == ASSUME AuthInvariant, Restart PROVE AuthInvariant'
<1>1. /\ client' = FreshClient /\ task' = NoTask
      /\ UNCHANGED <<authClock, store, server, grants>>
  BY DEF Restart
<1>2. /\ client' \in ClientRecords /\ client'.record = NoRecord
      /\ client'.pendingRevocation = Absent /\ client'.grant = Absent
  BY <1>1 DEF FreshClient, ClientRecords
<1>3. /\ task' \in Tasks /\ task'.pc = "idle" /\ task'.op = "none"
      /\ task'.answer = Absent /\ task'.cred = Absent /\ task'.keep = Absent
      /\ task'.outcome = "none"
  BY <1>1 DEF NoTask, Tasks, Operations, Places, Cleared, Outcomes
<1>4. /\ adrift' \subseteq Messages /\ \A m \in adrift' : m.cred.inst \in Installations
      /\ SoundAt(store, server, authClock, adrift')
  <2>1. CASE InFlight
    <3>1. adrift' \in {adrift, {[kind |-> task.pc, cred |-> Presented]}}
      BY <2>1 DEF Restart
    <3> QED  BY <2>1, <3>1, StillExpected
  <2>2. CASE ~InFlight
    BY <2>2 DEF Restart, AuthInvariant, AuthTypeOK, Credited, Sound
  <2> QED  BY <2>1, <2>2
<1>5. AuthTypeOK' /\ Credited' /\ RowsInOrder'
  BY <1>1, <1>2, <1>3, <1>4 DEF AuthInvariant, AuthTypeOK, Credited, Named,
                                Installations, RowsInOrder
<1>6. Sound(store)' /\ Sound(client.record)'
  BY <1>1, <1>2, <1>4 DEF Sound, SoundAt
<1>7. Flow' /\ Durable' /\ Answered' /\ AnswersDurable'
  BY <1>2, <1>3 DEF Flow, Durable, Answered, AnswersDurable, Steady, Goal
<1> QED  BY <1>5, <1>6, <1>7 DEF AuthInvariant

LEMMA RedeemKeeps == ASSUME AuthInvariant, Redeem PROVE AuthInvariant'
<1>1. /\ task.pc = "redeem" /\ UNCHANGED <<authClock, store, client, adrift, grants>>
  BY DEF Redeem
<1>2. /\ AuthTypeOK /\ authClock \in Nat /\ server \in Seq(Rows)
      /\ \A m \in adrift : m.cred.inst \in Installations
  BY DEF AuthInvariant, AuthTypeOK, Credited
<1>3. CASE /\ UNCHANGED server
           /\ \E a \in AnswersGiven : a.kind # "ok" /\ Answers(a)
  <2>1. PICK a \in AnswersGiven : a.kind # "ok" /\ Answers(a)
    BY <1>3
  <2>2. /\ task' \in Tasks /\ task'.answer = a /\ task'.pc = task.pc
        /\ task'.op = task.op /\ task'.after = task.after /\ task'.cred = task.cred
        /\ task'.keep = task.keep /\ task'.outcome = task.outcome
    BY <1>2, <2>1, AnswersFields
  <2>3. AuthTypeOK' /\ Credited' /\ RowsInOrder' /\ Sound(store)' /\ Sound(client.record)'
    BY <1>1, <1>3, <2>2 DEF AuthInvariant, AuthTypeOK, Credited, Named, Installations,
                            RowsInOrder, Sound
  <2>4. Flow' /\ Durable'
    BY <1>1, <1>3, <2>2 DEF AuthInvariant, Flow, Durable, Steady, Goal, Installations
  <2>5. Answered' /\ AnswersDurable'
    BY <1>1, <2>1, <2>2, <2>4 DEF Answered, AnswersDurable, Flow
  <2> QED  BY <2>3, <2>4, <2>5 DEF AuthInvariant
<1>4. CASE /\ server' = Redeemed
           /\ \/ Answers([kind |-> "ok", expires |-> Len(server')])
              \/ Answers(Failure)
  <2> DEFINE row == [version |-> 1, secret |-> 0, status |-> "active",
                     redeemedAt |-> authClock, absolute |-> authClock + AbsoluteTtl,
                     pending |-> FALSE, pendingExpires |-> 0]
             n == Len(server) + 1
  <2>1. row \in Rows /\ row.secret = 0
    BY <1>2, LifetimesAssumption DEF Rows
  <2>2. server' = Append(server, row)
    BY <1>4 DEF Redeemed
  <2> HIDE DEF row
  <2>3. /\ server' \in Seq(Rows) /\ Len(server') = n /\ server'[n] = row
        /\ n \in Installations' /\ Installations \subseteq Installations'
        /\ \A i \in Installations : server'[i] = server[i] /\ i # n
    BY <1>2, <2>1, <2>2 DEF Installations
  <2>4. PICK a : /\ a \in AnswersGiven /\ Answers(a)
                 /\ a.kind = "ok" => a.expires = n
    BY <1>4, <2>3, FailureIsAnswer DEF AnswersGiven
  <2>5. /\ task' \in Tasks /\ task'.answer = a /\ task'.pc = task.pc
        /\ task'.op = task.op /\ task'.after = task.after /\ task'.cred = task.cred
        /\ task'.keep = task.keep /\ task'.outcome = task.outcome
    BY <1>2, <2>4, AnswersFields
  <2>6. RowsInOrder'
    BY <2>1, <2>2, <1>2 DEF AuthInvariant, RowsInOrder, Installations
  <2>7. AuthTypeOK' /\ Credited'
    BY <1>1, <1>2, <2>3, <2>5 DEF AuthInvariant, AuthTypeOK, Credited, Named
  <2>8. Sound(store)' /\ Sound(client.record)'
    <3>1. /\ SoundAt(store, server, authClock, adrift)
          /\ SoundAt(client.record, server, authClock, adrift)
      BY DEF AuthInvariant, Sound
    <3>2. /\ SoundAt(store, server', authClock, adrift)
          /\ SoundAt(client.record, server', authClock, adrift)
      BY <1>2, <2>1, <2>2, <3>1, SoundRedeemed
    <3> QED  BY <1>1, <3>2 DEF Sound
  <2>9. Flow' /\ Durable'
    BY <1>1, <2>3, <2>5 DEF AuthInvariant, Flow, Durable, Steady, Goal
  <2>10. AnswersDurable'
    BY <1>1, <2>5, <2>9 DEF AnswersDurable, Flow
  <2>11. Answered'
    BY <1>1, <1>2, <2>1, <2>3, <2>4, <2>5 DEF Answered
  <2> QED  BY <2>6, <2>7, <2>8, <2>9, <2>10, <2>11 DEF AuthInvariant
<1>5. CASE \/ Answers([kind |-> "401", expires |-> 0]) /\ UNCHANGED server
           \/ Answers(Failure) /\ UNCHANGED server
  <2>1. [kind |-> "401", expires |-> 0] \in AnswersGiven
    BY DEF AnswersGiven
  <2> QED  BY <1>3, <1>5, <2>1, FailureIsAnswer
<1> QED  BY <1>4, <1>5 DEF Redeem

\* A request that arrives late finds the relay as the record expects it, or
\* is refused.
LEMMA ArriveKeeps == ASSUME AuthInvariant, Arrive PROVE AuthInvariant'
<1>1. PICK m \in adrift :
        /\ adrift' = {}
        /\ server' = [server EXCEPT ![m.cred.inst] =
                        At(m.kind, server[m.cred.inst], m.cred.secret).row]
        /\ UNCHANGED <<authClock, store, client, task, grants>>
  BY DEF Arrive
<1> DEFINE r == client.record
           i == m.cred.inst
           secret == m.cred.secret
<1>2. /\ m.kind \in {"confirm", "begin", "revoke"} /\ m.cred \in Credentials
      /\ i \in Installations /\ AuthTypeOK /\ secret \in Nat /\ authClock \in Nat
  BY DEF AuthInvariant, AuthTypeOK, Messages, Credited, Credentials
<1>3. \A x \in {store, r} :
        /\ x # NoRecord /\ x.inst = i /\ m.kind = "confirm" /\ authClock < secret
        /\ ValidAt(server[i], authClock)
        => Names(x, secret)
  BY DEF AuthInvariant, Sound, SoundAt, Expected
<1>4. /\ server' \in Seq(Rows) /\ Installations' = Installations
      /\ Sound(store)' /\ Sound(client.record)' /\ RowsInOrder'
      /\ RowStep(server[i], server'[i], authClock, m.kind, secret)
      /\ \A j \in Installations : j # i => server'[j] = server[j]
  <2>1. adrift' \in SUBSET adrift
    BY <1>1
  <2>2. m.kind = "confirm" =>
          \A x \in {store, client.record} :
            x # NoRecord /\ x.inst = m.cred.inst /\ authClock < m.cred.secret
              /\ ValidAt(server[m.cred.inst], authClock) => Names(x, m.cred.secret)
    BY <1>3
  <2> QED  BY <1>1, <1>2, <2>1, <2>2, ServingKeeps
<1>5. AuthTypeOK' /\ Credited'
  BY <1>1, <1>2, <1>4 DEF AuthInvariant, AuthTypeOK, Credited, Named
<1>6. Flow' /\ Durable'
  BY <1>1, <1>4 DEF AuthInvariant, Flow, Durable, Steady, Goal
<1>7. \A j \in Installations :
        /\ server[j].status = "revoked" => server'[j].status = "revoked"
        /\ ValidAt(server'[j], authClock) => ValidAt(server[j], authClock)
        /\ server'[j].absolute = server[j].absolute
  BY <1>4 DEF RowStep
<1>8. AnswersDurable'
  <2>1. task.outcome = "revoked" => task.cred.inst \in Installations
    BY DEF AuthInvariant, Flow
  <2> QED  BY <1>1, <1>7, <2>1 DEF AuthInvariant, AnswersDurable
<1>9. Answered'
  <2> DEFINE a == task.answer
             s == server[r.inst]
             e == r.pendingExpires
  <2> SUFFICES ASSUME a # Absent
               PROVE  Answered'
    BY <1>1 DEF Answered
  <2>1. CASE task.pc \in {"confirm", "begin"}
    <3>1. /\ r \in Records /\ r # NoRecord /\ r.inst \in Installations
          /\ InOrder(r, s, authClock)
      BY <2>1, AtWork DEF Steady
    <3>2. r.secret \in Nat /\ r.dueAt \in Nat /\ e \in Nat
      BY <3>1 DEF Records
    <3>3. /\ task.pc = "confirm" => r.pending
          /\ task.pc = "begin" => ~r.pending /\ r.dueAt <= authClock
      BY DEF AuthInvariant, Flow
    <3>4. r.secret <= authClock
      BY <1>2, <2>1, <3>1, <3>2, <3>3 DEF InOrder
    <3>5. \/ server'[r.inst].secret = s.secret
          \/ r.pending /\ server'[r.inst].secret = e
      <4>1. CASE r.inst # i
        BY <1>4, <3>1, <4>1
      <4>2. CASE r.inst = i
        <5>1. RowStep(s, server'[r.inst], authClock, m.kind, secret)
          BY <1>4, <4>2
        <5>2. ASSUME server'[r.inst].secret # s.secret
              PROVE  r.pending /\ e = secret /\ server'[r.inst].secret = secret
          <6>1. /\ m.kind = "confirm" /\ ValidAt(s, authClock) /\ authClock < secret
                /\ server'[r.inst].secret = secret
            BY <5>1, <5>2 DEF RowStep
          <6>2. Names(r, secret)
            BY <1>3, <3>1, <4>2, <6>1
          <6> QED  BY <1>2, <3>2, <3>4, <6>1, <6>2 DEF Names
        <5> QED  BY <5>2
      <4> QED  BY <4>1, <4>2
    <3>6. CASE task.pc = "confirm"
      <4>1. /\ a.kind = "ok" => s.secret = e
            /\ a.kind = "401" => ~ValidAt(s, authClock) \/ authClock >= e
        BY <3>6 DEF AuthInvariant, Answered, RowValid, ValidAt
      <4>2. /\ a.kind = "ok" => server'[r.inst].secret = e
            /\ a.kind = "401" => ~ValidAt(server'[r.inst], authClock) \/ authClock >= e
        BY <1>7, <3>1, <3>5, <4>1
      <4> QED  BY <1>1, <3>6, <4>2 DEF Answered, RowValid, ValidAt
    <3>7. CASE task.pc = "begin"
      <4>1. a.kind = "ok" => /\ Held(s, a.expires, authClock)
                             /\ a.expires <= s.absolute
                             /\ a.expires <= authClock + PendingTtl
        BY <3>7 DEF AuthInvariant, Answered
      <4>2. server'[r.inst].secret = s.secret
        BY <3>3, <3>5, <3>7
      <4>3. a.expires \in Nat
        BY <1>2 DEF AuthTypeOK, Tasks, AnswersGiven
      <4>4. a.kind = "ok" => Held(server'[r.inst], a.expires, authClock)
        <5>1. CASE r.inst # i
          BY <1>4, <3>1, <4>1, <5>1
        <5>2. CASE r.inst = i
          <6>1. RowStep(s, server'[r.inst], authClock, m.kind, secret)
            BY <1>4, <5>2
          <6> QED  BY <4>1, <4>2, <4>3, <6>1 DEF RowStep
        <5> QED  BY <5>1, <5>2
      <4> QED  BY <1>1, <1>7, <3>1, <3>7, <4>1, <4>4 DEF Answered
    <3> QED  BY <2>1, <3>6, <3>7
  <2>2. CASE task.pc = "redeem"
    <3>1. a.kind = "ok" => /\ a.expires \in Installations
                           /\ server[a.expires].secret = 0
                           /\ a.expires # i
      BY <2>2 DEF AuthInvariant, Answered
    <3> QED  BY <1>1, <1>4, <2>2, <3>1 DEF Answered
  <2>3. CASE task.pc = "revoke"
    <3>1. a.kind = "ok" => server[task.cred.inst].status = "revoked"
      BY <2>3 DEF AuthInvariant, Answered
    <3>2. task.cred.inst \in Installations
      BY <2>3 DEF AuthInvariant, Flow, Goal
    <3> QED  BY <1>1, <1>7, <2>3, <3>1, <3>2 DEF Answered
  <2> QED  BY <1>1, <2>1, <2>2, <2>3 DEF Answered
<1> QED  BY <1>4, <1>5, <1>6, <1>8, <1>9 DEF AuthInvariant

LEMMA TickKeeps == ASSUME AuthInvariant, AuthTick PROVE AuthInvariant'
<1>1. /\ authClock' = authClock + 1
      /\ UNCHANGED <<store, server, client, task, adrift, grants>>
  BY DEF AuthTick
<1>2. AuthTypeOK /\ authClock \in Nat /\ authClock' \in Nat /\ authClock <= authClock'
  BY <1>1 DEF AuthInvariant, AuthTypeOK
<1>3. AuthTypeOK' /\ Credited' /\ RowsInOrder'
  BY <1>1, <1>2 DEF AuthInvariant, AuthTypeOK, Credited, Named, Installations,
                    RowsInOrder
<1>4. Sound(store)' /\ Sound(client.record)'
  <2>1. /\ server \in Seq(Rows) /\ adrift \in SUBSET Messages
        /\ store \in Records \cup {NoRecord}
        /\ client.record \in Records \cup {NoRecord}
        /\ SoundAt(store, server, authClock, adrift)
        /\ SoundAt(client.record, server, authClock, adrift)
    BY DEF AuthInvariant, AuthTypeOK, ClientRecords, Sound
  <2>2. /\ SoundAt(store, server, authClock', adrift)
        /\ SoundAt(client.record, server, authClock', adrift)
    BY <1>2, <2>1, SoundLater
  <2> QED  BY <1>1, <2>2 DEF Sound
<1>5. Durable' /\ AnswersDurable'
  BY <1>1 DEF AuthInvariant, Durable, AnswersDurable, Steady
<1>6. Flow'
  <2>1. task.pc = "begin" => client.record.dueAt <= authClock'
    <3>1. task.pc = "begin" => client.record \in Records
      BY AtWork DEF Steady
    <3> QED  BY <1>1, <1>2, <3>1 DEF AuthInvariant, Flow, Records
  <2> QED  BY <1>1, <2>1 DEF AuthInvariant, Flow, Goal, Installations
<1>7. Answered'
  <2> DEFINE a == task.answer
             r == client.record
             s == server[r.inst]
             e == r.pendingExpires
  <2> SUFFICES ASSUME a # Absent
               PROVE  Answered'
    BY <1>1 DEF Answered
  <2>1. CASE task.pc \in {"confirm", "begin"}
    <3>1. r \in Records /\ s \in Rows /\ s.absolute \in Nat /\ e \in Nat
      <4>1. r \in Records /\ r.inst \in Installations
        BY <2>1, AtWork DEF Steady
      <4>2. server[r.inst] \in Rows
        BY <1>2, <4>1 DEF AuthTypeOK, Installations
      <4> QED  BY <4>1, <4>2 DEF Rows, Records
    <3>2. a.expires \in Nat
      BY <1>2 DEF AuthTypeOK, Tasks, AnswersGiven
    <3>3. /\ task.pc = "confirm" /\ a.kind = "ok" => s.secret = e
          /\ task.pc = "confirm" /\ a.kind = "401" =>
               ~ValidAt(s, authClock) \/ authClock >= e
          /\ task.pc = "begin" /\ a.kind = "ok" =>
               /\ Held(s, a.expires, authClock) /\ a.expires <= s.absolute
               /\ a.expires <= authClock + PendingTtl
      BY DEF AuthInvariant, Answered, RowValid, ValidAt
    <3> HIDE DEF s, e
    <3>4. /\ task.pc = "confirm" /\ a.kind = "401" =>
               ~ValidAt(s, authClock') \/ authClock' >= e
          /\ task.pc = "begin" /\ a.kind = "ok" =>
               /\ Held(s, a.expires, authClock') /\ a.expires <= s.absolute
               /\ a.expires <= authClock' + PendingTtl
      BY <1>1, <1>2, <3>1, <3>2, <3>3, LifetimesAssumption DEF ValidAt, Held
    <3> QED  BY <1>1, <2>1, <3>3, <3>4 DEF Answered, RowValid, ValidAt, s, e
  <2>2. CASE task.pc \notin {"confirm", "begin"}
    BY <1>1, <2>2 DEF AuthInvariant, Answered, Installations
  <2> QED  BY <2>1, <2>2
<1> QED  BY <1>3, <1>4, <1>5, <1>6, <1>7 DEF AuthInvariant

\* Nothing of the invariant speaks of the leases the transport holds.
LEMMA LeasesAreApart ==
  ASSUME AuthInvariant, UNCHANGED <<authClock, store, server, client, task, adrift, grants>>
  PROVE  AuthInvariant'
<1>1. AuthTypeOK' /\ Credited' /\ RowsInOrder' /\ Sound(store)' /\ Sound(client.record)'
  BY DEF AuthInvariant, AuthTypeOK, Credited, Named, Installations, RowsInOrder, Sound
<1>2. Flow' /\ Durable' /\ Answered' /\ AnswersDurable'
  BY DEF AuthInvariant, Flow, Durable, Steady, Goal, Answered, AnswersDurable,
         Installations, RowValid
<1> QED  BY <1>1, <1>2 DEF AuthInvariant

(***************************************************************************)
(* The theorems                                                            *)
(***************************************************************************)
LEMMA AuthInvariantHolds ==
  /\ AuthInit => AuthInvariant
  /\ AuthInvariant /\ [AuthNext]_authVars => AuthInvariant'
<1>1. ASSUME AuthInit PROVE AuthInvariant
  <2>1. /\ client \in ClientRecords /\ client.record = NoRecord
        /\ client.pendingRevocation = Absent /\ client.grant = Absent
    BY <1>1 DEF AuthInit, FreshClient, ClientRecords
  <2>2. /\ task \in Tasks /\ task.pc = "idle" /\ task.op = "none"
        /\ task.answer = Absent /\ task.cred = Absent /\ task.keep = Absent
        /\ task.outcome = "none"
    BY <1>1 DEF AuthInit, NoTask, Tasks, Operations, Places, Cleared, Outcomes
  <2>3. AuthTypeOK /\ Credited /\ RowsInOrder
    BY <1>1, <2>1, <2>2 DEF AuthInit, AuthTypeOK, Credited, Named, RowsInOrder,
                            Installations
  <2>4. Sound(store) /\ Sound(client.record)
    BY <1>1, <2>1 DEF AuthInit, Sound, SoundAt
  <2>5. Flow /\ Durable /\ Answered /\ AnswersDurable
    BY <2>1, <2>2 DEF Flow, Durable, Answered, AnswersDurable, Steady, Goal
  <2> QED  BY <2>3, <2>4, <2>5 DEF AuthInvariant
<1>2. ASSUME AuthInvariant, AuthNext PROVE AuthInvariant'
  <2>1. CASE Initialize \/ Enroll \/ RetryPersistence \/ ResetEnrollment
    BY <1>2, <2>1, InitializeKeeps, EnrollKeeps, RetryPersistenceKeeps,
       ResetEnrollmentKeeps
  <2>2. CASE PrepareSessionBoundary \/ RevokeCurrent \/ Acquire
    BY <1>2, <2>2, PrepareSessionBoundaryKeeps, RevokeCurrentKeeps, AcquireKeeps
  <2>3. CASE \E l \in leases : RecordAuthenticated(l) \/ Reject(l) \/ UseLease(l)
    <3>1. PICK l \in leases : RecordAuthenticated(l) \/ Reject(l) \/ UseLease(l)
      BY <2>3
    <3>2. CASE UseLease(l)
      BY <1>2, <3>2, LeasesAreApart DEF UseLease
    <3> QED  BY <1>2, <3>1, <3>2, RecordAuthenticatedKeeps, RejectKeeps
  <2>4. CASE StoreClear \/ StoreSave \/ StoreLoad
    BY <1>2, <2>4, StoreClearKeeps, StoreSaveKeeps, StoreLoadKeeps
  <2>5. CASE Ready \/ Awake \/ Resolve \/ Confirmed \/ Decide \/ Begun
    BY <1>2, <2>5, ReadyKeeps, AwakeKeeps, ResolveKeeps, ConfirmedKeeps, DecideKeeps,
       BegunKeeps
  <2>6. CASE Pended \/ Grant \/ Recorded \/ Candidate \/ Revoked \/ Enrolled
    BY <1>2, <2>6, PendedKeeps, GrantKeeps, RecordedKeeps, CandidateKeeps, RevokedKeeps,
       EnrolledKeeps
  <2>7. CASE Serve \/ Lose \/ Redeem \/ Arrive \/ Restart \/ AuthTick
    BY <1>2, <2>7, ServeKeeps, LoseKeeps, RedeemKeeps, ArriveKeeps, RestartKeeps,
       TickKeeps
  <2> QED  BY <1>2, <2>1, <2>2, <2>3, <2>4, <2>5, <2>6, <2>7 DEF AuthNext
<1>3. ASSUME AuthInvariant, UNCHANGED authVars PROVE AuthInvariant'
  BY <1>3, LeasesAreApart DEF authVars
<1> QED  BY <1>1, <1>2, <1>3

\* What the relay and the record know of each other, where a task is and what
\* it has in hand, hold in every state of the controller: for any lifetimes,
\* clocks, numbers of installations, rotations and grants, and whatever is
\* lost, arrives late or is reloaded.
THEOREM ControllerInvariant == AuthSpec => []AuthInvariant
<1>1. AuthInit => AuthInvariant
  BY AuthInvariantHolds
<1>2. AuthInvariant /\ [AuthNext]_authVars => AuthInvariant'
  BY AuthInvariantHolds
<1> QED  BY <1>1, <1>2, PTL DEF AuthSpec

\* A reload never strands the client: the durable record names the credential
\* the relay holds current, and what a task answered is durable.
THEOREM CredentialIsKept == AuthSpec => []CredentialKept
<1>1. AuthInvariant => NeverStranded
  <2> SUFFICES ASSUME AuthInvariant, store # NoRecord, RowValid(server[store.inst]),
                      ~(authClock >= server[store.inst].secret)
               PROVE  \/ server[store.inst].secret = store.secret
                      \/ store.pending /\ server[store.inst].secret = store.pendingExpires
    BY DEF NeverStranded
  <2>1. /\ Relied(store, server[store.inst], authClock)
        /\ store.inst \in Installations
    BY DEF AuthInvariant, Sound, SoundAt, Installations
  <2>2. server[store.inst] \in Rows /\ authClock \in Nat
    BY <2>1 DEF AuthInvariant, AuthTypeOK, Installations
  <2>3. server[store.inst].secret \in Nat
    BY <2>2 DEF Rows
  <2> QED  BY <2>1, <2>2, <2>3 DEF Relied, RowValid, ValidAt
<1>2. AuthInvariant => CredentialKept
  BY <1>1 DEF AuthInvariant, CredentialKept
<1> QED  BY <1>2, ControllerInvariant, PTL
=============================================================================
