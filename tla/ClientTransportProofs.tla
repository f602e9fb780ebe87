----------------------- MODULE ClientTransportProofs -----------------------
(***************************************************************************)
(* What the client's connection promises its application, proved for any   *)
(* number of starts, of connections and of messages, in any order in which *)
(* awaits are answered and the network delivers.                           *)
(***************************************************************************)
EXTENDS ClientTransport, SequenceTheorems, TLAPS

(***************************************************************************)
(* The inductive invariant                                                 *)
(***************************************************************************)
SourceShape == [socket : Nat, gen : Nat]
TurnShape == [utt : Nat, phase : {"streaming", "committing", "cancelling"}]
ConnShape ==
  [gen : Nat, socket : Nat, session : Nat, expected : Nat, grant : Nat,
   timer : SourceShape \cup {None}, active : TurnShape \cup {None},
   retired : Seq(Nat)]
TaskShape ==
  [start : Nat, gen : Nat, at : {"acquire", "fetch", "reject", "read", "record"}]
MessageShape ==
  [kind : {"ready", "rejected", "auth", "unexpected", "error", "aborted",
           "result", "partial"},
   utt : Nat]
SocketShape ==
  [start : Nat, net : {"connecting", "open", "down", "failed", "done"},
   code : {"none", "4401", "other"}, closed : BOOLEAN,
   relay : {"new", "asked", "ready", "over"}, begun : Nat, said : Nat,
   inbox : MessageShape \cup {None}]
VerdictShape == [start : Nat, source : SourceShape]
ToldShape ==
  [ready : BOOLEAN, ends : Nat, stale : BOOLEAN, over : Seq(Nat),
   late : BOOLEAN]

TypeInv ==
  /\ conn \in ConnShape
  /\ starts \subseteq TaskShape
  /\ sockets \in Seq(SocketShape)
  /\ rejections \subseteq VerdictShape
  /\ wanted \in Nat
  /\ told \in Seq(ToldShape)

\* The application waits for start n or uses its session.
Wants(n) ==
  n = wanted /\ n \in DOMAIN told /\ told[n].ends = 0 /\ ~told[n].stale

\* The transport's fields belong to one connection.
Linked ==
  /\ conn.socket # 0 => conn.socket \in DOMAIN sockets
  /\ conn.session # 0 => conn.session = conn.socket
  /\ conn.active # None => conn.session # 0
  /\ conn.timer # None => conn.timer.socket # 0
  /\ conn.socket = 0 => conn.retired = << >>

\* The connection in use is that of the start the application wants.
InUse ==
  conn.socket # 0 =>
    Wants(sockets[conn.socket].start) /\ conn.grant = sockets[conn.socket].start

\* A task whose source is current works for the start the application wants.
Asking ==
  \A t \in starts :
    /\ t.gen <= conn.gen
    /\ t.gen = conn.gen /\ conn.socket = 0 => Wants(t.start)

\* So does a verdict whose source is current, and then nothing else is asked.
Judging ==
  \A r \in rejections :
    /\ r.source.socket = 0 /\ r.source.gen <= conn.gen
    /\ r.source.gen = conn.gen =>
         /\ conn.socket = 0 => Wants(r.start)
         /\ \A t \in starts : t.gen < conn.gen
         /\ \A q \in rejections : q.source.gen = conn.gen => q = r

Standing == Linked /\ InUse /\ Asking /\ Judging /\ OneConnection

IInv == TypeInv /\ Standing

(***************************************************************************)
(* Shapes                                                                  *)
(***************************************************************************)
LEMMA Replaced ==
  ASSUME NEW T, NEW q \in Seq(T), NEW i \in DOMAIN q, NEW x \in T
  PROVE  /\ [q EXCEPT ![i] = x] \in Seq(T)
         /\ DOMAIN [q EXCEPT ![i] = x] = DOMAIN q
         /\ [q EXCEPT ![i] = x][i] = x
         /\ \A j \in DOMAIN q : j # i => [q EXCEPT ![i] = x][j] = q[j]
  OBVIOUS

LEMMA Appended ==
  ASSUME NEW T, NEW q \in Seq(T), NEW x \in T
  PROVE  /\ Append(q, x) \in Seq(T)
         /\ Len(Append(q, x)) = Len(q) + 1
         /\ DOMAIN Append(q, x) = DOMAIN q \cup {Len(q) + 1}
         /\ Len(q) + 1 \notin DOMAIN q
         /\ Append(q, x)[Len(q) + 1] = x
         /\ \A j \in DOMAIN q : Append(q, x)[j] = q[j]
  OBVIOUS

LEMMA Rows ==
  ASSUME NEW T, NEW q \in Seq(T), NEW i \in DOMAIN q
  PROVE  q[i] \in T /\ i \in Nat /\ i # 0
  OBVIOUS

LEMMA DetachedShape ==
  ASSUME conn \in ConnShape
  PROVE  /\ Detached(conn) \in ConnShape
         /\ Detached(conn).gen = conn.gen + 1
         /\ Detached(conn).socket = 0 /\ Detached(conn).session = 0
         /\ Detached(conn).timer = None /\ Detached(conn).active = None
         /\ Detached(conn).retired = << >>
<1>1. << >> \in Seq(Nat) /\ conn.gen \in Nat
  BY DEF ConnShape
<1>2. Detached(conn) = [gen |-> conn.gen + 1, socket |-> 0, session |-> 0,
                       expected |-> 0, grant |-> 0, timer |-> None,
                       active |-> None, retired |-> << >>]
  BY DEF Detached, Idle
<1>3. Detached(conn) \in ConnShape
  BY <1>1, <1>2 DEF ConnShape
<1>4. QED
  BY <1>2, <1>3

\* A start is told an end, or of nothing when there is no such start.
LEMMA EndsShape ==
  ASSUME TypeInv, NEW n, Ends(n)
  PROVE  /\ told' \in Seq(ToldShape) /\ DOMAIN told' = DOMAIN told
         /\ \A m \in DOMAIN told : m # n => told'[m] = told[m]
<1>1. CASE n \in DOMAIN told
  <2>1. told[n] \in ToldShape
    BY <1>1, Rows DEF TypeInv
  <2>2. [told[n] EXCEPT !.ends = @ + 1] \in ToldShape
    BY <2>1 DEF ToldShape
  <2>3. told' = [told EXCEPT ![n] = [told[n] EXCEPT !.ends = @ + 1]]
    BY DEF Ends
  <2>4. QED
    BY <1>1, <2>2, <2>3, Replaced DEF TypeInv
<1>2. CASE n \notin DOMAIN told
  <2>1. told' = told
    BY <1>2 DEF Ends, TypeInv
  <2>2. QED
    BY <2>1 DEF TypeInv
<1>3. QED
  BY <1>1, <1>2

LEMMA StaleShape ==
  ASSUME TypeInv, NEW n, told' = [told EXCEPT ![n].stale = TRUE]
  PROVE  /\ told' \in Seq(ToldShape) /\ DOMAIN told' = DOMAIN told
         /\ \A m \in DOMAIN told : m # n => told'[m] = told[m]
<1>1. CASE n \in DOMAIN told
  <2>1. told[n] \in ToldShape
    BY <1>1, Rows DEF TypeInv
  <2>2. [told[n] EXCEPT !.stale = TRUE] \in ToldShape
    BY <2>1 DEF ToldShape
  <2>3. told' = [told EXCEPT ![n] = [told[n] EXCEPT !.stale = TRUE]]
    OBVIOUS
  <2>4. QED
    BY <1>1, <2>2, <2>3, Replaced DEF TypeInv
<1>2. CASE n \notin DOMAIN told
  <2>1. told' = told
    BY <1>2 DEF TypeInv
  <2>2. QED
    BY <2>1 DEF TypeInv
<1>3. QED
  BY <1>1, <1>2

(***************************************************************************)
(* What becomes of the sockets                                             *)
(***************************************************************************)
Settled(row) == row.closed \/ row.net = "done"

\* No socket is taken back, and one that was closed stays closed.
SocketsGoOn ==
  /\ sockets' \in Seq(SocketShape)
  /\ DOMAIN sockets' = DOMAIN sockets
  /\ \A s \in DOMAIN sockets : Settled(sockets[s]) => Settled(sockets'[s])

LEMMA OneSocketChanges ==
  ASSUME TypeInv, NEW s \in DOMAIN sockets, NEW row \in SocketShape,
         sockets' = [sockets EXCEPT ![s] = row],
         Settled(sockets[s]) => Settled(row)
  PROVE  /\ SocketsGoOn
         /\ sockets'[s] = row
         /\ \A o \in DOMAIN sockets : o # s => sockets'[o] = sockets[o]
<1>1. /\ sockets' \in Seq(SocketShape) /\ DOMAIN sockets' = DOMAIN sockets
      /\ sockets'[s] = row
      /\ \A o \in DOMAIN sockets : o # s => sockets'[o] = sockets[o]
  BY Replaced DEF TypeInv
<1>2. QED
  BY <1>1 DEF SocketsGoOn

LEMMA SocketsStay ==
  ASSUME TypeInv, sockets' = sockets
  PROVE  SocketsGoOn
  BY DEF TypeInv, SocketsGoOn

LEMMA ShutSocket ==
  ASSUME TypeInv, Linked, sockets' = Shut(conn.socket)
  PROVE  SocketsGoOn /\ (conn.socket # 0 => Settled(sockets'[conn.socket]))
<1>1. CASE conn.socket = 0
  BY <1>1, SocketsStay DEF Shut
<1>2. CASE conn.socket # 0
  <2> DEFINE row == [sockets[conn.socket] EXCEPT !.closed = TRUE]
  <2>1. conn.socket \in DOMAIN sockets
    BY <1>2 DEF Linked
  <2>2. sockets[conn.socket] \in SocketShape
    BY <2>1, Rows DEF TypeInv
  <2>3. row \in SocketShape /\ Settled(row)
    BY <2>2 DEF SocketShape, Settled
  <2>4. sockets' = [sockets EXCEPT ![conn.socket] = row]
    BY <1>2 DEF Shut
  <2> HIDE DEF row
  <2>5. QED
    BY <2>1, <2>3, <2>4, OneSocketChanges
<1>3. QED
  BY <1>1, <1>2

LEMMA CurrentSocket ==
  ASSUME TypeInv, Linked, NEW s \in DOMAIN sockets
  PROVE  IsCurrent(s) <=> s = conn.socket
  BY DEF IsCurrent, IsSourceCurrent, Source, SocketSource

LEMMA CurrentTask ==
  ASSUME NEW t
  PROVE  IsSourceCurrent(conn, TaskSource(t)) <=> conn.socket = 0 /\ conn.gen = t.gen
  BY DEF IsSourceCurrent, Source, TaskSource

(***************************************************************************)
(* What becomes of the connection                                          *)
(***************************************************************************)
\* The connection is let go of, whatever the application is told.
LetsGo ==
  /\ conn' = Detached(conn) /\ SocketsGoOn
  /\ conn.socket # 0 => Settled(sockets'[conn.socket])
  /\ starts' \subseteq starts /\ rejections' \subseteq rejections

LEMMA LettingGo ==
  ASSUME IInv, LetsGo
  PROVE  conn' \in ConnShape /\ Standing'
<1>1. /\ conn' \in ConnShape /\ conn'.gen = conn.gen + 1 /\ conn.gen \in Nat
      /\ conn'.socket = 0 /\ conn'.session = 0
      /\ conn'.timer = None /\ conn'.active = None /\ conn'.retired = << >>
  BY DetachedShape DEF LetsGo, IInv, TypeInv, ConnShape
<1>2. Linked'
  BY <1>1 DEF Linked
<1>3. InUse'
  BY <1>1 DEF InUse
<1>4. Asking'
  BY <1>1 DEF IInv, Standing, Asking, LetsGo, TypeInv, TaskShape
<1>5. Judging'
  BY <1>1 DEF IInv, Standing, Judging, LetsGo, TypeInv, VerdictShape, SourceShape
<1>6. OneConnection'
  BY <1>1 DEF IInv, Standing, OneConnection, LetsGo, SocketsGoOn, Settled
<1>7. QED
  BY <1>1, <1>2, <1>3, <1>4, <1>5, <1>6 DEF Standing

\* The connection is let go of for a verdict on its credential.
LetsGoForVerdict ==
  /\ conn' = Detached(conn) /\ SocketsGoOn
  /\ conn.socket # 0 /\ Settled(sockets'[conn.socket])
  /\ starts' = starts /\ told' = told /\ wanted' = wanted
  /\ rejections' = rejections \cup
       {[start |-> conn.grant, source |-> Source(Detached(conn))]}

LEMMA LettingGoForVerdict ==
  ASSUME IInv, LetsGoForVerdict
  PROVE  conn' \in ConnShape /\ rejections' \subseteq VerdictShape /\ Standing'
<1> DEFINE new == [start |-> conn.grant, source |-> Source(Detached(conn))]
<1>1. /\ conn' \in ConnShape /\ conn'.gen = conn.gen + 1 /\ conn.gen \in Nat
      /\ conn'.socket = 0 /\ conn'.session = 0 /\ conn.grant \in Nat
      /\ conn'.timer = None /\ conn'.active = None /\ conn'.retired = << >>
  BY DetachedShape DEF LetsGoForVerdict, IInv, TypeInv, ConnShape
<1>2. new.start = conn.grant /\ new.source.socket = 0 /\ new.source.gen = conn'.gen
  BY <1>1 DEF LetsGoForVerdict, Source
<1>3. new \in VerdictShape
  BY <1>1 DEF LetsGoForVerdict, Source, VerdictShape, SourceShape
<1>4. rejections' = rejections \cup {new}
  BY DEF LetsGoForVerdict
<1>5. Wants(conn.grant) /\ \A n : Wants(n) => Wants(n)'
  BY DEF IInv, Standing, InUse, LetsGoForVerdict, Wants
<1> HIDE DEF new
<1>6. Linked'
  BY <1>1 DEF Linked
<1>7. InUse'
  BY <1>1 DEF InUse
<1>8. Asking'
  BY <1>1 DEF IInv, Standing, Asking, LetsGoForVerdict, TypeInv, TaskShape
<1>9. \A r \in rejections : r.source.socket = 0 /\ r.source.gen <= conn.gen
                            /\ r.source.gen \in Nat
  BY DEF IInv, Standing, Judging, TypeInv, VerdictShape, SourceShape
<1>10. \A t \in starts : t.gen <= conn.gen /\ t.gen \in Nat
  BY DEF IInv, Standing, Asking, TypeInv, TaskShape
<1>11. Judging'
  <2>1. SUFFICES ASSUME NEW r \in rejections'
        PROVE  /\ r.source.socket = 0 /\ r.source.gen <= conn'.gen
               /\ r.source.gen = conn'.gen =>
                    /\ Wants(r.start)'
                    /\ \A t \in starts' : t.gen < conn'.gen
                    /\ \A q \in rejections' : q.source.gen = conn'.gen => q = r
    BY DEF Judging
  <2>2. CASE r \in rejections
    BY <1>1, <1>9, <2>2
  <2>3. CASE r = new
    <3>1. r.start = conn.grant /\ r.source.socket = 0 /\ r.source.gen = conn'.gen
      BY <1>2, <2>3
    <3>2. Wants(r.start) /\ Wants(r.start)'
      BY <1>5, <3>1
    <3>3. \A t \in starts' : t.gen < conn'.gen
      BY <1>1, <1>10 DEF LetsGoForVerdict
    <3>4. \A q \in rejections' : q.source.gen = conn'.gen => q = r
      BY <1>1, <1>4, <1>9, <2>3
    <3>5. QED
      BY <1>1, <3>1, <3>2, <3>3, <3>4
  <2>4. QED
    BY <1>4, <2>2, <2>3
<1>12. OneConnection'
  BY <1>1 DEF IInv, Standing, OneConnection, LetsGoForVerdict, SocketsGoOn, Settled
<1>13. QED
  BY <1>1, <1>3, <1>4, <1>6, <1>7, <1>8, <1>11, <1>12 DEF Standing, IInv, TypeInv

\* The connection goes on, with or without its socket, and of what the
\* application was told only what ends nothing may change.
GoesOn ==
  /\ conn'.gen = conn.gen /\ conn'.socket = conn.socket /\ conn'.grant = conn.grant
  /\ Linked' /\ SocketsGoOn
  /\ conn.socket # 0 => sockets'[conn.socket].start = sockets[conn.socket].start
  /\ \A t \in starts' : \E u \in starts : u.start = t.start /\ u.gen = t.gen
  /\ rejections' \subseteq rejections /\ wanted' = wanted
  /\ DOMAIN told' = DOMAIN told
  /\ \A n \in DOMAIN told :
       told'[n].ends = told[n].ends /\ told'[n].stale = told[n].stale

LEMMA GoingOn ==
  ASSUME IInv, GoesOn
  PROVE  Standing'
<1>1. \A n : Wants(n) => Wants(n)'
  BY DEF Wants, GoesOn
<1>2. InUse'
  BY <1>1 DEF InUse, GoesOn, IInv, Standing
<1>3. Asking'
  BY <1>1 DEF Asking, GoesOn, IInv, Standing
<1>4. Judging'
  BY <1>1 DEF Judging, GoesOn, IInv, Standing
<1>5. OneConnection'
  BY DEF OneConnection, GoesOn, SocketsGoOn, Settled, IInv, Standing
<1>6. QED
  BY <1>2, <1>3, <1>4, <1>5 DEF Standing, GoesOn

\* Only the start the application wants is told of anything.
OnlyWanted ==
  \A n \in DOMAIN told : told'[n] # told[n] => Wants(n)

LEMMA OneIsTold ==
  ASSUME NEW n, Wants(n), \A m \in DOMAIN told : m # n => told'[m] = told[m]
  PROVE  OnlyWanted
  BY DEF OnlyWanted

LEMMA NoneIsTold ==
  ASSUME told' = told
  PROVE  OnlyWanted
  BY DEF OnlyWanted

(***************************************************************************)
(* Calls of the application                                                *)
(***************************************************************************)
\* fail: the connection is let go of, and the start it was for is told so.
LEMMA Failing ==
  ASSUME IInv, NEW n, Wants(n), Fail(n),
         starts' \subseteq starts, rejections' \subseteq rejections, wanted' = wanted
  PROVE  IInv' /\ OnlyWanted
<1>1. LetsGo
  BY ShutSocket DEF IInv, Standing, Fail, DetachAndClear, LetsGo
<1>2. conn' \in ConnShape /\ Standing'
  BY <1>1, LettingGo
<1>3. /\ told' \in Seq(ToldShape)
      /\ \A m \in DOMAIN told : m # n => told'[m] = told[m]
  BY EndsShape DEF Fail, IInv
<1>4. TypeInv'
  BY <1>1, <1>2, <1>3 DEF IInv, TypeInv, LetsGo, SocketsGoOn
<1>5. QED
  BY <1>2, <1>3, <1>4, OneIsTold DEF IInv

LEMMA Starting ==
  ASSUME IInv, StartSession
  PROVE  IInv' /\ OnlyWanted
<1> DEFINE t0 == [start |-> wanted', gen |-> conn.gen + 2, at |-> "acquire"]
<1>1. /\ Detached(conn) \in ConnShape /\ Detached(conn).gen = conn.gen + 1
      /\ Detached(conn).socket = 0 /\ Detached(conn).session = 0
      /\ Detached(conn).timer = None /\ Detached(conn).active = None
      /\ Detached(conn).retired = << >> /\ conn.gen \in Nat
  BY DetachedShape DEF IInv, TypeInv, ConnShape
<1>2. conn' \in ConnShape
  <2>1. conn.gen + 1 + 1 = conn.gen + 2 /\ conn.gen + 2 \in Nat
    BY <1>1
  <2>2. conn' = [gen |-> conn.gen + 1 + 1, socket |-> 0, session |-> 0,
                 expected |-> conn.gen + 2, grant |-> 0, timer |-> None,
                 active |-> None, retired |-> << >>]
    BY DEF StartSession, Detached, Idle
  <2>3. << >> \in Seq(Nat)
    OBVIOUS
  <2>4. QED
    BY <2>1, <2>2, <2>3 DEF ConnShape
<1>3. /\ conn'.gen = conn.gen + 2 /\ conn'.socket = 0 /\ conn'.session = 0
      /\ conn'.timer = None /\ conn'.active = None /\ conn'.retired = << >>
  BY <1>1 DEF StartSession, ConnShape
<1>4. SocketsGoOn /\ (conn.socket # 0 => Settled(sockets'[conn.socket]))
  BY ShutSocket DEF IInv, Standing, StartSession
<1>5. Untold \in ToldShape /\ Untold.ends = 0 /\ ~Untold.stale
  BY DEF Untold, ToldShape
<1>6. /\ told' \in Seq(ToldShape) /\ wanted' = Len(told) + 1 /\ wanted' \in Nat
      /\ wanted' \in DOMAIN told' /\ told'[wanted'] = Untold
      /\ \A n \in DOMAIN told : told'[n] = told[n]
  BY <1>5, Appended DEF StartSession, IInv, TypeInv
<1>7. \A n : n = wanted' => Wants(n)'
  BY <1>5, <1>6 DEF Wants
<1>8. t0 \in TaskShape /\ t0.start = wanted' /\ t0.gen = conn'.gen
  BY <1>1, <1>3, <1>6 DEF TaskShape
<1>9. starts' = starts \cup {t0} /\ rejections' = rejections
  BY DEF StartSession
<1> HIDE DEF t0
<1>10. TypeInv'
  BY <1>2, <1>4, <1>6, <1>8, <1>9 DEF IInv, TypeInv, SocketsGoOn
<1>11. Linked' /\ InUse'
  BY <1>3 DEF Linked, InUse
<1>12. \A t \in starts : t.gen <= conn.gen /\ t.gen \in Nat
  BY DEF IInv, Standing, Asking, TypeInv, TaskShape
<1>13. Asking'
  <2>1. SUFFICES ASSUME NEW t \in starts'
        PROVE  t.gen <= conn'.gen /\ (t.gen = conn'.gen => Wants(t.start)')
    BY DEF Asking
  <2>2. CASE t \in starts
    BY <1>1, <1>3, <1>12, <2>2
  <2>3. CASE t = t0
    BY <1>1, <1>3, <1>7, <1>8, <2>3
  <2>4. QED
    BY <1>9, <2>2, <2>3
<1>14. Judging'
  BY <1>1, <1>3, <1>9 DEF IInv, Standing, Judging, TypeInv, VerdictShape, SourceShape
<1>15. OneConnection'
  BY <1>3, <1>4 DEF IInv, Standing, OneConnection, SocketsGoOn, Settled
<1>16. OnlyWanted
  BY <1>6 DEF OnlyWanted
<1>17. QED
  BY <1>10, <1>11, <1>13, <1>14, <1>15, <1>16 DEF IInv, Standing

LEMMA Closing ==
  ASSUME IInv, Close
  PROVE  IInv' /\ OnlyWanted
<1>1. LetsGo
  BY ShutSocket DEF IInv, Standing, Close, DetachAndClear, LetsGo
<1>2. conn' \in ConnShape /\ Standing'
  BY <1>1, LettingGo
<1>3. TypeInv'
  BY <1>1, <1>2 DEF IInv, TypeInv, LetsGo, SocketsGoOn, Close
<1>4. QED
  BY <1>2, <1>3, NoneIsTold DEF IInv, Close

LEMMA Ending ==
  ASSUME IInv, EndSession
  PROVE  IInv' /\ OnlyWanted
<1> DEFINE s == conn.socket
           row == [sockets[s] EXCEPT !.closed = TRUE,
                     !.relay = IF CanSend(s) THEN "over" ELSE @]
<1>1. s # 0 /\ s \in DOMAIN sockets /\ Wants(sockets[s].start)
  BY DEF IInv, Standing, Linked, InUse, EndSession, TypeInv, ConnShape
<1>2. sockets[s] \in SocketShape
  BY <1>1, Rows DEF IInv, TypeInv
<1>3. row \in SocketShape /\ row.closed /\ Settled(row)
  BY <1>2 DEF SocketShape, Settled
<1>4. sockets' = [sockets EXCEPT ![s] = row]
  BY DEF EndSession
<1> HIDE DEF row
<1>5. SocketsGoOn /\ Settled(sockets'[s])
  BY <1>1, <1>3, <1>4, OneSocketChanges DEF IInv
<1>6. LetsGo
  BY <1>5 DEF LetsGo, EndSession
<1>7. conn' \in ConnShape /\ Standing'
  BY <1>6, LettingGo
<1>8. told' \in Seq(ToldShape) /\ OnlyWanted
  <2>1. CASE CanSend(s)
    BY <2>1, NoneIsTold DEF EndSession, IInv, TypeInv
  <2>2. CASE ~CanSend(s)
    <3>1. Ends(sockets[s].start)
      BY <2>2 DEF EndSession
    <3>2. QED
      BY <1>1, <3>1, EndsShape, OneIsTold DEF IInv
  <2>3. QED
    BY <2>1, <2>2
<1>9. TypeInv'
  BY <1>5, <1>7, <1>8 DEF IInv, TypeInv, SocketsGoOn, EndSession
<1>10. QED
  BY <1>7, <1>8, <1>9 DEF IInv

LEMMA SpeakingBegins ==
  ASSUME IInv, StartUtterance
  PROVE  IInv' /\ OnlyWanted
<1> DEFINE s == conn.socket
           row == [sockets[s] EXCEPT !.begun = @ + 1]
           turn == [utt |-> sockets[s].begun + 1, phase |-> "streaming"]
<1>1. s # 0 /\ s \in DOMAIN sockets
  BY DEF IInv, Standing, Linked, StartUtterance, TypeInv, ConnShape
<1>2. sockets[s] \in SocketShape
  BY <1>1, Rows DEF IInv, TypeInv
<1>3. /\ row \in SocketShape /\ row.start = sockets[s].start
      /\ Settled(sockets[s]) => Settled(row)
  BY <1>2 DEF SocketShape, Settled
<1>4. turn \in TurnShape
  BY <1>2 DEF SocketShape, TurnShape
<1>5. sockets' = [sockets EXCEPT ![s] = row] /\ conn' = [conn EXCEPT !.active = turn]
  BY DEF StartUtterance
<1> HIDE DEF row, turn
<1>6. SocketsGoOn /\ sockets'[s] = row
  BY <1>1, <1>3, <1>5, OneSocketChanges DEF IInv
<1>7. /\ conn' \in ConnShape
      /\ conn'.gen = conn.gen /\ conn'.socket = conn.socket /\ conn'.grant = conn.grant
      /\ conn'.session = conn.session /\ conn'.timer = conn.timer
      /\ conn'.retired = conn.retired
  BY <1>4, <1>5 DEF IInv, TypeInv, ConnShape
<1>8. Linked'
  BY <1>1, <1>6, <1>7 DEF IInv, Standing, Linked, SocketsGoOn, StartUtterance
<1>9. GoesOn
  BY <1>3, <1>6, <1>7, <1>8 DEF GoesOn, StartUtterance
<1>10. Standing'
  BY <1>9, GoingOn
<1>11. TypeInv'
  BY <1>6, <1>7 DEF IInv, TypeInv, SocketsGoOn, StartUtterance
<1>12. QED
  BY <1>10, <1>11, NoneIsTold DEF IInv, StartUtterance

\* Something is told of a start that ends it in no way.
LEMMA TellingShape ==
  ASSUME TypeInv, NEW n \in DOMAIN told, NEW row \in ToldShape,
         told' = [told EXCEPT ![n] = row],
         row.ends = told[n].ends, row.stale = told[n].stale
  PROVE  /\ told' \in Seq(ToldShape) /\ DOMAIN told' = DOMAIN told
         /\ told'[n] = row
         /\ \A m \in DOMAIN told : m # n => told'[m] = told[m]
         /\ \A m \in DOMAIN told :
              told'[m].ends = told[m].ends /\ told'[m].stale = told[m].stale
<1>1. /\ told' \in Seq(ToldShape) /\ DOMAIN told' = DOMAIN told
      /\ told'[n] = row
      /\ \A m \in DOMAIN told : m # n => told'[m] = told[m]
  BY Replaced DEF TypeInv
<1>2. QED
  BY <1>1

LEMMA NumberBelow ==
  ASSUME NEW n \in Nat, NEW k \in 1..n
  PROVE  k \in Nat
  OBVIOUS

LEMMA RememberedShape ==
  ASSUME NEW c \in ConnShape, NEW u \in Nat
  PROVE  /\ Remembered(c, u) \in ConnShape
         /\ Remembered(c, u).gen = c.gen /\ Remembered(c, u).socket = c.socket
         /\ Remembered(c, u).session = c.session /\ Remembered(c, u).grant = c.grant
         /\ Remembered(c, u).timer = c.timer /\ Remembered(c, u).active = c.active
         /\ Remembered(c, u).expected = c.expected
<1> DEFINE all == Append(c.retired, u)
           q == IF Len(all) > RetiredCapacity THEN Tail(all) ELSE all
<1>1. c.retired \in Seq(Nat)
  BY DEF ConnShape
<1>2. all \in Seq(Nat) /\ all # << >>
  <2>1. all \in Seq(Nat) /\ Len(all) = Len(c.retired) + 1 /\ Len(c.retired) \in Nat
    BY <1>1, Appended
  <2>2. Len(all) # 0
    BY <2>1
  <2>3. QED
    BY <2>1, <2>2, EmptySeq
<1>3. Tail(all) \in Seq(Nat)
  BY <1>2
<1>4. q \in Seq(Nat)
  BY <1>2, <1>3
<1>5. Remembered(c, u) = [c EXCEPT !.retired = q]
  BY DEF Remembered
<1> HIDE DEF q
<1>6. QED
  BY <1>4, <1>5 DEF ConnShape

LEMMA InSession ==
  ASSUME IInv, conn.active # None
  PROVE  /\ conn.active \in TurnShape
         /\ conn.socket # 0 /\ conn.socket \in DOMAIN sockets
         /\ conn.session = conn.socket
         /\ Wants(sockets[conn.socket].start)
         /\ sockets[conn.socket].start \in DOMAIN told
  BY DEF IInv, Standing, Linked, InUse, Wants, TypeInv, ConnShape

\* The connection keeps everything but the utterance it is about.
SameSession ==
  /\ conn' \in ConnShape
  /\ conn'.gen = conn.gen /\ conn'.socket = conn.socket /\ conn'.grant = conn.grant
  /\ conn'.session = conn.session /\ conn'.timer = conn.timer

LEMMA Speaking ==
  ASSUME IInv, conn.active # None, SameSession,
         sockets' = sockets, starts' = starts, rejections' = rejections,
         wanted' = wanted, DOMAIN told' = DOMAIN told,
         \A n \in DOMAIN told :
           told'[n].ends = told[n].ends /\ told'[n].stale = told[n].stale,
         told' \in Seq(ToldShape)
  PROVE  IInv'
<1>1. SocketsGoOn
  BY SocketsStay DEF IInv
<1>2. Linked'
  BY InSession DEF IInv, Standing, Linked, SameSession
<1>3. GoesOn
  BY <1>1, <1>2 DEF GoesOn, SameSession
<1>4. QED
  BY <1>3, GoingOn DEF IInv, TypeInv, SameSession

LEMMA Committing ==
  ASSUME IInv, CommitUtterance
  PROVE  IInv' /\ OnlyWanted
<1>1. conn.active # None
  BY DEF CommitUtterance
<1>2. CASE CanSend(conn.socket)
  <2>1. [conn.active EXCEPT !.phase = "committing"] \in TurnShape
    BY <1>1, InSession DEF TurnShape
  <2>2. /\ conn' = [conn EXCEPT !.active = [conn.active EXCEPT !.phase = "committing"]]
        /\ sockets' = sockets /\ told' = told
    BY <1>2 DEF CommitUtterance, Sends
  <2>3. SameSession
    BY <2>1, <2>2 DEF IInv, TypeInv, ConnShape, SameSession
  <2>4. QED
    BY <1>1, <2>2, <2>3, Speaking, NoneIsTold DEF CommitUtterance, IInv, TypeInv
<1>3. CASE ~CanSend(conn.socket)
  BY <1>1, <1>3, InSession, Failing DEF CommitUtterance, Sends
<1>4. QED
  BY <1>2, <1>3

LEMMA Cancelling ==
  ASSUME IInv, CancelUtterance
  PROVE  IInv' /\ OnlyWanted
<1> DEFINE n == sockets[conn.socket].start
<1>1. /\ conn.active # None /\ conn.active \in TurnShape /\ conn \in ConnShape
      /\ Wants(n) /\ n \in DOMAIN told
  BY InSession DEF CancelUtterance, IInv, TypeInv
<1>2. /\ starts' = starts /\ rejections' = rejections /\ wanted' = wanted
  BY DEF CancelUtterance
<1>3. CASE ~CanSend(conn.socket)
  BY <1>1, <1>2, <1>3, Failing DEF CancelUtterance
<1>4. CASE CanSend(conn.socket) /\ conn.active.phase = "streaming"
  <2>1. [conn.active EXCEPT !.phase = "cancelling"] \in TurnShape
    BY <1>1 DEF TurnShape
  <2>2. /\ conn' = [conn EXCEPT !.active = [conn.active EXCEPT !.phase = "cancelling"]]
        /\ sockets' = sockets /\ told' = told
    BY <1>4 DEF CancelUtterance
  <2>3. SameSession
    BY <1>1, <2>1, <2>2 DEF ConnShape, SameSession
  <2>4. QED
    BY <1>1, <1>2, <2>2, <2>3, Speaking, NoneIsTold DEF IInv, TypeInv
<1>5. CASE CanSend(conn.socket) /\ conn.active.phase = "committing"
  <2> DEFINE row == [told[n] EXCEPT !.over = Append(@, conn.active.utt)]
  <2>1. /\ conn' = RetiredLocally(conn) /\ sockets' = sockets
        /\ told' = [told EXCEPT ![n] = row]
    BY <1>5 DEF CancelUtterance
  <2>2. SameSession
    <3>1. conn.active.utt \in Nat
      BY <1>1 DEF TurnShape
    <3>2. Remembered(conn, conn.active.utt) \in ConnShape
      BY <1>1, <3>1, RememberedShape
    <3>3. conn' = [Remembered(conn, conn.active.utt) EXCEPT !.active = None]
      BY <2>1 DEF RetiredLocally
    <3> DEFINE c == Remembered(conn, conn.active.utt)
    <3>4. /\ c.gen = conn.gen /\ c.socket = conn.socket /\ c.session = conn.session
          /\ c.grant = conn.grant /\ c.timer = conn.timer /\ c.expected = conn.expected
      BY <1>1, <3>1, RememberedShape
    <3> HIDE DEF c
    <3>5. conn' = [c EXCEPT !.active = None] /\ c \in ConnShape
      BY <3>2, <3>3 DEF c
    <3>6. QED
      BY <3>4, <3>5 DEF ConnShape, SameSession
  <2>3. row \in ToldShape /\ row.ends = told[n].ends /\ row.stale = told[n].stale
    <3>1. told[n] \in ToldShape /\ conn.active.utt \in Nat
      BY <1>1, Rows DEF IInv, TypeInv, TurnShape
    <3>2. told[n].over \in Seq(Nat)
      BY <3>1 DEF ToldShape
    <3>3. Append(told[n].over, conn.active.utt) \in Seq(Nat)
      BY <3>1, <3>2, Appended
    <3>4. QED
      BY <3>1, <3>3 DEF ToldShape
  <2> HIDE DEF row, n
  <2>4. /\ told' \in Seq(ToldShape) /\ DOMAIN told' = DOMAIN told
        /\ \A m \in DOMAIN told : m # n => told'[m] = told[m]
        /\ \A m \in DOMAIN told :
             told'[m].ends = told[m].ends /\ told'[m].stale = told[m].stale
    BY <1>1, <2>1, <2>3, TellingShape DEF IInv
  <2>5. QED
    BY <1>1, <1>2, <2>1, <2>2, <2>4, Speaking, OneIsTold
<1>6. QED
  BY <1>1, <1>3, <1>4, <1>5 DEF CancelUtterance, TurnShape

(***************************************************************************)
(* A start, from one await to the next                                     *)
(***************************************************************************)
LEMMA TaskAtWork ==
  ASSUME IInv, NEW t \in starts
  PROVE  /\ t \in TaskShape
         /\ IsSourceCurrent(conn, TaskSource(t)) =>
              conn.socket = 0 /\ t.gen = conn.gen /\ Wants(t.start)
  BY CurrentTask DEF IInv, TypeInv, Standing, Asking

\* A task is over, or goes on to its next await, and nothing else happens.
LEMMA TaskMoves ==
  ASSUME IInv, UNCHANGED <<conn, sockets, rejections, wanted, told>>,
         starts' \subseteq TaskShape,
         \A u \in starts' : \E t \in starts : t.start = u.start /\ t.gen = u.gen
  PROVE  IInv' /\ OnlyWanted
<1>1. SocketsGoOn
  BY SocketsStay DEF IInv
<1>2. Linked'
  BY DEF IInv, Standing, Linked
<1>3. GoesOn
  BY <1>1, <1>2 DEF GoesOn
<1>4. TypeInv'
  BY DEF IInv, TypeInv
<1>5. QED
  BY <1>3, <1>4, GoingOn, NoneIsTold DEF IInv

LEMMA TaskContinues ==
  ASSUME IInv, NEW t \in starts,
         NEW at \in {"fetch", "reject", "read", "record"}, Continues(t, at),
         UNCHANGED <<rejections, wanted>>
  PROVE  IInv' /\ OnlyWanted
<1> DEFINE u == [t EXCEPT !.at = at]
<1>1. u \in TaskShape /\ u.start = t.start /\ u.gen = t.gen
  BY TaskAtWork DEF TaskShape
<1>2. starts' = (starts \ {t}) \cup {u} /\ UNCHANGED <<conn, sockets, told>>
  BY DEF Continues
<1> HIDE DEF u
<1>3. starts' \subseteq TaskShape
  BY <1>1, <1>2 DEF IInv, TypeInv
<1>4. \A v \in starts' : \E x \in starts : x.start = v.start /\ x.gen = v.gen
  BY <1>1, <1>2
<1>5. QED
  BY <1>2, <1>3, <1>4, TaskMoves

LEMMA TaskAbandoned ==
  ASSUME IInv, NEW t \in starts, Abandoned(t), UNCHANGED <<rejections, wanted>>
  PROVE  IInv' /\ OnlyWanted
<1>1. starts' \subseteq starts
  BY DEF Abandoned, Stops
<1>2. starts' \subseteq TaskShape
  BY <1>1 DEF IInv, TypeInv
<1>3. QED
  BY <1>1, <1>2, TaskMoves DEF Abandoned

LEMMA TaskFails ==
  ASSUME IInv, NEW t \in starts, FailsStart(t), UNCHANGED <<rejections, wanted>>
  PROVE  IInv' /\ OnlyWanted
<1>1. Wants(t.start) /\ Fail(t.start) /\ starts' \subseteq starts
  BY TaskAtWork DEF FailsStart, Stops
<1>2. QED
  BY <1>1, Failing

LEMMA TaskStale ==
  ASSUME IInv, NEW t \in starts, Stale(t), UNCHANGED <<rejections, wanted>>
  PROVE  IInv' /\ OnlyWanted
<1>1. /\ Wants(t.start) /\ DetachAndClear /\ starts' \subseteq starts
      /\ told' = [told EXCEPT ![t.start].stale = TRUE]
  BY TaskAtWork DEF Stale, Stops
<1>2. LetsGo
  BY <1>1, ShutSocket DEF IInv, Standing, DetachAndClear, LetsGo
<1>3. conn' \in ConnShape /\ Standing'
  BY <1>2, LettingGo
<1>4. /\ told' \in Seq(ToldShape)
      /\ \A m \in DOMAIN told : m # t.start => told'[m] = told[m]
  BY <1>1, StaleShape DEF IInv
<1>5. TypeInv'
  BY <1>2, <1>3, <1>4 DEF IInv, TypeInv, LetsGo, SocketsGoOn
<1>6. QED
  BY <1>1, <1>3, <1>4, <1>5, OneIsTold DEF IInv

LEMMA TaskConnects ==
  ASSUME IInv, NEW t \in starts, Connects(t), UNCHANGED <<rejections, wanted>>
  PROVE  IInv' /\ OnlyWanted
<1> DEFINE s == Len(sockets) + 1
           timer == [socket |-> s, gen |-> conn.gen]
<1>1. /\ t \in TaskShape /\ conn.socket = 0 /\ t.gen = conn.gen /\ Wants(t.start)
  BY TaskAtWork DEF Connects
<1>2. /\ conn' = [conn EXCEPT !.socket = s, !.grant = t.start, !.timer = timer]
      /\ sockets' = Append(sockets, NewSocket(t.start))
      /\ starts' \subseteq starts /\ told' = told /\ rejections' = rejections
      /\ wanted' = wanted
  BY DEF Connects, Stops, Armed
<1>3. conn \in ConnShape /\ sockets \in Seq(SocketShape)
  BY DEF IInv, TypeInv
<1>4. /\ NewSocket(t.start) \in SocketShape /\ NewSocket(t.start).start = t.start
  BY <1>1 DEF NewSocket, SocketShape, TaskShape
<1>5. /\ sockets' \in Seq(SocketShape) /\ DOMAIN sockets' = DOMAIN sockets \cup {s}
      /\ sockets'[s] = NewSocket(t.start)
      /\ \A o \in DOMAIN sockets : sockets'[o] = sockets[o]
  BY <1>2, <1>3, <1>4, Appended
<1>6. s \in Nat /\ s # 0 /\ timer \in SourceShape /\ timer.socket = s
  BY <1>3 DEF ConnShape, SourceShape
<1> HIDE DEF timer
<1>7. /\ conn' \in ConnShape
      /\ conn'.socket = s /\ conn'.grant = t.start /\ conn'.timer = timer
      /\ conn'.gen = conn.gen /\ conn'.session = conn.session
      /\ conn'.active = conn.active
  BY <1>1, <1>2, <1>3, <1>6 DEF ConnShape, TaskShape
<1>8. conn.session = 0
  BY <1>1 DEF IInv, Standing, Linked
<1> HIDE DEF s
<1>9. Linked'
  BY <1>5, <1>6, <1>7, <1>8 DEF IInv, Standing, Linked
<1>10. InUse'
  <2>1. \A n : Wants(n) => Wants(n)'
    BY <1>2 DEF Wants
  <2>2. \A n : n = t.start => Wants(n)'
    BY <2>1, <1>1
  <2>3. sockets'[conn'.socket].start = t.start
    BY <1>4, <1>5, <1>7
  <2>4. Wants(sockets[conn.socket].start)'
    BY <2>2, <2>3 DEF Wants
  <2>5. QED
    BY <2>3, <2>4, <1>7 DEF InUse
<1>11. Asking'
  BY <1>2, <1>6, <1>7 DEF IInv, Standing, Asking
<1>12. Judging'
  BY <1>2, <1>6, <1>7 DEF IInv, Standing, Judging
<1>13. OneConnection'
  BY <1>1, <1>5, <1>7, Rows, <1>3 DEF IInv, Standing, OneConnection
<1>14. TypeInv'
  BY <1>2, <1>5, <1>7 DEF IInv, TypeInv
<1>15. QED
  BY <1>2, <1>9, <1>10, <1>11, <1>12, <1>13, <1>14, NoneIsTold DEF IInv, Standing

LEMMA TaskSteps ==
  ASSUME IInv, NEW t \in starts, StartStep(t)
  PROVE  IInv' /\ OnlyWanted
<1>1. UNCHANGED <<rejections, wanted>>
  BY DEF StartStep, Acquired, Fetched, TicketRead, CredentialRejected, Recorded, Resumes
<1>2. \/ Abandoned(t) \/ FailsStart(t) \/ Stale(t) \/ Connects(t)
      \/ \E at \in {"fetch", "reject", "read", "record"} : Continues(t, at)
  BY DEF StartStep, Acquired, Fetched, TicketRead, CredentialRejected, Recorded
<1>3. QED
  BY <1>1, <1>2, TaskAbandoned, TaskFails, TaskStale, TaskConnects, TaskContinues

(***************************************************************************)
(* Verdicts, sockets and the timer                                         *)
(***************************************************************************)
LEMMA Judged ==
  ASSUME IInv, NEW r \in rejections, FinishRejection(r)
  PROVE  IInv' /\ OnlyWanted
<1>1. /\ rejections' = rejections \ {r}
      /\ UNCHANGED <<conn, starts, sockets, wanted>>
  BY DEF FinishRejection
<1>2. CASE IsSourceCurrent(conn, r.source)
  <2>1. r.source.socket = conn.socket /\ r.source.gen = conn.gen
    BY <1>2 DEF IsSourceCurrent, Source
  <2>2. conn.socket = 0 /\ Wants(r.start)
    BY <2>1 DEF IInv, Standing, Judging
  <2>3. /\ told' \in Seq(ToldShape) /\ \A m \in DOMAIN told : m # r.start => told'[m] = told[m]
    <3>1. Ends(r.start) \/ told' = [told EXCEPT ![r.start].stale = TRUE]
      BY <1>2 DEF FinishRejection
    <3>2. QED
      BY <3>1, EndsShape, StaleShape DEF IInv
  <2>4. TypeInv'
    BY <1>1, <2>3 DEF IInv, TypeInv
  <2>5. Linked' /\ InUse' /\ OneConnection'
    BY <1>1, <2>2 DEF IInv, Standing, Linked, InUse, OneConnection
  <2>6. Asking'
    <3>1. \A t \in starts : t.gen < conn.gen /\ t.gen \in Nat /\ conn.gen \in Nat
      BY <2>1 DEF IInv, Standing, Judging, TypeInv, TaskShape, ConnShape
    <3>2. QED
      BY <1>1, <3>1 DEF Asking
  <2>7. Judging'
    BY <1>1, <2>1 DEF IInv, Standing, Judging
  <2>8. QED
    BY <2>2, <2>3, <2>4, <2>5, <2>6, <2>7, OneIsTold DEF IInv, Standing
<1>3. CASE ~IsSourceCurrent(conn, r.source)
  <2>1. told' = told
    BY <1>3 DEF FinishRejection
  <2>2. SocketsGoOn /\ Linked'
    BY <1>1, SocketsStay DEF IInv, Standing, Linked
  <2>3. GoesOn
    BY <1>1, <2>1, <2>2 DEF GoesOn
  <2>4. TypeInv'
    BY <1>1, <2>1 DEF IInv, TypeInv
  <2>5. QED
    BY <2>1, <2>3, <2>4, GoingOn, NoneIsTold DEF IInv
<1>4. QED
  BY <1>2, <1>3

\* Something happens to one socket, and to nothing else.
LEMMA SocketAlone ==
  ASSUME IInv, NEW s \in DOMAIN sockets, NEW row \in SocketShape,
         sockets' = [sockets EXCEPT ![s] = row],
         Settled(sockets[s]) => Settled(row),
         s = conn.socket => row.start = sockets[s].start,
         UNCHANGED <<conn, starts, rejections, wanted, told>>
  PROVE  IInv' /\ OnlyWanted
<1>1. /\ SocketsGoOn /\ sockets'[s] = row
      /\ \A o \in DOMAIN sockets : o # s => sockets'[o] = sockets[o]
  BY OneSocketChanges DEF IInv
<1>2. Linked'
  BY <1>1 DEF IInv, Standing, Linked, SocketsGoOn
<1>3. conn.socket # 0 => sockets'[conn.socket].start = sockets[conn.socket].start
  BY <1>1 DEF IInv, Standing, Linked
<1>4. GoesOn
  BY <1>1, <1>2, <1>3 DEF GoesOn
<1>5. TypeInv'
  BY <1>1 DEF IInv, TypeInv, SocketsGoOn
<1>6. QED
  BY <1>4, <1>5, GoingOn, NoneIsTold DEF IInv

\* The socket in use is given up, and its start told so.
LEMMA SocketGivenUp ==
  ASSUME IInv, NEW s \in DOMAIN sockets, s = conn.socket, NEW row \in SocketShape,
         sockets' = [sockets EXCEPT ![s] = row], Settled(row),
         conn' = Detached(conn), Ends(sockets[s].start),
         UNCHANGED <<starts, rejections, wanted>>
  PROVE  IInv' /\ OnlyWanted
<1>1. SocketsGoOn /\ sockets'[s] = row
  BY OneSocketChanges DEF IInv
<1>2. LetsGo
  BY <1>1 DEF LetsGo
<1>3. conn' \in ConnShape /\ Standing'
  BY <1>2, LettingGo
<1>4. Wants(sockets[s].start)
  BY Rows DEF IInv, Standing, InUse, TypeInv
<1>5. /\ told' \in Seq(ToldShape)
      /\ \A m \in DOMAIN told : m # sockets[s].start => told'[m] = told[m]
  BY EndsShape DEF IInv
<1>6. TypeInv'
  BY <1>1, <1>3, <1>5 DEF IInv, TypeInv, SocketsGoOn
<1>7. QED
  BY <1>3, <1>4, <1>5, <1>6, OneIsTold DEF IInv

\* The credential of the socket in use is rejected.
LEMMA SocketRejected ==
  ASSUME IInv, NEW s \in DOMAIN sockets, s = conn.socket, NEW row \in SocketShape,
         sockets' = [sockets EXCEPT ![s] = row], Settled(row),
         LiveRejection, UNCHANGED <<starts, wanted>>
  PROVE  IInv' /\ OnlyWanted
<1>1. SocketsGoOn /\ sockets'[s] = row /\ s # 0
  BY OneSocketChanges, Rows DEF IInv, TypeInv
<1>2. LetsGoForVerdict
  BY <1>1 DEF LetsGoForVerdict, LiveRejection
<1>3. conn' \in ConnShape /\ rejections' \subseteq VerdictShape /\ Standing'
  BY <1>2, LettingGoForVerdict
<1>4. TypeInv'
  BY <1>1, <1>3 DEF IInv, TypeInv, SocketsGoOn, LiveRejection
<1>5. QED
  BY <1>3, <1>4, NoneIsTold DEF IInv, LiveRejection

LEMMA SocketRow ==
  ASSUME IInv, NEW s \in DOMAIN sockets
  PROVE  sockets[s] \in SocketShape /\ s # 0 /\ (IsCurrent(s) <=> s = conn.socket)
  BY Rows, CurrentSocket DEF IInv, TypeInv, Standing

LEMMA Opening ==
  ASSUME IInv, NEW s \in DOMAIN sockets, OnOpen(s)
  PROVE  IInv' /\ OnlyWanted
<1> DEFINE row == [sockets[s] EXCEPT !.net = "open",
                     !.relay = IF IsCurrent(s) THEN "asked" ELSE @]
<1>1. row \in SocketShape /\ row.start = sockets[s].start
  BY SocketRow DEF SocketShape
<1>2. /\ ~Settled(sockets[s]) /\ sockets' = [sockets EXCEPT ![s] = row]
      /\ UNCHANGED <<conn, starts, rejections, wanted, told>>
  BY DEF OnOpen, Settled
<1> HIDE DEF row
<1>3. QED
  BY <1>1, <1>2, SocketAlone

LEMMA Breaking ==
  ASSUME IInv, NEW s \in DOMAIN sockets, Breaks(s)
  PROVE  IInv' /\ OnlyWanted
<1>1. PICK code \in {"4401", "other"} :
        sockets' = [sockets EXCEPT ![s].net = "down", ![s].code = code]
  BY DEF Breaks
<1> DEFINE row == [sockets[s] EXCEPT !.net = "down", !.code = code]
<1>2. /\ row \in SocketShape /\ row.start = sockets[s].start
      /\ row.closed = sockets[s].closed
  BY SocketRow DEF SocketShape
<1>3. Settled(sockets[s]) => Settled(row)
  BY <1>2 DEF Settled, Breaks
<1>4. /\ sockets' = [sockets EXCEPT ![s] = row]
      /\ UNCHANGED <<conn, starts, rejections, wanted, told>>
  BY <1>1 DEF Breaks
<1> HIDE DEF row
<1>5. QED
  BY <1>2, <1>3, <1>4, SocketAlone

LEMMA Relaying ==
  ASSUME IInv, NEW s \in DOMAIN sockets, Relay(s)
  PROVE  IInv' /\ OnlyWanted
<1>1. PICK m \in MessageShape, relay \in {"ready", "over"} : Says(s, m, relay)
  <2>1. \A kind \in {"ready", "rejected", "auth", "unexpected", "error"} :
          Plain(kind) \in MessageShape
    BY DEF Plain, MessageShape
  <2>2. \A u \in 1..sockets[s].begun, kind \in {"aborted", "result", "partial"} :
          [kind |-> kind, utt |-> u] \in MessageShape
    BY DEF MessageShape
  <2>3. QED
    BY <2>1, <2>2 DEF Relay
<1> DEFINE row == [sockets[s] EXCEPT !.inbox = m, !.said = @ + 1, !.relay = relay]
<1>2. /\ row \in SocketShape /\ row.start = sockets[s].start
      /\ row.closed = sockets[s].closed /\ row.net = sockets[s].net
  <2>1. sockets[s] \in SocketShape
    BY SocketRow
  <2>2. m \in MessageShape \cup {None} /\ sockets[s].said + 1 \in Nat
    BY <2>1 DEF SocketShape
  <2>3. QED
    BY <2>1, <2>2 DEF SocketShape
<1>3. Settled(sockets[s]) => Settled(row)
  BY <1>2 DEF Settled
<1>4. /\ sockets' = [sockets EXCEPT ![s] = row]
      /\ UNCHANGED <<conn, starts, rejections, wanted, told>>
  BY <1>1 DEF Relay, Says
<1> HIDE DEF row
<1>5. QED
  BY <1>2, <1>3, <1>4, SocketAlone

LEMMA Erring ==
  ASSUME IInv, NEW s \in DOMAIN sockets, OnError(s)
  PROVE  IInv' /\ OnlyWanted
<1> DEFINE row == [sockets[s] EXCEPT !.net = "failed", !.closed = @ \/ IsCurrent(s)]
<1>1. /\ row \in SocketShape /\ row.start = sockets[s].start
      /\ row.closed = (sockets[s].closed \/ IsCurrent(s))
  BY SocketRow DEF SocketShape
<1>2. /\ Settled(sockets[s]) => Settled(row)
      /\ IsCurrent(s) => Settled(row)
  BY <1>1 DEF Settled, OnError
<1>3. sockets' = [sockets EXCEPT ![s] = row] /\ UNCHANGED <<starts, rejections, wanted>>
  BY DEF OnError, Down
<1> HIDE DEF row
<1>4. CASE IsCurrent(s)
  BY <1>1, <1>2, <1>3, <1>4, SocketRow, SocketGivenUp DEF OnError
<1>5. CASE ~IsCurrent(s)
  BY <1>1, <1>2, <1>3, <1>5, SocketAlone DEF OnError
<1>6. QED
  BY <1>4, <1>5

LEMMA Vanishing ==
  ASSUME IInv, NEW s \in DOMAIN sockets, OnClose(s)
  PROVE  IInv' /\ OnlyWanted
<1>1. Gone \in SocketShape /\ Settled(Gone)
  BY DEF Gone, NewSocket, SocketShape, Settled
<1>2. sockets' = [sockets EXCEPT ![s] = Gone] /\ UNCHANGED <<starts, wanted>>
  BY DEF OnClose
<1>3. CASE ~IsCurrent(s)
  <2>1. s # conn.socket
    BY <1>3, SocketRow
  <2>2. UNCHANGED <<conn, rejections, told>>
    BY <1>3 DEF OnClose
  <2>3. QED
    BY <1>1, <1>2, <2>1, <2>2, SocketAlone
<1>4. CASE IsCurrent(s) /\ sockets[s].code = "4401"
  BY <1>1, <1>2, <1>4, SocketRow, SocketRejected DEF OnClose
<1>5. CASE IsCurrent(s) /\ sockets[s].code # "4401"
  BY <1>1, <1>2, <1>5, SocketRow, SocketGivenUp DEF OnClose
<1>6. QED
  BY <1>3, <1>4, <1>5

LEMMA TimingOut ==
  ASSUME IInv, ReadyTimeout
  PROVE  IInv' /\ OnlyWanted
<1>1. UNCHANGED <<starts, rejections, wanted>>
  BY DEF ReadyTimeout
<1>2. CASE IsSourceCurrent(conn, conn.timer) /\ conn.session = 0
  <2>1. conn.timer.socket = conn.socket
    BY <1>2 DEF IsSourceCurrent, Source
  <2>2. Wants(sockets[conn.socket].start)
    BY <2>1 DEF IInv, Standing, Linked, InUse, ReadyTimeout
  <2>3. QED
    BY <1>1, <1>2, <2>2, Failing DEF ReadyTimeout
<1>3. CASE ~(IsSourceCurrent(conn, conn.timer) /\ conn.session = 0)
  <2>1. conn' = [conn EXCEPT !.timer = None] /\ sockets' = sockets /\ told' = told
    BY <1>3 DEF ReadyTimeout
  <2>2. /\ conn' \in ConnShape
        /\ conn'.gen = conn.gen /\ conn'.socket = conn.socket
        /\ conn'.grant = conn.grant /\ conn'.session = conn.session
        /\ conn'.timer = None /\ conn'.active = conn.active
        /\ conn'.retired = conn.retired
    BY <2>1 DEF IInv, TypeInv, ConnShape
  <2>3. SocketsGoOn /\ Linked'
    BY <2>1, <2>2, SocketsStay DEF IInv, Standing, Linked
  <2>4. GoesOn
    BY <1>1, <2>1, <2>2, <2>3 DEF GoesOn
  <2>5. TypeInv'
    BY <1>1, <2>1, <2>2 DEF IInv, TypeInv
  <2>6. QED
    BY <2>1, <2>4, <2>5, GoingOn, NoneIsTold DEF IInv
<1>4. QED
  BY <1>2, <1>3

(***************************************************************************)
(* Messages                                                                *)
(***************************************************************************)
LEMMA HeardShape ==
  ASSUME NEW row \in ToldShape, NEW m \in MessageShape
  PROVE  /\ Heard(row, m) \in ToldShape
         /\ Heard(row, m).ends = row.ends /\ Heard(row, m).stale = row.stale
<1>1. (row.ready \/ m.kind = "ready") \in BOOLEAN /\ (row.late \/ m.utt \in LastOver(row.over)) \in BOOLEAN
  BY DEF ToldShape
<1>2. (IF Terminal(m) THEN Append(row.over, m.utt) ELSE row.over) \in Seq(Nat)
  <2>1. row.over \in Seq(Nat) /\ m.utt \in Nat
    BY DEF ToldShape, MessageShape
  <2>2. QED
    BY <2>1, Appended
<1>3. QED
  BY <1>1, <1>2 DEF Heard, ToldShape

\* The transport's fields as a message may change them before it is told.
SameConnection(c) ==
  /\ c \in ConnShape
  /\ c.gen = conn.gen /\ c.socket = conn.socket /\ c.grant = conn.grant
  /\ c.session # 0 => c.session = conn.socket
  /\ c.active # None => c.session # 0
  /\ c.timer # None => c.timer.socket # 0

LEMMA Emitting ==
  ASSUME IInv, NEW s \in DOMAIN sockets, s = conn.socket, NEW row \in SocketShape,
         sockets' = [sockets EXCEPT ![s] = row],
         Settled(sockets[s]) => Settled(row), row.start = sockets[s].start,
         NEW c, SameConnection(c), NEW m \in MessageShape,
         Emits(c, sockets[s].start, m),
         UNCHANGED <<starts, rejections, wanted>>
  PROVE  IInv' /\ OnlyWanted
<1> DEFINE n == sockets[s].start
           said == Heard(told[n], m)
<1>1. s # 0 /\ Wants(n) /\ n \in DOMAIN told
  BY SocketRow DEF IInv, Standing, InUse, Wants
<1>2. /\ SocketsGoOn /\ sockets'[s] = row
  BY OneSocketChanges DEF IInv
<1>3. told[n] \in ToldShape
  BY <1>1, Rows DEF IInv, TypeInv
<1>4. said \in ToldShape /\ said.ends = told[n].ends /\ said.stale = told[n].stale
  BY <1>3, HeardShape
<1>5. told' = told \/ told' = [told EXCEPT ![n] = said]
  BY DEF Emits
<1>6. conn' = c \/ conn' = Remembered(c, m.utt)
  BY DEF Emits
<1> HIDE DEF said, n
<1>7. /\ told' \in Seq(ToldShape) /\ DOMAIN told' = DOMAIN told
      /\ \A k \in DOMAIN told : k # n => told'[k] = told[k]
      /\ \A k \in DOMAIN told :
           told'[k].ends = told[k].ends /\ told'[k].stale = told[k].stale
  <2>1. CASE told' = told
    BY <2>1 DEF IInv, TypeInv
  <2>2. CASE told' = [told EXCEPT ![n] = said]
    BY <1>1, <1>4, <2>2, TellingShape DEF IInv
  <2>3. QED
    BY <1>5, <2>1, <2>2
<1>8. /\ conn' \in ConnShape /\ conn'.gen = c.gen /\ conn'.socket = c.socket
      /\ conn'.session = c.session /\ conn'.grant = c.grant
      /\ conn'.timer = c.timer /\ conn'.active = c.active
  BY <1>6, RememberedShape DEF SameConnection, MessageShape
<1>9. Linked'
  BY <1>1, <1>2, <1>8 DEF Linked, SameConnection, SocketsGoOn
<1>10. GoesOn
  BY <1>1, <1>2, <1>7, <1>8, <1>9 DEF GoesOn, SameConnection
<1>11. TypeInv'
  BY <1>2, <1>7, <1>8 DEF IInv, TypeInv, SocketsGoOn
<1>12. QED
  BY <1>1, <1>7, <1>10, <1>11, GoingOn, OneIsTold DEF IInv

LEMMA TookShape ==
  ASSUME IInv, NEW s \in DOMAIN sockets
  PROVE  /\ [sockets[s] EXCEPT !.inbox = None] \in SocketShape
         /\ [sockets[s] EXCEPT !.inbox = None].start = sockets[s].start
         /\ [sockets[s] EXCEPT !.inbox = None].begun = sockets[s].begun
         /\ [sockets[s] EXCEPT !.inbox = None].inbox = None
         /\ Settled(sockets[s]) => Settled([sockets[s] EXCEPT !.inbox = None])
         /\ Took(s) = [sockets EXCEPT ![s] = [sockets[s] EXCEPT !.inbox = None]]
<1>1. sockets[s] \in SocketShape
  BY SocketRow
<1>2. QED
  BY <1>1 DEF SocketShape, Settled, Took

LEMMA DropsShape ==
  ASSUME IInv, NEW s \in DOMAIN sockets, Drops(s)
  PROVE  \E row \in SocketShape :
           /\ Settled(row) /\ row.start = sockets[s].start
           /\ row.begun = sockets[s].begun /\ row.inbox = None
           /\ sockets' = [sockets EXCEPT ![s] = row]
<1> DEFINE took == [sockets[s] EXCEPT !.inbox = None]
           row == [took EXCEPT !.closed = TRUE]
<1>1. took \in SocketShape /\ took.start = sockets[s].start
      /\ took.begun = sockets[s].begun /\ took.inbox = None
  BY TookShape
<1>2. Took(s) = [sockets EXCEPT ![s] = took]
  BY TookShape
<1> HIDE DEF took
<1>3. /\ row \in SocketShape /\ row.closed /\ row.start = took.start
      /\ row.begun = took.begun /\ row.inbox = took.inbox
  BY <1>1 DEF SocketShape
<1>4. sockets' = [[sockets EXCEPT ![s] = took] EXCEPT ![s].closed = TRUE]
  BY <1>2 DEF Drops
<1>5. sockets' = [sockets EXCEPT ![s] = row]
  BY <1>4 DEF IInv, TypeInv
<1> HIDE DEF row
<1>6. Settled(row)
  BY <1>3 DEF Settled
<1>7. QED
  BY <1>1, <1>3, <1>5, <1>6

LEMMA Receiving ==
  ASSUME IInv, NEW s \in DOMAIN sockets, OnMessage(s)
  PROVE  IInv' /\ OnlyWanted
<1> DEFINE m == sockets[s].inbox
           n == sockets[s].start
           took == [sockets[s] EXCEPT !.inbox = None]
<1>1. /\ m \in MessageShape /\ UNCHANGED <<starts, wanted>>
  BY SocketRow DEF OnMessage, SocketShape
<1>2. /\ took \in SocketShape /\ took.start = n
      /\ Settled(sockets[s]) => Settled(took)
      /\ Took(s) = [sockets EXCEPT ![s] = took]
  BY TookShape
<1> HIDE DEF took
<1>3. CASE ~IsCurrent(s)
  <2>1. sockets' = Took(s) /\ UNCHANGED <<conn, rejections, told>>
    BY <1>3 DEF OnMessage
  <2>2. QED
    BY <1>1, <1>2, <2>1, SocketAlone
<1>4. CASE IsCurrent(s)
  <2>1. s = conn.socket /\ s # 0 /\ conn \in ConnShape /\ Handles(s, m)
    BY <1>4, SocketRow DEF OnMessage, IInv, TypeInv
  <2>2. SameConnection(conn)
    BY <2>1 DEF SameConnection, IInv, Standing, Linked
  <2>3. CASE m.kind = "auth" /\ LiveRejection /\ Drops(s)
    BY <1>1, <2>1, <2>3, DropsShape, SocketRejected
  <2>4. CASE /\ m.kind \in {"error", "rejected"} \/ Unexpected(m)
             /\ conn' = Detached(conn) /\ Drops(s) /\ Ends(n)
             /\ UNCHANGED rejections
    BY <1>1, <2>1, <2>4, DropsShape, SocketGivenUp
  <2>5. CASE sockets' = Took(s) /\ UNCHANGED <<conn, rejections, told>>
    BY <1>1, <1>2, <2>5, SocketAlone
  <2>6. CASE /\ m.kind = "ready" /\ conn.session = 0
             /\ sockets' = Took(s) /\ UNCHANGED rejections
             /\ Emits([conn EXCEPT !.timer = None, !.expected = 0, !.session = s], n, m)
    <3> DEFINE c == [conn EXCEPT !.timer = None, !.expected = 0, !.session = s]
    <3>1. SameConnection(c)
      <4>1. s \in Nat
        BY <2>1 DEF ConnShape
      <4>2. QED
        BY <2>1, <2>2, <4>1 DEF SameConnection, ConnShape
    <3> HIDE DEF c
    <3>2. Emits(c, n, m)
      BY <2>6 DEF c
    <3>3. QED
      BY <1>1, <1>2, <2>1, <2>6, <3>1, <3>2, Emitting
  <2>7. CASE \E c : /\ c = conn \/ c = [conn EXCEPT !.active = None]
                    /\ Emits(c, n, m) /\ sockets' = Took(s) /\ UNCHANGED rejections
    <3>1. PICK c : /\ c = conn \/ c = [conn EXCEPT !.active = None]
                   /\ Emits(c, n, m)
      BY <2>7
    <3>2. SameConnection(c)
      BY <2>1, <2>2, <3>1 DEF SameConnection, ConnShape
    <3>3. QED
      BY <1>1, <1>2, <2>1, <2>7, <3>1, <3>2, Emitting
  <2>8. QED
    BY <2>1, <2>3, <2>4, <2>5, <2>6, <2>7 DEF Handles
<1>5. QED
  BY <1>3, <1>4

(***************************************************************************)
(* The theorems                                                            *)
(***************************************************************************)
LEMMA InitInvariant == Init => IInv
<1>1. SUFFICES ASSUME Init PROVE IInv
  OBVIOUS
<1>2. conn = [gen |-> 0, socket |-> 0, session |-> 0, expected |-> 0, grant |-> 0,
              timer |-> None, active |-> None, retired |-> << >>]
  BY <1>1 DEF Init, Idle
<1>3. conn \in ConnShape
  <2>1. << >> \in Seq(Nat)
    OBVIOUS
  <2>2. QED
    BY <1>2, <2>1 DEF ConnShape
<1>4. << >> \in Seq(SocketShape) /\ << >> \in Seq(ToldShape)
  OBVIOUS
<1>5. DOMAIN sockets = {}
  BY <1>1 DEF Init
<1>6. TypeInv
  BY <1>1, <1>3, <1>4 DEF Init, TypeInv
<1>7. Standing
  BY <1>1, <1>2, <1>5 DEF Init, Standing, Linked, InUse, Asking, Judging, OneConnection
<1>8. QED
  BY <1>6, <1>7 DEF IInv

LEMMA StepInvariant ==
  ASSUME IInv, Next
  PROVE  IInv' /\ OnlyWanted
<1>1. CASE StartSession \/ Close \/ EndSession
  BY <1>1, Starting, Closing, Ending
<1>2. CASE StartUtterance \/ CommitUtterance \/ CancelUtterance
  BY <1>2, SpeakingBegins, Committing, Cancelling
<1>3. CASE \E t \in starts : StartStep(t)
  BY <1>3, TaskSteps
<1>4. CASE \E r \in rejections : FinishRejection(r)
  BY <1>4, Judged
<1>5. CASE ReadyTimeout
  BY <1>5, TimingOut
<1>6. CASE \E s \in DOMAIN sockets : SocketStep(s) \/ Relay(s) \/ Breaks(s)
  BY <1>6, Opening, Receiving, Erring, Vanishing, Relaying, Breaking DEF SocketStep
<1>7. QED
  BY <1>1, <1>2, <1>3, <1>4, <1>5, <1>6 DEF Next

\* Types, and what links the connection, the tasks and the verdicts to the
\* start the application wants.
THEOREM ConnectionInvariant == Spec => []IInv
<1>1. IInv /\ [Next]_vars => IInv'
  <2>1. CASE Next
    BY <2>1, StepInvariant
  <2>2. CASE UNCHANGED vars
    BY <2>2 DEF vars, IInv, TypeInv, Standing, Linked, InUse, Asking, Judging,
                OneConnection, Wants
  <2>3. QED
    BY <2>1, <2>2
<1>2. QED
  BY <1>1, InitInvariant, PTL DEF Spec

\* The application hears of the session it asked for last and of no other, and
\* of nothing once it was told that this one is over, however late tickets,
\* sockets, messages and verdicts of older connections come back.
THEOREM LatestSpeaks == Spec => OnlyTheLatestSpeaks
<1> DEFINE Spoken == \A n \in DOMAIN told :
                       told'[n] # told[n] => n = wanted /\ told[n].ends = 0 /\ ~told[n].stale
<1>1. IInv /\ [Next]_vars => [Spoken]_vars
  BY StepInvariant DEF OnlyWanted, Wants
<1>2. QED
  BY <1>1, ConnectionInvariant, PTL DEF Spec, OnlyTheLatestSpeaks

(***************************************************************************)
(* What is remembered of the utterances of a session                       *)
(***************************************************************************)
Forgotten(c) == {c.retired[i] : i \in DOMAIN c.retired}

\* What is held of the ends are the last, as many as are remembered.
Holds(held, over) ==
  /\ Len(held) = IF Len(over) > RetiredCapacity THEN RetiredCapacity ELSE Len(over)
  /\ \A i \in DOMAIN held : held[i] = over[Len(over) - Len(held) + i]

\* A start that has no socket yet has told of no utterance.
NothingOver ==
  \A t \in starts :
    t.gen = conn.gen /\ conn.socket = 0 => told[t.start].over = << >>

\* The connection remembers as retired what was last told to be over.
Remembers ==
  conn.socket # 0 =>
    LET s == sockets[conn.socket] IN
    /\ Holds(conn.retired, told[s.start].over)
    /\ Forgotten(conn) \subseteq 1..s.begun
    /\ conn.active # None => conn.active.utt \in 1..s.begun \ Forgotten(conn)

\* The relay speaks of utterances that were begun.
Fits(row) ==
  row.inbox # None =>
    /\ row.inbox.utt <= row.begun
    /\ OfUtterance(row.inbox) => row.inbox.utt # 0
    /\ row.inbox.kind = "ready" => row.inbox.utt = 0

OfBegun == \A s \in DOMAIN sockets : Fits(sockets[s])

Memory == NothingOver /\ Remembers /\ OfBegun /\ OverIsOver

LEMMA HoldsTheLast ==
  ASSUME NEW c \in ConnShape, NEW over \in Seq(Nat), Holds(c.retired, over)
  PROVE  Forgotten(c) = LastOver(over)
<1> DEFINE held == c.retired
           n == Len(over)
           h == Len(held)
<1>1. /\ held \in Seq(Nat) /\ h \in Nat /\ n \in Nat /\ RetiredCapacity \in Nat
      /\ DOMAIN held = 1..h /\ DOMAIN over = 1..n
  BY ClientAssumption DEF ConnShape
<1>2. /\ h = IF n > RetiredCapacity THEN RetiredCapacity ELSE n
      /\ \A i \in 1..h : held[i] = over[n - h + i]
  <2>1. h = IF n > RetiredCapacity THEN RetiredCapacity ELSE n
    BY DEF Holds
  <2>2. \A i \in DOMAIN held : held[i] = over[n - h + i]
    BY DEF Holds
  <2>3. DOMAIN held = 1..h
    BY <1>1
  <2>4. QED
    BY <2>1, <2>2, <2>3
<1> HIDE DEF held, n, h
<1>3. ASSUME NEW i \in 1..h
      PROVE  held[i] \in {over[j] : j \in {k \in 1..n : k + RetiredCapacity > n}}
  <2> DEFINE m == n - h + i
  <2>1. m \in 1..n /\ m + RetiredCapacity > n /\ held[i] = over[m]
    BY <1>1, <1>2
  <2> HIDE DEF m
  <2>2. m \in {k \in 1..n : k + RetiredCapacity > n}
    BY <2>1
  <2>3. over[m] \in {over[j] : j \in {k \in 1..n : k + RetiredCapacity > n}}
    BY <2>2
  <2>4. QED
    BY <2>1, <2>3, Zenon
<1>4. ASSUME NEW j \in 1..n, j + RetiredCapacity > n
      PROVE  over[j] \in {held[i] : i \in 1..h}
  <2>1. j - (n - h) \in 1..h /\ n - h + (j - (n - h)) = j
    BY <1>1, <1>2, <1>4
  <2>2. held[j - (n - h)] = over[j]
    BY <1>2, <2>1
  <2>3. QED
    BY <2>1, <2>2
<1>5. {held[i] : i \in 1..h} = {over[j] : j \in {k \in 1..n : k + RetiredCapacity > n}}
  BY <1>3, <1>4
<1>6. Forgotten(c) = {held[i] : i \in 1..h}
  BY <1>1 DEF Forgotten, held
<1>7. LastOver(over) = {over[j] : j \in {k \in 1..n : k + RetiredCapacity > n}}
  BY <1>1 DEF LastOver, n
<1>8. QED
  BY <1>5, <1>6, <1>7

\* One more end: the oldest gives way when the memory is full.
LEMMA Remembering ==
  ASSUME NEW c \in ConnShape, NEW over \in Seq(Nat), NEW u \in Nat,
         Holds(c.retired, over)
  PROVE  /\ Holds(Remembered(c, u).retired, Append(over, u))
         /\ Forgotten(Remembered(c, u)) \subseteq Forgotten(c) \cup {u}
<1> DEFINE held == c.retired
           all  == Append(held, u)
           next == IF Len(all) > RetiredCapacity THEN Tail(all) ELSE all
           more == Append(over, u)
           n == Len(over)
           h == Len(held)
<1>1. held \in Seq(Nat) /\ RetiredCapacity \in Nat /\ h \in Nat /\ n \in Nat
  BY ClientAssumption DEF ConnShape
<1>2. /\ h = IF n > RetiredCapacity THEN RetiredCapacity ELSE n
      /\ \A i \in 1..h : held[i] = over[n - h + i]
  <2>1. h = IF n > RetiredCapacity THEN RetiredCapacity ELSE n
    BY DEF Holds
  <2>2. \A i \in DOMAIN held : held[i] = over[n - h + i]
    BY DEF Holds
  <2>3. DOMAIN held = 1..h
    BY <1>1
  <2>4. QED
    BY <2>1, <2>2, <2>3
<1>3. /\ all \in Seq(Nat) /\ Len(all) = h + 1 /\ all[h + 1] = u
      /\ \A i \in 1..h : all[i] = held[i]
  BY <1>1
<1>4. /\ more \in Seq(Nat) /\ Len(more) = n + 1 /\ more[n + 1] = u
      /\ \A i \in 1..n : more[i] = over[i]
  BY <1>1
<1>5. Remembered(c, u).retired = next
  BY DEF Remembered, ConnShape
<1> HIDE DEF held, all, more, n, h
<1>6. \A i \in 1..(h + 1) : all[i] = more[n - h + i]
  <2>1. SUFFICES ASSUME NEW i \in 1..(h + 1) PROVE all[i] = more[n - h + i]
    OBVIOUS
  <2>2. CASE i = h + 1
    BY <1>1, <1>3, <1>4, <2>2
  <2>3. CASE i \in 1..h
    <3>1. n - h + i \in 1..n
      BY <1>1, <1>2, <2>3
    <3>2. QED
      BY <1>2, <1>3, <1>4, <2>3, <3>1
  <2>4. QED
    BY <1>1, <2>2, <2>3
<1>7. ASSUME NEW i \in 1..(h + 1)
      PROVE  all[i] \in {held[j] : j \in 1..h} \cup {u}
  <2>1. CASE i = h + 1
    BY <1>3, <2>1
  <2>2. CASE i \in 1..h
    BY <1>3, <2>2
  <2>3. QED
    BY <1>1, <2>1, <2>2
<1>8. CASE Len(all) > RetiredCapacity
  <2>1. h = RetiredCapacity
    BY <1>1, <1>2, <1>3, <1>8
  <2>2. /\ next \in Seq(Nat) /\ Len(next) = h
        /\ \A i \in 1..h : next[i] = all[i + 1]
    BY <1>1, <1>3, <1>8
  <2> HIDE DEF next
  <2>3. \A i \in 1..h : next[i] = more[n + 1 - h + i]
    <3>1. SUFFICES ASSUME NEW i \in 1..h PROVE next[i] = more[n + 1 - h + i]
      OBVIOUS
    <3>2. i + 1 \in 1..(h + 1) /\ n - h + (i + 1) = n + 1 - h + i
      BY <1>1
    <3>3. QED
      BY <1>6, <2>2, <3>2
  <2>4. Len(more) > RetiredCapacity
    BY <1>1, <1>2, <1>4, <2>1
  <2>5. Holds(next, more)
    <3>1. Len(next) = IF Len(more) > RetiredCapacity THEN RetiredCapacity ELSE Len(more)
      BY <2>1, <2>2, <2>4
    <3>2. DOMAIN next = 1..h /\ Len(more) - Len(next) = n + 1 - h
      BY <1>1, <1>4, <2>2
    <3>3. \A i \in DOMAIN next : next[i] = more[Len(more) - Len(next) + i]
      BY <2>3, <3>2
    <3>4. QED
      BY <3>1, <3>3 DEF Holds
  <2>6. \A i \in 1..h : next[i] \in {held[j] : j \in 1..h} \cup {u}
    <3>1. SUFFICES ASSUME NEW i \in 1..h
                   PROVE  next[i] \in {held[j] : j \in 1..h} \cup {u}
      OBVIOUS
    <3>2. next[i] = all[i + 1] /\ i + 1 \in 1..(h + 1)
      BY <1>1, <2>2
    <3>3. QED
      BY <1>7, <3>2
  <2>7. DOMAIN next = 1..h /\ DOMAIN held = 1..h
    BY <1>1, <2>2 DEF h
  <2>8. QED
    BY <1>5, <2>5, <2>6, <2>7 DEF Forgotten, more, held
<1>9. CASE ~(Len(all) > RetiredCapacity)
  <2>1. next = all /\ h = n
    BY <1>1, <1>2, <1>3, <1>9
  <2>2. Holds(all, more)
    <3>1. Len(all) = IF Len(more) > RetiredCapacity THEN RetiredCapacity ELSE Len(more)
      BY <1>3, <1>4, <1>9, <2>1
    <3>2. DOMAIN all = 1..(h + 1) /\ Len(more) - Len(all) = n - h
      BY <1>1, <1>3, <1>4, <2>1
    <3>3. \A i \in DOMAIN all : all[i] = more[Len(more) - Len(all) + i]
      BY <1>6, <3>2
    <3>4. QED
      BY <3>1, <3>3 DEF Holds
  <2>3. DOMAIN all = 1..(h + 1) /\ DOMAIN held = 1..h
    BY <1>1, <1>3 DEF h
  <2>4. QED
    BY <1>5, <1>7, <2>1, <2>2, <2>3 DEF Forgotten, more, held
<1>10. QED
  BY <1>8, <1>9

\* No start is told anything of an utterance.
OldNews ==
  /\ DOMAIN told' = DOMAIN told
  /\ \A n \in DOMAIN told :
       told'[n].over = told[n].over /\ told'[n].late = told[n].late

LEMMA EndingIsOldNews ==
  ASSUME TypeInv, NEW n, Ends(n) \/ told' = [told EXCEPT ![n].stale = TRUE]
  PROVE  OldNews
<1>1. CASE n \in DOMAIN told
  <2>1. told[n] \in ToldShape
    BY <1>1, Rows DEF TypeInv
  <2>2. PICK row : /\ told' = [told EXCEPT ![n] = row] /\ row \in ToldShape
                   /\ row.over = told[n].over /\ row.late = told[n].late
    <3>1. CASE Ends(n)
      <4> DEFINE row == [told[n] EXCEPT !.ends = @ + 1]
      <4>1. told' = [told EXCEPT ![n] = row]
        BY <3>1 DEF Ends
      <4>2. row \in ToldShape /\ row.over = told[n].over /\ row.late = told[n].late
        BY <2>1 DEF ToldShape
      <4>3. QED
        BY <4>1, <4>2
    <3>2. CASE told' = [told EXCEPT ![n].stale = TRUE]
      <4> DEFINE row == [told[n] EXCEPT !.stale = TRUE]
      <4>1. told' = [told EXCEPT ![n] = row]
        BY <3>2
      <4>2. row \in ToldShape /\ row.over = told[n].over /\ row.late = told[n].late
        BY <2>1 DEF ToldShape
      <4>3. QED
        BY <4>1, <4>2
    <3>3. QED
      BY <3>1, <3>2
  <2>3. QED
    BY <1>1, <2>2, Replaced DEF OldNews, TypeInv
<1>2. CASE n \notin DOMAIN told
  BY <1>2 DEF OldNews, Ends, TypeInv
<1>3. QED
  BY <1>1, <1>2

LEMMA SilenceIsOldNews ==
  ASSUME told' = told
  PROVE  OldNews
  BY DEF OldNews

\* No socket gets an utterance or a message that does not fit it.
LEMMA OneSocketFits ==
  ASSUME TypeInv, OfBegun, NEW s \in DOMAIN sockets, NEW row \in SocketShape,
         sockets' = [sockets EXCEPT ![s] = row], Fits(row)
  PROVE  OfBegun'
<1>1. /\ DOMAIN sockets' = DOMAIN sockets /\ sockets'[s] = row
      /\ \A o \in DOMAIN sockets : o # s => sockets'[o] = sockets[o]
  BY Replaced DEF TypeInv
<1>2. SUFFICES ASSUME NEW o \in DOMAIN sockets PROVE Fits(sockets[o])'
  BY <1>1 DEF OfBegun
<1>3. Fits(sockets'[o])
  BY <1>1 DEF OfBegun
<1>4. QED
  BY <1>3 DEF Fits, OfUtterance

LEMMA ShutFits ==
  ASSUME IInv, OfBegun, sockets' = Shut(conn.socket)
  PROVE  OfBegun'
<1>1. CASE conn.socket = 0
  BY <1>1 DEF Shut, OfBegun, Fits, OfUtterance
<1>2. CASE conn.socket # 0
  <2> DEFINE s == conn.socket
             row == [sockets[s] EXCEPT !.closed = TRUE]
  <2>1. s \in DOMAIN sockets
    BY <1>2 DEF IInv, Standing, Linked
  <2>2. row \in SocketShape /\ row.begun = sockets[s].begun /\ row.inbox = sockets[s].inbox
    <3>1. sockets[s] \in SocketShape
      BY <2>1, SocketRow
    <3>2. QED
      BY <3>1 DEF SocketShape
  <2>3. sockets' = [sockets EXCEPT ![s] = row]
    BY <1>2 DEF Shut
  <2> HIDE DEF row
  <2>4. Fits(row)
    BY <2>1, <2>2 DEF OfBegun, Fits
  <2>5. QED
    BY <2>1, <2>2, <2>3, <2>4, OneSocketFits DEF IInv
<1>3. QED
  BY <1>1, <1>2

\* Once the connection is let go of there is nothing to remember.
LEMMA NothingToRemember ==
  ASSUME IInv, Memory, conn' = Detached(conn), starts' \subseteq starts,
         OldNews, OfBegun'
  PROVE  Memory'
<1>1. conn'.socket = 0 /\ conn'.gen = conn.gen + 1 /\ conn.gen \in Nat
  BY DetachedShape DEF IInv, TypeInv, ConnShape
<1>2. NothingOver'
  BY <1>1 DEF NothingOver, IInv, TypeInv, TaskShape, Standing, Asking
<1>3. Remembers'
  BY <1>1 DEF Remembers
<1>4. OverIsOver'
  BY DEF Memory, OverIsOver, OldNews
<1>5. QED
  BY <1>2, <1>3, <1>4 DEF Memory

\* A connection that goes on with the same utterance goes on remembering.
SameMemory ==
  /\ conn'.gen = conn.gen /\ conn'.socket = conn.socket
  /\ conn'.retired = conn.retired
  /\ conn'.active # None =>
       conn.active # None /\ conn'.active.utt = conn.active.utt
  /\ conn.socket # 0 =>
       /\ sockets'[conn.socket].start = sockets[conn.socket].start
       /\ sockets'[conn.socket].begun = sockets[conn.socket].begun
  /\ \A t \in starts' : \E u \in starts : u.start = t.start /\ u.gen = t.gen

LEMMA MemoryStays ==
  ASSUME IInv, Memory, SameMemory, OldNews, OfBegun'
  PROVE  Memory'
<1>1. NothingOver'
  <2>1. \A t \in starts : t.gen = conn.gen /\ conn.socket = 0 =>
          t.start \in DOMAIN told /\ told[t.start].over = << >>
    BY DEF Memory, NothingOver, IInv, Standing, Asking, Wants
  <2>2. QED
    BY <2>1 DEF NothingOver, SameMemory, OldNews
<1>2. Remembers'
  <2>1. SUFFICES ASSUME conn'.socket # 0 PROVE Remembers'
    BY DEF Remembers
  <2>2. conn.socket # 0 /\ sockets[conn.socket].start \in DOMAIN told
    BY <2>1 DEF SameMemory, IInv, Standing, InUse, Wants
  <2>3. Forgotten(conn') = Forgotten(conn)
    BY DEF Forgotten, SameMemory
  <2>4. QED
    BY <2>2, <2>3 DEF Memory, Remembers, SameMemory, OldNews, Forgotten
<1>3. OverIsOver'
  BY DEF Memory, OverIsOver, OldNews
<1>4. QED
  BY <1>1, <1>2, <1>3 DEF Memory

LEMMA FailingRemembers ==
  ASSUME IInv, Memory, NEW n, Fail(n), starts' \subseteq starts
  PROVE  Memory'
  BY EndingIsOldNews, ShutFits, NothingToRemember
     DEF Fail, DetachAndClear, IInv, Memory

(***************************************************************************)
(* Every step remembers                                                    *)
(***************************************************************************)
LEMMA StartRemembers ==
  ASSUME IInv, Memory, StartSession
  PROVE  Memory'
<1>1. /\ Detached(conn).socket = 0 /\ conn.gen \in Nat
      /\ Detached(conn).gen = conn.gen + 1 /\ Detached(conn) \in ConnShape
  BY DetachedShape DEF IInv, TypeInv, ConnShape
<1>2. conn'.socket = 0 /\ conn'.gen = conn.gen + 2
  BY <1>1 DEF StartSession, ConnShape
<1>3. /\ Untold \in ToldShape /\ Untold.over = << >> /\ ~Untold.late
  BY DEF Untold, ToldShape
<1>4. /\ DOMAIN told' = DOMAIN told \cup {wanted'} /\ told'[wanted'] = Untold
      /\ wanted' \notin DOMAIN told
      /\ \A n \in DOMAIN told : told'[n] = told[n]
  BY <1>3, Appended DEF StartSession, IInv, TypeInv
<1>5. NothingOver'
  <2>1. \A t \in starts : t.gen <= conn.gen /\ t.gen \in Nat
    BY DEF IInv, Standing, Asking, TypeInv, TaskShape
  <2>2. \A t \in starts' : t \in starts \/ t.start = wanted'
    BY DEF StartSession
  <2>3. QED
    BY <1>1, <1>2, <1>3, <1>4, <2>1, <2>2 DEF NothingOver
<1>6. Remembers'
  BY <1>2 DEF Remembers
<1>7. OfBegun'
  BY ShutFits DEF StartSession, Memory
<1>8. OverIsOver'
  BY <1>3, <1>4 DEF Memory, OverIsOver
<1>9. QED
  BY <1>5, <1>6, <1>7, <1>8 DEF Memory

LEMMA CloseRemembers ==
  ASSUME IInv, Memory, Close
  PROVE  Memory'
  BY SilenceIsOldNews, ShutFits, NothingToRemember
     DEF Close, DetachAndClear, IInv, Memory

LEMMA EndRemembers ==
  ASSUME IInv, Memory, EndSession
  PROVE  Memory'
<1> DEFINE s == conn.socket
           row == [sockets[s] EXCEPT !.closed = TRUE,
                     !.relay = IF CanSend(s) THEN "over" ELSE @]
<1>1. s \in DOMAIN sockets
  BY DEF IInv, Standing, Linked, EndSession, TypeInv, ConnShape
<1>2. sockets[s] \in SocketShape
  BY <1>1, SocketRow
<1>3. row \in SocketShape /\ row.begun = sockets[s].begun /\ row.inbox = sockets[s].inbox
  BY <1>2 DEF SocketShape
<1>4. sockets' = [sockets EXCEPT ![s] = row]
  BY DEF EndSession
<1> HIDE DEF row
<1>5. Fits(row)
  BY <1>1, <1>3 DEF Memory, OfBegun, Fits
<1>6. OfBegun'
  BY <1>1, <1>3, <1>4, <1>5, OneSocketFits DEF IInv, Memory
<1>7. OldNews
  <2>1. told' = told \/ Ends(sockets[s].start)
    BY DEF EndSession
  <2>2. QED
    BY <2>1, SilenceIsOldNews, EndingIsOldNews DEF IInv
<1>8. QED
  BY <1>6, <1>7, NothingToRemember DEF EndSession

LEMMA BeginningRemembers ==
  ASSUME IInv, Memory, StartUtterance
  PROVE  Memory'
<1> DEFINE s == conn.socket
           row == [sockets[s] EXCEPT !.begun = @ + 1]
           turn == [utt |-> sockets[s].begun + 1, phase |-> "streaming"]
<1>1. s # 0 /\ s \in DOMAIN sockets
  BY DEF IInv, Standing, Linked, StartUtterance, TypeInv, ConnShape
<1>2. sockets[s] \in SocketShape /\ sockets[s].begun \in Nat
  BY <1>1, SocketRow DEF SocketShape
<1>3. /\ row \in SocketShape /\ row.start = sockets[s].start
      /\ row.begun = sockets[s].begun + 1 /\ row.inbox = sockets[s].inbox
  BY <1>2 DEF SocketShape
<1>4. turn.utt = sockets[s].begun + 1 /\ turn \in TurnShape
  BY <1>2 DEF TurnShape
<1>5. /\ sockets' = [sockets EXCEPT ![s] = row] /\ conn' = [conn EXCEPT !.active = turn]
      /\ starts' = starts /\ told' = told
  BY DEF StartUtterance
<1> HIDE DEF row, turn
<1>6. /\ conn'.socket = s /\ conn'.gen = conn.gen /\ conn'.retired = conn.retired
      /\ conn'.active = turn
  BY <1>5 DEF IInv, TypeInv, ConnShape
<1>7. sockets'[s] = row
  BY <1>1, <1>3, <1>5, OneSocketChanges DEF IInv
<1>8. Fits(row)
  <2>1. Fits(sockets[s])
    BY <1>1 DEF Memory, OfBegun
  <2>2. row.inbox # None => row.inbox.utt \in Nat
    BY <1>3 DEF SocketShape, MessageShape
  <2>3. QED
    BY <1>2, <1>3, <2>1, <2>2 DEF Fits
<1>9. OfBegun'
  BY <1>1, <1>3, <1>5, <1>8, OneSocketFits DEF IInv, Memory
<1>10. Forgotten(conn') = Forgotten(conn)
  BY <1>6 DEF Forgotten
<1>11. Remembers'
  <2>1. /\ Holds(conn.retired, told[row.start].over)
        /\ Forgotten(conn) \subseteq 1..sockets[s].begun
    BY <1>1, <1>3 DEF Memory, Remembers
  <2>2. turn.utt \in 1..row.begun \ Forgotten(conn)
    BY <1>2, <1>3, <1>4, <2>1
  <2>3. Forgotten(conn) \subseteq 1..row.begun
    BY <1>2, <1>3, <2>1
  <2>4. QED
    BY <1>5, <1>6, <1>7, <2>1, <2>2, <2>3 DEF Remembers, Forgotten
<1>12. NothingOver'
  BY <1>5, <1>6 DEF Memory, NothingOver
<1>13. OverIsOver'
  BY <1>5 DEF Memory, OverIsOver
<1>14. QED
  BY <1>9, <1>11, <1>12, <1>13 DEF Memory

LEMMA CommitRemembers ==
  ASSUME IInv, Memory, CommitUtterance
  PROVE  Memory'
<1>1. CASE CanSend(conn.socket)
  <2>1. /\ conn' = [conn EXCEPT !.active = [conn.active EXCEPT !.phase = "committing"]]
        /\ UNCHANGED <<sockets, told, starts>>
    BY <1>1 DEF CommitUtterance, Sends
  <2>2. conn.active # None /\ conn.active \in TurnShape
    BY InSession DEF CommitUtterance
  <2>3. [conn.active EXCEPT !.phase = "committing"].utt = conn.active.utt
    BY <2>2 DEF TurnShape
  <2>4. SameMemory
    BY <2>1, <2>2, <2>3 DEF SameMemory, IInv, TypeInv, ConnShape
  <2>5. OfBegun'
    BY <2>1 DEF Memory, OfBegun, Fits, OfUtterance
  <2>6. QED
    BY <2>1, <2>4, <2>5, SilenceIsOldNews, MemoryStays
<1>2. CASE ~CanSend(conn.socket)
  BY <1>2, FailingRemembers DEF CommitUtterance, Sends
<1>3. QED
  BY <1>1, <1>2

\* What is told to be over is remembered.
LEMMA RetiringRemembers ==
  ASSUME IInv, Memory, conn.socket # 0, OfBegun',
         NEW u \in 1..sockets[conn.socket].begun,
         conn'.socket = conn.socket, conn'.gen = conn.gen,
         conn'.retired = Remembered(conn, u).retired,
         conn'.active = None \/ (conn'.active = conn.active /\ conn.active.utt # u),
         starts' = starts,
         sockets'[conn.socket].start = sockets[conn.socket].start,
         sockets'[conn.socket].begun = sockets[conn.socket].begun,
         DOMAIN told' = DOMAIN told,
         \A n \in DOMAIN told : n # sockets[conn.socket].start => told'[n] = told[n],
         told'[sockets[conn.socket].start].over
           = Append(told[sockets[conn.socket].start].over, u),
         told'[sockets[conn.socket].start].late
           = told[sockets[conn.socket].start].late
  PROVE  Memory'
<1> DEFINE s == conn.socket
           n == sockets[s].start
<1>1. /\ s \in DOMAIN sockets /\ Wants(n) /\ n \in DOMAIN told
      /\ conn \in ConnShape
  BY DEF IInv, TypeInv, Standing, Linked, InUse, Wants
<1>2. told[n].over \in Seq(Nat) /\ u \in Nat
  <2>1. told[n] \in ToldShape /\ sockets[s].begun \in Nat
    BY <1>1, Rows, SocketRow DEF IInv, TypeInv, SocketShape
  <2>2. told[n].over \in Seq(Nat)
    BY <2>1 DEF ToldShape
  <2>3. u \in 1..sockets[s].begun
    OBVIOUS
  <2>4. u \in Nat
    BY <2>1, <2>3, NumberBelow
  <2>5. QED
    BY <2>2, <2>4
<1>3. /\ Holds(conn.retired, told[n].over)
      /\ Forgotten(conn) \subseteq 1..sockets[s].begun
      /\ conn.active # None => conn.active.utt \in 1..sockets[s].begun \ Forgotten(conn)
  BY DEF Memory, Remembers
<1>4. /\ Holds(Remembered(conn, u).retired, Append(told[n].over, u))
      /\ Forgotten(Remembered(conn, u)) \subseteq Forgotten(conn) \cup {u}
  BY <1>1, <1>2, <1>3, Remembering
<1>5. /\ Holds(conn'.retired, Append(told[n].over, u))
      /\ Forgotten(conn') \subseteq Forgotten(conn) \cup {u}
  <2>1. conn'.retired = Remembered(conn, u).retired
    OBVIOUS
  <2>2. Forgotten(conn') = Forgotten(Remembered(conn, u))
    BY <2>1 DEF Forgotten
  <2>3. QED
    BY <1>4, <2>1, <2>2
<1>6. Remembers'
  BY <1>3, <1>5 DEF Remembers, Forgotten
<1>7. NothingOver'
  BY DEF NothingOver
<1>8. OverIsOver'
  BY <1>1 DEF Memory, OverIsOver
<1>9. QED
  BY <1>6, <1>7, <1>8 DEF Memory

LEMMA CancelRemembers ==
  ASSUME IInv, Memory, CancelUtterance
  PROVE  Memory'
<1> DEFINE s == conn.socket
           n == sockets[s].start
<1>1. /\ conn.active # None /\ conn.active \in TurnShape /\ conn \in ConnShape
      /\ n \in DOMAIN told /\ s # 0 /\ s \in DOMAIN sockets
  BY InSession DEF CancelUtterance, IInv, TypeInv
<1>2. starts' = starts
  BY DEF CancelUtterance
<1>3. CASE ~CanSend(s)
  BY <1>2, <1>3, FailingRemembers DEF CancelUtterance
<1>4. CASE CanSend(s) /\ conn.active.phase = "streaming"
  <2>1. /\ conn' = [conn EXCEPT !.active = [conn.active EXCEPT !.phase = "cancelling"]]
        /\ sockets' = sockets /\ told' = told
    BY <1>4 DEF CancelUtterance
  <2>2. [conn.active EXCEPT !.phase = "cancelling"].utt = conn.active.utt
    BY <1>1 DEF TurnShape
  <2>3. SameMemory
    BY <1>1, <1>2, <2>1, <2>2 DEF SameMemory, ConnShape
  <2>4. OfBegun'
    BY <2>1 DEF Memory, OfBegun, Fits, OfUtterance
  <2>5. QED
    BY <2>1, <2>3, <2>4, SilenceIsOldNews, MemoryStays
<1>5. CASE CanSend(s) /\ conn.active.phase = "committing"
  <2> DEFINE u == conn.active.utt
             row == [told[n] EXCEPT !.over = Append(@, u)]
  <2>1. /\ conn' = RetiredLocally(conn) /\ sockets' = sockets
        /\ told' = [told EXCEPT ![n] = row]
    BY <1>5 DEF CancelUtterance
  <2>2. u \in Nat /\ u \in 1..sockets[s].begun /\ u \notin Forgotten(conn)
    BY <1>1 DEF Memory, Remembers, TurnShape
  <2>3. /\ conn'.socket = s /\ conn'.gen = conn.gen /\ conn'.active = None
        /\ conn'.retired = Remembered(conn, u).retired
    <3>1. conn' = [Remembered(conn, u) EXCEPT !.active = None]
      BY <2>1 DEF RetiredLocally
    <3>2. /\ Remembered(conn, u) \in ConnShape /\ Remembered(conn, u).gen = conn.gen
          /\ Remembered(conn, u).socket = s
      BY <1>1, <2>2, RememberedShape
    <3>3. QED
      BY <3>1, <3>2 DEF ConnShape
  <2>4. told[n] \in ToldShape
    BY <1>1, Rows DEF IInv, TypeInv
  <2>5. row.over = Append(told[n].over, u) /\ row.late = told[n].late
    BY <2>4 DEF ToldShape
  <2> HIDE DEF row, u
  <2>6. /\ DOMAIN told' = DOMAIN told /\ told'[n] = row
        /\ \A k \in DOMAIN told : k # n => told'[k] = told[k]
    BY <1>1, <2>1 DEF IInv, TypeInv
  <2>7. OfBegun'
    BY <2>1 DEF Memory, OfBegun, Fits, OfUtterance
  <2>8. QED
    BY <1>1, <1>2, <2>1, <2>2, <2>3, <2>5, <2>6, <2>7, RetiringRemembers
<1>6. QED
  BY <1>1, <1>3, <1>4, <1>5 DEF CancelUtterance, TurnShape

LEMMA TaskRemembers ==
  ASSUME IInv, Memory, NEW t \in starts, StartStep(t)
  PROVE  Memory'
<1>1. CASE FailsStart(t)
  BY <1>1, FailingRemembers DEF FailsStart, Stops
<1>2. CASE Stale(t)
  <2>1. /\ DetachAndClear /\ starts' \subseteq starts
        /\ told' = [told EXCEPT ![t.start].stale = TRUE]
    BY <1>2 DEF Stale, Stops
  <2>2. OfBegun'
    BY <2>1, ShutFits DEF DetachAndClear, Memory
  <2>3. OldNews
    BY <2>1, EndingIsOldNews DEF IInv
  <2>4. QED
    BY <2>1, <2>2, <2>3, NothingToRemember DEF DetachAndClear
<1>3. CASE Abandoned(t) \/ \E at \in {"fetch", "reject", "read", "record"} : Continues(t, at)
  <2>1. UNCHANGED <<conn, sockets, told>>
    BY <1>3 DEF Abandoned, Continues
  <2>2. \A v \in starts' : \E x \in starts : x.start = v.start /\ x.gen = v.gen
    <3>1. CASE Abandoned(t)
      BY <3>1 DEF Abandoned, Stops
    <3>2. CASE \E at \in {"fetch", "reject", "read", "record"} : Continues(t, at)
      <4>1. PICK at \in {"fetch", "reject", "read", "record"} : Continues(t, at)
        BY <3>2
      <4>2. [t EXCEPT !.at = at].start = t.start /\ [t EXCEPT !.at = at].gen = t.gen
        BY TaskAtWork DEF TaskShape
      <4>3. starts' = (starts \ {t}) \cup {[t EXCEPT !.at = at]}
        BY <4>1 DEF Continues
      <4>4. QED
        BY <4>2, <4>3
    <3>3. QED
      BY <1>3, <3>1, <3>2
  <2>3. SameMemory
    BY <2>1, <2>2 DEF SameMemory
  <2>4. OfBegun'
    BY <2>1 DEF Memory, OfBegun, Fits, OfUtterance
  <2>5. QED
    BY <2>1, <2>3, <2>4, SilenceIsOldNews, MemoryStays
<1>4. CASE Connects(t)
  <2> DEFINE s == Len(sockets) + 1
  <2>1. /\ t \in TaskShape /\ conn.socket = 0 /\ t.gen = conn.gen
        /\ sockets \in Seq(SocketShape) /\ conn \in ConnShape
    BY <1>4, TaskAtWork DEF Connects, IInv, TypeInv
  <2>2. /\ sockets' = Append(sockets, NewSocket(t.start))
        /\ told' = told /\ starts' \subseteq starts
    BY <1>4 DEF Connects, Stops
  <2>3. /\ NewSocket(t.start) \in SocketShape /\ NewSocket(t.start).start = t.start
        /\ NewSocket(t.start).begun = 0 /\ NewSocket(t.start).inbox = None
    BY <2>1 DEF NewSocket, SocketShape, TaskShape
  <2>4. /\ DOMAIN sockets' = DOMAIN sockets \cup {s}
        /\ sockets'[s] = NewSocket(t.start)
        /\ \A o \in DOMAIN sockets : sockets'[o] = sockets[o]
    BY <2>1, <2>2, <2>3, Appended
  <2>5. s \in Nat /\ s # 0
    BY <2>1
  <2>6. conn'.socket = s /\ conn'.retired = conn.retired /\ conn'.active = conn.active
    BY <1>4, <2>1 DEF Connects, ConnShape
  <2> HIDE DEF s
  <2>7. conn.retired = << >> /\ conn.active = None
    BY <2>1 DEF IInv, Standing, Linked
  <2>8. told[t.start].over = << >>
    BY <2>1 DEF Memory, NothingOver
  <2>9. Forgotten(conn') = {} /\ Holds(conn'.retired, told[t.start].over)
    BY <2>6, <2>7, <2>8, ClientAssumption DEF Forgotten, Holds
  <2>10. Remembers'
    BY <2>2, <2>3, <2>4, <2>6, <2>7, <2>8, <2>9 DEF Remembers, Forgotten
  <2>11. NothingOver'
    BY <2>5, <2>6 DEF NothingOver
  <2>12. OfBegun'
    BY <2>3, <2>4 DEF Memory, OfBegun, Fits, OfUtterance
  <2>13. OverIsOver'
    BY <2>2 DEF Memory, OverIsOver
  <2>14. QED
    BY <2>10, <2>11, <2>12, <2>13 DEF Memory
<1>5. QED
  BY <1>1, <1>2, <1>3, <1>4
     DEF StartStep, Acquired, Fetched, TicketRead, CredentialRejected, Recorded

LEMMA VerdictRemembers ==
  ASSUME IInv, Memory, NEW r \in rejections, FinishRejection(r)
  PROVE  Memory'
<1>1. UNCHANGED <<conn, starts, sockets>>
  BY DEF FinishRejection
<1>2. OldNews
  <2>1. told' = told \/ Ends(r.start) \/ told' = [told EXCEPT ![r.start].stale = TRUE]
    BY DEF FinishRejection
  <2>2. QED
    BY <2>1, SilenceIsOldNews, EndingIsOldNews DEF IInv
<1>3. SameMemory
  BY <1>1 DEF SameMemory
<1>4. OfBegun'
  BY <1>1 DEF Memory, OfBegun, Fits, OfUtterance
<1>5. QED
  BY <1>2, <1>3, <1>4, MemoryStays

LEMMA TimeoutRemembers ==
  ASSUME IInv, Memory, ReadyTimeout
  PROVE  Memory'
<1>1. CASE \E n : Fail(n)
  BY <1>1, FailingRemembers DEF ReadyTimeout
<1>2. CASE conn' = [conn EXCEPT !.timer = None] /\ UNCHANGED <<sockets, told>>
  <2>1. SameMemory
    BY <1>2 DEF SameMemory, ReadyTimeout, IInv, TypeInv, ConnShape
  <2>2. OfBegun'
    BY <1>2 DEF Memory, OfBegun, Fits, OfUtterance
  <2>3. QED
    BY <1>2, <2>1, <2>2, SilenceIsOldNews, MemoryStays
<1>3. QED
  BY <1>1, <1>2 DEF ReadyTimeout

\* Something happens to one socket, and to nothing else.
LEMMA SocketRemembers ==
  ASSUME IInv, Memory, NEW s \in DOMAIN sockets, NEW row \in SocketShape,
         sockets' = [sockets EXCEPT ![s] = row], Fits(row),
         s = conn.socket => row.start = sockets[s].start /\ row.begun = sockets[s].begun,
         UNCHANGED <<conn, starts, told>>
  PROVE  Memory'
<1>1. /\ sockets'[s] = row /\ \A o \in DOMAIN sockets : o # s => sockets'[o] = sockets[o]
  BY Replaced DEF IInv, TypeInv
<1>2. conn.socket # 0 => conn.socket \in DOMAIN sockets
  BY DEF IInv, Standing, Linked
<1>3. SameMemory
  BY <1>1, <1>2 DEF SameMemory
<1>4. OfBegun'
  BY OneSocketFits DEF IInv, Memory
<1>5. QED
  BY <1>3, <1>4, SilenceIsOldNews, MemoryStays

\* The socket in use is given up.
LEMMA GivenUpRemembers ==
  ASSUME IInv, Memory, NEW s \in DOMAIN sockets, NEW row \in SocketShape,
         sockets' = [sockets EXCEPT ![s] = row], Fits(row),
         conn' = Detached(conn), starts' = starts,
         told' = told \/ \E n : Ends(n)
  PROVE  Memory'
<1>1. OfBegun'
  BY OneSocketFits DEF IInv, Memory
<1>2. OldNews
  BY SilenceIsOldNews, EndingIsOldNews DEF IInv
<1>3. QED
  BY <1>1, <1>2, NothingToRemember

LEMMA FitsStill ==
  ASSUME Memory, NEW s \in DOMAIN sockets, NEW row,
         row.begun = sockets[s].begun,
         row.inbox = sockets[s].inbox \/ row.inbox = None
  PROVE  Fits(row)
  BY DEF Memory, OfBegun, Fits

LEMMA OpenRemembers ==
  ASSUME IInv, Memory, NEW s \in DOMAIN sockets, OnOpen(s)
  PROVE  Memory'
<1> DEFINE row == [sockets[s] EXCEPT !.net = "open",
                     !.relay = IF IsCurrent(s) THEN "asked" ELSE @]
<1>1. /\ row \in SocketShape /\ row.start = sockets[s].start
      /\ row.begun = sockets[s].begun /\ row.inbox = sockets[s].inbox
  BY SocketRow DEF SocketShape
<1>2. /\ sockets' = [sockets EXCEPT ![s] = row] /\ UNCHANGED <<conn, starts, told>>
  BY DEF OnOpen
<1> HIDE DEF row
<1>3. QED
  BY <1>1, <1>2, FitsStill, SocketRemembers

LEMMA BreakRemembers ==
  ASSUME IInv, Memory, NEW s \in DOMAIN sockets, Breaks(s)
  PROVE  Memory'
<1>1. PICK code \in {"4401", "other"} :
        sockets' = [sockets EXCEPT ![s].net = "down", ![s].code = code]
  BY DEF Breaks
<1> DEFINE row == [sockets[s] EXCEPT !.net = "down", !.code = code]
<1>2. /\ row \in SocketShape /\ row.start = sockets[s].start
      /\ row.begun = sockets[s].begun /\ row.inbox = sockets[s].inbox
  BY SocketRow DEF SocketShape
<1>3. sockets' = [sockets EXCEPT ![s] = row] /\ UNCHANGED <<conn, starts, told>>
  BY <1>1 DEF Breaks
<1> HIDE DEF row
<1>4. QED
  BY <1>2, <1>3, FitsStill, SocketRemembers

LEMMA ErrorRemembers ==
  ASSUME IInv, Memory, NEW s \in DOMAIN sockets, OnError(s)
  PROVE  Memory'
<1> DEFINE row == [sockets[s] EXCEPT !.net = "failed", !.closed = @ \/ IsCurrent(s)]
<1>1. /\ row \in SocketShape /\ row.start = sockets[s].start
      /\ row.begun = sockets[s].begun /\ row.inbox = sockets[s].inbox
  BY SocketRow DEF SocketShape
<1>2. sockets' = [sockets EXCEPT ![s] = row] /\ starts' = starts
  BY DEF OnError, Down
<1> HIDE DEF row
<1>3. Fits(row)
  BY <1>1, FitsStill
<1>4. UNCHANGED <<conn, told>> \/ (conn' = Detached(conn) /\ \E n : Ends(n))
  BY DEF OnError
<1>5. QED
  BY <1>1, <1>2, <1>3, <1>4, SocketRemembers, GivenUpRemembers

LEMMA VanishRemembers ==
  ASSUME IInv, Memory, NEW s \in DOMAIN sockets, OnClose(s)
  PROVE  Memory'
<1>1. Gone \in SocketShape /\ Gone.begun = 0 /\ Gone.inbox = None
  BY DEF Gone, NewSocket, SocketShape
<1>2. Fits(Gone)
  BY <1>1 DEF Fits
<1>3. sockets' = [sockets EXCEPT ![s] = Gone] /\ starts' = starts
  BY DEF OnClose
<1>4. \/ s # conn.socket /\ UNCHANGED <<conn, told>>
      \/ conn' = Detached(conn) /\ (told' = told \/ \E n : Ends(n))
  BY SocketRow DEF OnClose, LiveRejection
<1>5. QED
  BY <1>1, <1>2, <1>3, <1>4, SocketRemembers, GivenUpRemembers

LEMMA RelayRemembers ==
  ASSUME IInv, Memory, NEW s \in DOMAIN sockets, Relay(s)
  PROVE  Memory'
<1>1. PICK m \in MessageShape, relay \in {"ready", "over"} :
        /\ Says(s, m, relay) /\ m.utt <= sockets[s].begun
        /\ OfUtterance(m) => m.utt # 0
        /\ m.kind = "ready" => m.utt = 0
  <2>1. sockets[s].begun \in Nat
    BY SocketRow DEF SocketShape
  <2>2. \A kind \in {"ready", "rejected", "auth", "unexpected", "error"} :
          /\ Plain(kind) \in MessageShape /\ Plain(kind).utt <= sockets[s].begun
          /\ ~OfUtterance(Plain(kind)) /\ Plain(kind).utt = 0
    BY <2>1 DEF Plain, MessageShape, OfUtterance
  <2>3. \A u \in 1..sockets[s].begun, kind \in {"aborted", "result", "partial"} :
          /\ [kind |-> kind, utt |-> u] \in MessageShape
          /\ [kind |-> kind, utt |-> u].utt = u /\ u <= sockets[s].begun /\ u # 0
          /\ [kind |-> kind, utt |-> u].kind # "ready"
    BY <2>1 DEF MessageShape
  <2>4. QED
    BY <2>2, <2>3 DEF Relay
<1> DEFINE row == [sockets[s] EXCEPT !.inbox = m, !.said = @ + 1, !.relay = relay]
<1>2. /\ row \in SocketShape /\ row.start = sockets[s].start
      /\ row.begun = sockets[s].begun /\ row.inbox = m
  <2>1. sockets[s] \in SocketShape
    BY SocketRow
  <2>2. m \in MessageShape \cup {None} /\ sockets[s].said + 1 \in Nat
    BY <2>1 DEF SocketShape
  <2>3. QED
    BY <2>1, <2>2 DEF SocketShape
<1>3. /\ sockets' = [sockets EXCEPT ![s] = row]
      /\ UNCHANGED <<conn, starts, told>>
  BY <1>1 DEF Relay, Says
<1> HIDE DEF row
<1>4. Fits(row)
  BY <1>1, <1>2 DEF Memory, OfBegun, Fits
<1>5. QED
  BY <1>2, <1>3, <1>4, SocketRemembers

\* What a message makes of the connection is what it tells.
LEMMA EmittingRemembers ==
  ASSUME IInv, Memory,
         NEW s \in DOMAIN sockets, s = conn.socket,
         sockets[s].inbox \in MessageShape, sockets[s].inbox # None,
         NEW c \in ConnShape, c.gen = conn.gen, c.socket = s, c.retired = conn.retired,
         c.active = conn.active \/ c.active = None,
         IsActive(conn, sockets[s].inbox.utt) /\ Terminal(sockets[s].inbox) => c.active = None,
         \/ sockets[s].inbox.kind = "ready"
         \/ /\ OfUtterance(sockets[s].inbox)
            /\ \/ IsActive(conn, sockets[s].inbox.utt)
               \/ ~IsRetired(conn, sockets[s].inbox.utt),
         Emits(c, sockets[s].start, sockets[s].inbox),
         sockets' = Took(s), starts' = starts
  PROVE  Memory'
<1> DEFINE m == sockets[s].inbox
           u == m.utt
           n == sockets[s].start
           said == Heard(told[n], m)
<1>1. /\ s # 0 /\ n \in DOMAIN told /\ u \in Nat
  BY SocketRow DEF IInv, Standing, InUse, Wants, MessageShape
<1>2. /\ sockets'[s].start = n /\ sockets'[s].begun = sockets[s].begun /\ OfBegun'
  <2> DEFINE took == [sockets[s] EXCEPT !.inbox = None]
  <2>1. /\ took \in SocketShape /\ took.start = n /\ took.begun = sockets[s].begun
        /\ took.inbox = None /\ sockets' = [sockets EXCEPT ![s] = took]
    BY TookShape
  <2> HIDE DEF took
  <2>2. OfBegun'
    BY <2>1, FitsStill, OneSocketFits DEF IInv, Memory
  <2>3. sockets'[s] = took
    BY <2>1, Replaced DEF IInv, TypeInv
  <2>4. QED
    BY <2>1, <2>2, <2>3
<1>3. /\ LastOver(told[n].over) = Forgotten(conn)
      /\ Forgotten(conn) \subseteq 1..sockets[s].begun
      /\ conn.active # None => conn.active.utt \in 1..sockets[s].begun \ Forgotten(conn)
  <2>1. told[n] \in ToldShape /\ conn \in ConnShape
    BY <1>1, Rows DEF IInv, TypeInv
  <2>2. told[n].over \in Seq(Nat)
    BY <2>1 DEF ToldShape
  <2>3. Holds(conn.retired, told[n].over)
    BY <1>1 DEF Memory, Remembers
  <2>4. Forgotten(conn) = LastOver(told[n].over)
    BY <2>1, <2>2, <2>3, HoldsTheLast
  <2>5. QED
    BY <1>1, <2>4 DEF Memory, Remembers
<1>4. /\ u <= sockets[s].begun /\ (OfUtterance(m) => u # 0)
      /\ m.kind = "ready" => u = 0 /\ ~Terminal(m)
      /\ sockets[s].begun \in Nat
  BY SocketRow DEF Memory, OfBegun, Fits, Terminal, SocketShape
<1>5. IsRetired(conn, u) <=> u \in Forgotten(conn)
  BY DEF IsRetired, Forgotten
<1>6. IsRetired(c, u) <=> u \in Forgotten(conn)
  BY DEF IsRetired, Forgotten
<1>7. u \notin Forgotten(conn) /\ (Terminal(m) => u \in 1..sockets[s].begun)
  <2>1. CASE m.kind = "ready"
    BY <1>3, <1>4, <2>1
  <2>2. CASE OfUtterance(m) /\ (IsActive(conn, u) \/ ~IsRetired(conn, u))
    BY <1>1, <1>3, <1>4, <1>5, <2>2 DEF IsActive
  <2>3. QED
    BY <2>1, <2>2
<1>8. told[n] \in ToldShape /\ told[n].late = FALSE
  <2>1. told[n] \in ToldShape /\ ~told[n].late
    BY <1>1, Rows DEF IInv, TypeInv, Memory, OverIsOver
  <2>2. QED
    BY <2>1 DEF ToldShape
<1>9. /\ said.late = FALSE
      /\ said.over = IF Terminal(m) THEN Append(told[n].over, u) ELSE told[n].over
  <2>1. u \notin LastOver(told[n].over)
    BY <1>3, <1>7
  <2>2. (told[n].late \/ u \in LastOver(told[n].over)) = FALSE
    BY <1>8, <2>1
  <2>3. QED
    BY <1>8, <2>2 DEF Heard, ToldShape
<1>10. /\ told' = [told EXCEPT ![n] = said]
       /\ conn' = IF Terminal(m) THEN Remembered(c, u) ELSE c
  BY <1>6, <1>7 DEF Emits
<1> HIDE DEF said
<1>11. /\ DOMAIN told' = DOMAIN told /\ told'[n] = said
       /\ \A k \in DOMAIN told : k # n => told'[k] = told[k]
  BY <1>1, <1>10 DEF IInv, TypeInv
<1>12. CASE Terminal(m)
  <2>1. /\ conn'.socket = conn.socket /\ conn'.gen = conn.gen /\ conn'.active = c.active
        /\ conn'.retired = Remembered(c, u).retired
    BY <1>1, <1>10, <1>12, RememberedShape
  <2>2. Remembered(c, u).retired = Remembered(conn, u).retired
    BY DEF Remembered, ConnShape, IInv, TypeInv
  <2>3. conn'.active = None \/ (conn'.active = conn.active /\ conn.active.utt # u)
    BY <1>12, <2>1 DEF IsActive
  <2> HIDE DEF m, n, u
  <2>4. QED
    BY <1>1, <1>2, <1>7, <1>8, <1>9, <1>11, <1>12, <2>1, <2>2, <2>3,
       RetiringRemembers DEF n
<1>13. CASE ~Terminal(m)
  <2>1. conn' = c
    BY <1>10, <1>13
  <2>2. OldNews
    BY <1>8, <1>9, <1>11, <1>13 DEF OldNews
  <2>3. SameMemory
    BY <1>2, <2>1 DEF SameMemory
  <2>4. QED
    BY <1>2, <2>2, <2>3, MemoryStays
<1>14. QED
  BY <1>12, <1>13

LEMMA MessageRemembers ==
  ASSUME IInv, Memory,
         NEW s \in DOMAIN sockets, OnMessage(s)
  PROVE  Memory'
<1> DEFINE m == sockets[s].inbox
           n == sockets[s].start
           took == [sockets[s] EXCEPT !.inbox = None]
<1>1. m \in MessageShape /\ m # None /\ starts' = starts
  BY SocketRow DEF OnMessage, SocketShape
<1>2. /\ took \in SocketShape /\ took.start = n /\ took.begun = sockets[s].begun
      /\ took.inbox = None /\ Took(s) = [sockets EXCEPT ![s] = took]
  BY TookShape
<1>3. Fits(took)
  BY <1>2, FitsStill
<1> HIDE DEF took
<1>4. CASE sockets' = Took(s) /\ UNCHANGED <<conn, told>>
  BY <1>1, <1>2, <1>3, <1>4, SocketRemembers
<1>5. CASE ~IsCurrent(s)
  BY <1>4, <1>5 DEF OnMessage
<1>6. CASE IsCurrent(s)
  <2>1. s = conn.socket /\ s # 0 /\ conn \in ConnShape /\ Handles(s, m)
    BY <1>6, SocketRow DEF OnMessage, IInv, TypeInv
  <2>2. CASE conn' = Detached(conn) /\ Drops(s) /\ (told' = told \/ Ends(n))
    <3>1. PICK row \in SocketShape :
            /\ row.begun = sockets[s].begun /\ row.inbox = None
            /\ sockets' = [sockets EXCEPT ![s] = row]
      BY <2>2, DropsShape
    <3>2. Fits(row)
      BY <3>1, FitsStill
    <3>3. QED
      BY <1>1, <2>2, <3>1, <3>2, GivenUpRemembers
  <2>3. CASE /\ m.kind = "ready" /\ sockets' = Took(s)
             /\ Emits([conn EXCEPT !.timer = None, !.expected = 0, !.session = s], n, m)
    <3> DEFINE c == [conn EXCEPT !.timer = None, !.expected = 0, !.session = s]
    <3>1. /\ c \in ConnShape /\ c.gen = conn.gen /\ c.socket = s
          /\ c.retired = conn.retired /\ c.active = conn.active
      <4>1. s \in Nat
        BY <2>1 DEF ConnShape
      <4>2. QED
        BY <2>1, <4>1 DEF ConnShape
    <3> HIDE DEF c
    <3>2. Emits(c, n, m)
      BY <2>3 DEF c
    <3>3. ~Terminal(m)
      BY <2>3 DEF Terminal
    <3>4. QED
      BY <1>1, <2>1, <2>3, <3>1, <3>2, <3>3, EmittingRemembers
  <2>4. CASE /\ OfUtterance(m) /\ sockets' = Took(s)
             /\ IsActive(conn, m.utt) \/ ~IsRetired(conn, m.utt)
             /\ Emits(IF IsActive(conn, m.utt) /\ Terminal(m)
                      THEN [conn EXCEPT !.active = None] ELSE conn, n, m)
    <3> DEFINE c == IF IsActive(conn, m.utt) /\ Terminal(m)
                    THEN [conn EXCEPT !.active = None] ELSE conn
    <3>1. /\ c \in ConnShape /\ c.gen = conn.gen /\ c.socket = s
          /\ c.retired = conn.retired
          /\ c.active = conn.active \/ c.active = None
          /\ IsActive(conn, m.utt) /\ Terminal(m) => c.active = None
      BY <2>1 DEF ConnShape
    <3> HIDE DEF c
    <3>2. Emits(c, n, m)
      BY <2>4 DEF c
    <3>3. QED
      BY <1>1, <2>1, <2>4, <3>1, <3>2, EmittingRemembers
  <2>5. QED
    BY <1>4, <2>1, <2>2, <2>3, <2>4 DEF Handles, LiveRejection
<1>7. QED
  BY <1>5, <1>6

LEMMA StepRemembers ==
  ASSUME IInv, Memory, Next
  PROVE  Memory'
<1>1. CASE StartSession \/ Close \/ EndSession
  BY <1>1, StartRemembers, CloseRemembers, EndRemembers
<1>2. CASE StartUtterance \/ CommitUtterance \/ CancelUtterance
  BY <1>2, BeginningRemembers, CommitRemembers, CancelRemembers
<1>3. CASE \E t \in starts : StartStep(t)
  BY <1>3, TaskRemembers
<1>4. CASE \E r \in rejections : FinishRejection(r)
  BY <1>4, VerdictRemembers
<1>5. CASE ReadyTimeout
  BY <1>5, TimeoutRemembers
<1>6. CASE \E s \in DOMAIN sockets : SocketStep(s) \/ Relay(s) \/ Breaks(s)
  BY <1>6, OpenRemembers, MessageRemembers, ErrorRemembers, VanishRemembers,
     RelayRemembers, BreakRemembers DEF SocketStep
<1>7. QED
  BY <1>1, <1>2, <1>3, <1>4, <1>5, <1>6 DEF Next

\* The transport leaves no socket open behind the one it uses; and, however many
\* utterances a session has, none of the last RetiredCapacity to be over, by a
\* cancellation that retired it or by an end that was told, is heard of again,
\* although the relay may still be answering it.
THEOREM OneConnectionLives == Spec => []OneLiveConnection
<1>1. Init => Memory
  BY DEF Init, Idle, Memory, NothingOver, Remembers, OfBegun, OverIsOver
<1>2. IInv /\ Memory /\ [Next]_vars => Memory'
  <2>1. CASE IInv /\ Memory /\ Next
    BY <2>1, StepRemembers
  <2>2. CASE IInv /\ Memory /\ UNCHANGED vars
    BY <2>2 DEF vars, Memory, NothingOver, Remembers, OfBegun, OverIsOver, Fits,
                OfUtterance, Forgotten
  <2>3. QED
    BY <2>1, <2>2
<1>3. IInv /\ Memory => OneLiveConnection
  BY DEF IInv, Standing, Memory, OneLiveConnection
<1>4. QED
  BY <1>1, <1>2, <1>3, ConnectionInvariant, PTL DEF Spec
=============================================================================
