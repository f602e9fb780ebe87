--------------------------- MODULE AdmissionProofs ---------------------------
(***************************************************************************)
(* That an answered promotion or revocation leaves no connection it        *)
(* concerns, for any number of installations, connections and calls and    *)
(* caches of any size.                                                     *)
(***************************************************************************)
EXTENDS Admission, FiniteSetTheorems, TLAPS

\* what the store answered, it still holds
InStore ==
  \A c \in Calls :
    call[c].pc \in {"committed", "waiting", "replied"} =>
      /\ call[c].i \in Installations
      /\ call[c].kind \in {"promote", "revoke"}
      /\ call[c].version =< store[call[c].i].version
      /\ call[c].kind = "revoke" => store[call[c].i].revoked

HasLease ==
  \A u \in Upgrades :
    upgrade[u].pc \in Live \cup {"prepared"} => upgrade[u].i \in Installations

\* the caches deny what the process was told to deny
Denies ==
  \A i \in Installations :
    /\ told[i].revoked => i \in revoked.known \/ revoked.evicted
    /\ \/ told[i].version =< minimum.version[i]
       \/ minimum.version[i] = 0 /\ minimum.evicted

\* the process was told the result of the call
Told(c) ==
  IF call[c].kind = "revoke" THEN told[call[c].i].revoked
  ELSE call[c].version =< told[call[c].i].version

\* a lease on its way that a call concerns will be denied
Covered ==
  \A c \in Calls, u \in Upgrades :
    /\ call[c].pc \in {"waiting", "replied"}
    /\ upgrade[u].pc = "prepared"
    /\ Concerns(c, u)
    => Told(c)

\* a call waits for what it concerns
Waited ==
  \A c \in Calls, u \in Upgrades :
    call[c].pc = "waiting" /\ Concerns(c, u) /\ upgrade[u].pc \in Live
      => u \in call[c].waits

Gone ==
  \A c \in Calls, u \in Upgrades :
    call[c].pc = "replied" /\ Concerns(c, u) => upgrade[u].pc \notin Live

Served ==
  \A u \in Upgrades :
    upgrade[u].pc \in {"open", "active"} =>
      /\ ~told[upgrade[u].i].revoked
      /\ told[upgrade[u].i].version =< upgrade[u].version

Finite == IsFiniteSet(revoked.known) /\ IsFiniteSet(Known)

Standing == InStore /\ HasLease /\ Denies /\ Covered /\ Waited /\ Gone /\ Served

\* TypeOK but for the sizes of the caches
Shape ==
  /\ store \in [Installations -> [version : Versions, revoked : BOOLEAN]]
  /\ stopping \in BOOLEAN
  /\ revoked \in [known : SUBSET Installations, evicted : BOOLEAN]
  /\ minimum \in [version : [Installations -> Versions], evicted : BOOLEAN]
  /\ upgrade \in [Upgrades -> [pc : UpgradePhases, i : Installations \cup {None},
                               version : Versions]]
  /\ call \in [Calls -> [pc : CallPhases, kind : {None, "promote", "revoke"},
                         i : Installations \cup {None}, version : Versions,
                         waits : SUBSET Upgrades]]
  /\ told \in [Installations -> [version : Versions, revoked : BOOLEAN]]

Sized ==
  /\ Finite
  /\ Cardinality(revoked.known) =< Capacity
  /\ Cardinality(Known) =< Capacity

(***************************************************************************)
(* Shapes                                                                  *)
(***************************************************************************)
\* An upgrade that moves keeps its shape.
LEMMA AtShape ==
  ASSUME NEW r \in [pc : UpgradePhases, i : Installations \cup {None}, version : Versions],
         NEW to \in UpgradePhases
  PROVE  /\ At(r, to) \in [pc : UpgradePhases, i : Installations \cup {None},
                           version : Versions]
         /\ At(r, to).pc = to
         /\ to \notin {"closed", "refused"} => At(r, to).i = r.i /\ At(r, to).version = r.version
  BY AdmissionAssumption DEF At, NoLease, Versions, UpgradePhases

\* So do the steps of an upgrade.
LEMMA MovesShape ==
  ASSUME Shape, NEW u \in Upgrades, NEW from, NEW to \in UpgradePhases,
         Moves(u, from, to)
  PROVE  Shape'
  <1>1. upgrade[u] \in [pc : UpgradePhases, i : Installations \cup {None},
                        version : Versions]
    BY DEF Shape
  <1>2. At(upgrade[u], to) \in [pc : UpgradePhases, i : Installations \cup {None},
                                version : Versions]
    BY <1>1, AtShape
  <1> QED
    BY <1>2 DEF Moves, Shape, caches

\* The store's part of a call keeps the shapes.
LEMMA StoreShape ==
  ASSUME Shape, NEW i \in Installations, PromoteIn(i) \/ RevokeIn(i)
  PROVE  /\ store' \in [Installations -> [version : Versions, revoked : BOOLEAN]]
         /\ \A j \in Installations :
              /\ store[j].version =< store'[j].version
              /\ store[j].revoked => store'[j].revoked
  <1>1. store[i] \in [version : Versions, revoked : BOOLEAN]
    BY DEF Shape
  <1>2. CASE PromoteIn(i)
    <2>1. store[i].version + 1 \in Versions /\ store[i].version =< store[i].version + 1
      BY <1>1, <1>2, AdmissionAssumption DEF PromoteIn, Versions
    <2>2. store' = [store EXCEPT ![i] = [store[i] EXCEPT !.version = store[i].version + 1]]
      BY <1>2 DEF PromoteIn
    <2> QED
      BY <1>1, <2>1, <2>2 DEF Shape, Versions
  <1>3. CASE RevokeIn(i)
    <2>1. store' = [store EXCEPT ![i] = [store[i] EXCEPT !.revoked = TRUE]]
      BY <1>3 DEF RevokeIn
    <2>2. /\ [store[i] EXCEPT !.revoked = TRUE] \in [version : Versions, revoked : BOOLEAN]
          /\ [store[i] EXCEPT !.revoked = TRUE].version = store[i].version
          /\ [store[i] EXCEPT !.revoked = TRUE].revoked = TRUE
      BY <1>1
    <2>3. \A j \in Installations : store[j].version \in Nat
      BY AdmissionAssumption DEF Shape, Versions
    <2>4. store \in [Installations -> [version : Versions, revoked : BOOLEAN]]
      BY DEF Shape
    <2> HIDE DEF Versions
    <2> QED
      BY <2>1, <2>2, <2>3, <2>4
  <1> QED
    BY <1>2, <1>3

\* A cache that learns something keeps its shape.
LEMMA LearnShape ==
  ASSUME Shape, NEW i \in Installations, NEW version \in Versions
  PROVE  /\ LearnMinimum(i, version) =>
              minimum' \in [version : [Installations -> Versions], evicted : BOOLEAN]
         /\ LearnRevoked(i) =>
              revoked' \in [known : SUBSET Installations, evicted : BOOLEAN]
  <1>1. ASSUME LearnMinimum(i, version)
        PROVE minimum' \in [version : [Installations -> Versions], evicted : BOOLEAN]
    <2>1. \A j \in Installations :
            [minimum.version EXCEPT ![i] = version, ![j] = 0] \in [Installations -> Versions]
      BY AdmissionAssumption DEF Shape, Versions
    <2>2. [minimum.version EXCEPT ![i] = version] \in [Installations -> Versions]
      BY DEF Shape
    <2> QED
      <3>1. minimum \in [version : [Installations -> Versions], evicted : BOOLEAN]
        BY DEF Shape
      <3>2. [minimum EXCEPT !.version[i] = version]
              \in [version : [Installations -> Versions], evicted : BOOLEAN]
        BY <2>2, <3>1
      <3>3. \A j \in Installations :
              [version |-> [minimum.version EXCEPT ![i] = version, ![j] = 0], evicted |-> TRUE]
                \in [version : [Installations -> Versions], evicted : BOOLEAN]
        BY <2>1
      <3> QED
        BY <1>1, <3>1, <3>2, <3>3 DEF LearnMinimum, Known
  <1>2. ASSUME LearnRevoked(i)
        PROVE revoked' \in [known : SUBSET Installations, evicted : BOOLEAN]
    <2>1. revoked.known \subseteq Installations
      BY DEF Shape
    <2>2. \A j : (revoked.known \ {j}) \cup {i} \in SUBSET Installations
      BY <2>1
    <2>3. revoked.known \cup {i} \in SUBSET Installations
      BY <2>1
    <2> QED
      <3>1. revoked \in [known : SUBSET Installations, evicted : BOOLEAN]
        BY DEF Shape
      <3>2. [revoked EXCEPT !.known = revoked.known \cup {i}]
              \in [known : SUBSET Installations, evicted : BOOLEAN]
        BY <2>3, <3>1
      <3>3. \A j : [known |-> (revoked.known \ {j}) \cup {i}, evicted |-> TRUE]
                    \in [known : SUBSET Installations, evicted : BOOLEAN]
        BY <2>2
      <3> QED
        BY <1>2, <3>1, <3>2, <3>3 DEF LearnRevoked
  <1> QED
    BY <1>1, <1>2

\* What a process was told only grows, and holds the result it applied.
LEMMA ToldShape ==
  ASSUME Shape, NEW c \in Calls, Apply(c), call[c].i \in Installations
  PROVE  /\ told' \in [Installations -> [version : Versions, revoked : BOOLEAN]]
         /\ \A i \in Installations :
              /\ told[i].version =< told'[i].version
              /\ told[i].revoked => told'[i].revoked
              /\ i # call[c].i => told'[i] = told[i]
         /\ call[c].kind = "promote" =>
              /\ call[c].version =< told'[call[c].i].version
              /\ told'[call[c].i].version \in {told[call[c].i].version, call[c].version}
              /\ told'[call[c].i].revoked = told[call[c].i].revoked
         /\ call[c].kind = "revoke" =>
              /\ told'[call[c].i].revoked
              /\ told'[call[c].i].version = told[call[c].i].version
  <1> DEFINE i == call[c].i  r == told[i]  v == call[c].version
  <1>1. /\ told \in [Installations -> [version : Versions, revoked : BOOLEAN]]
        /\ r \in [version : Versions, revoked : BOOLEAN]
        /\ v \in Versions
    BY DEF Shape
  <1>2. \A n \in Versions : n \in Nat
    BY AdmissionAssumption DEF Versions
  <1>3. \A j \in Installations : told[j].version \in Nat
    BY <1>1, <1>2
  <1>4. CASE call[c].kind = "promote"
    <2> DEFINE t == [r EXCEPT !.version = IF v > r.version THEN v ELSE r.version]
    <2>1. told' = [told EXCEPT ![i] = t]
      BY <1>4 DEF Apply
    <2>2. /\ t \in [version : Versions, revoked : BOOLEAN]
          /\ t.version = IF v > r.version THEN v ELSE r.version
          /\ t.revoked = r.revoked
      BY <1>1
    <2>3. v =< t.version /\ r.version =< t.version /\ t.version \in {r.version, v}
      BY <1>1, <1>2, <2>2
    <2> HIDE DEF t
    <2> QED
      BY <1>1, <1>3, <1>4, <2>1, <2>2, <2>3
  <1>5. CASE call[c].kind = "revoke"
    <2> DEFINE t == [r EXCEPT !.revoked = TRUE]
    <2>1. told' = [told EXCEPT ![i] = t]
      BY <1>5 DEF Apply
    <2>2. /\ t \in [version : Versions, revoked : BOOLEAN]
          /\ t.version = r.version /\ t.revoked
      BY <1>1
    <2> HIDE DEF t
    <2> QED
      BY <1>1, <1>3, <1>5, <2>1, <2>2
  <1> QED
    BY <1>4, <1>5 DEF Apply

\* Every step keeps the shapes of the state.
LEMMA ShapeStep == Shape /\ InStore /\ [Next]_vars => Shape'
  <1> SUFFICES ASSUME Shape, InStore, [Next]_vars PROVE Shape'
    OBVIOUS
  <1>1. ASSUME NEW u \in Upgrades, UpgradeStep(u) PROVE Shape'
    <2>1. ASSUME NEW i \in Installations, Prepare(u, i) PROVE Shape'
      BY <2>1 DEF Prepare, Shape, UpgradePhases, caches
    <2> QED
      BY <1>1, <2>1, MovesShape
        DEF UpgradeStep, Open, Refuse, Activate, StoreFails, Heartbeat, SocketCloses,
            UpgradePhases
  <1>2. ASSUME NEW c \in Calls, NEW i \in Installations,
               PromoteCredential(c, i) \/ RevokeInstallation(c, i)
        PROVE Shape'
    <2>1. store' \in [Installations -> [version : Versions, revoked : BOOLEAN]]
      BY <1>2, StoreShape DEF PromoteCredential, RevokeInstallation
    <2>2. call' \in [Calls -> [pc : CallPhases, kind : {None, "promote", "revoke"},
                              i : Installations \cup {None}, version : Versions,
                              waits : SUBSET Upgrades]]
      BY <1>2, <2>1 DEF PromoteCredential, RevokeInstallation, Commits, Shape, CallPhases
    <2> QED
      BY <1>2, <2>1, <2>2 DEF PromoteCredential, RevokeInstallation, Shape, caches
  <1>3. ASSUME NEW c \in Calls, Apply(c) PROVE Shape'
    <2>1. call[c].i \in Installations /\ call[c].version \in Versions
      BY <1>3 DEF Apply, InStore, Shape
    <2>2. /\ minimum' \in [version : [Installations -> Versions], evicted : BOOLEAN]
          /\ revoked' \in [known : SUBSET Installations, evicted : BOOLEAN]
      BY <1>3, <2>1, LearnShape DEF Apply, Shape
    <2>3. told' \in [Installations -> [version : Versions, revoked : BOOLEAN]]
      BY <1>3, <2>1, ToldShape
    <2>4. upgrade' \in [Upgrades -> [pc : UpgradePhases, i : Installations \cup {None},
                                    version : Versions]]
      BY <1>3, AtShape DEF Apply, Shape, UpgradePhases
    <2>5. call' \in [Calls -> [pc : CallPhases, kind : {None, "promote", "revoke"},
                              i : Installations \cup {None}, version : Versions,
                              waits : SUBSET Upgrades]]
      <3>1. call[c] \in [pc : CallPhases, kind : {None, "promote", "revoke"},
                         i : Installations \cup {None}, version : Versions,
                         waits : SUBSET Upgrades]
        BY DEF Shape
      <3>2. [call[c] EXCEPT !.pc = "waiting", !.waits = Affected(c)]
              \in [pc : CallPhases, kind : {None, "promote", "revoke"},
                   i : Installations \cup {None}, version : Versions,
                   waits : SUBSET Upgrades]
        BY <3>1 DEF CallPhases, Affected
      <3>3. call' = [call EXCEPT ![c] = [call[c] EXCEPT !.pc = "waiting",
                                                        !.waits = Affected(c)]]
        BY <1>3 DEF Apply
      <3> QED
        BY <3>2, <3>3 DEF Shape
    <2> QED
      BY <1>3, <2>2, <2>3, <2>4, <2>5 DEF Apply, Shape
  <1>4. ASSUME NEW c \in Calls, Reply(c) PROVE Shape'
    <2>1. upgrade' \in [Upgrades -> [pc : UpgradePhases, i : Installations \cup {None},
                                    version : Versions]]
      BY <1>4, AtShape DEF Reply, Shape, UpgradePhases
    <2>2. call' \in [Calls -> [pc : CallPhases, kind : {None, "promote", "revoke"},
                              i : Installations \cup {None}, version : Versions,
                              waits : SUBSET Upgrades]]
      <3>1. call[c] \in [pc : CallPhases, kind : {None, "promote", "revoke"},
                         i : Installations \cup {None}, version : Versions,
                         waits : SUBSET Upgrades]
        BY DEF Shape
      <3>2. [call[c] EXCEPT !.pc = "replied", !.waits = {}]
              \in [pc : CallPhases, kind : {None, "promote", "revoke"},
                   i : Installations \cup {None}, version : Versions,
                   waits : SUBSET Upgrades]
        BY <3>1 DEF CallPhases
      <3>3. call' = [call EXCEPT ![c] = [call[c] EXCEPT !.pc = "replied", !.waits = {}]]
        BY <1>4 DEF Reply
      <3> QED
        BY <3>2, <3>3 DEF Shape
    <2> QED
      BY <1>4, <2>1, <2>2 DEF Reply, Shape, caches
  <1>5. ASSUME NEW i \in Installations, Elsewhere(i) PROVE Shape'
    BY <1>5, StoreShape DEF Elsewhere, Shape, caches
  <1>6. CASE Stop
    <2>1. upgrade' \in [Upgrades -> [pc : UpgradePhases, i : Installations \cup {None},
                                    version : Versions]]
      BY <1>6, AtShape DEF Stop, Shape, UpgradePhases
    <2> QED
      BY <1>6, <2>1 DEF Stop, Shape, caches
  <1>7. CASE Restart
    <2>1. upgrade' \in [Upgrades -> [pc : UpgradePhases, i : Installations \cup {None},
                                    version : Versions]]
      BY <1>7, AtShape DEF Restart, Shape, UpgradePhases
    <2>2. call' \in [Calls -> [pc : CallPhases, kind : {None, "promote", "revoke"},
                              i : Installations \cup {None}, version : Versions,
                              waits : SUBSET Upgrades]]
      <3>1. [NoCall EXCEPT !.pc = "lost"]
              \in [pc : CallPhases, kind : {None, "promote", "revoke"},
                   i : Installations \cup {None}, version : Versions,
                   waits : SUBSET Upgrades]
        BY AdmissionAssumption DEF NoCall, CallPhases, Versions
      <3> QED
        BY <1>7, <3>1 DEF Restart, Shape
    <2>3. /\ NothingRevoked \in [known : SUBSET Installations, evicted : BOOLEAN]
          /\ NoMinimum \in [version : [Installations -> Versions], evicted : BOOLEAN]
          /\ NoNews \in [Installations -> [version : Versions, revoked : BOOLEAN]]
      BY AdmissionAssumption DEF NothingRevoked, NoMinimum, NoNews, Versions
    <2> QED
      BY <1>7, <2>1, <2>2, <2>3 DEF Restart, Shape
  <1>8. CASE UNCHANGED vars
    BY <1>8 DEF vars, caches, Shape
  <1> QED
    BY <1>1, <1>2, <1>3, <1>4, <1>5, <1>6, <1>7, <1>8 DEF Next, CallStep

(***************************************************************************)
(* The caches keep to their capacity                                       *)
(***************************************************************************)
\* One entry more, or one for another, in a set of bounded size.
LEMMA BoundedInsert ==
  ASSUME NEW S, IsFiniteSet(S), Cardinality(S) =< Capacity, NEW i
  PROVE  /\ Cardinality(S) < Capacity =>
              IsFiniteSet(S \cup {i}) /\ Cardinality(S \cup {i}) =< Capacity
         /\ \A j \in S : /\ IsFiniteSet((S \ {j}) \cup {i})
                         /\ Cardinality((S \ {j}) \cup {i}) =< Capacity
  <1>1. Cardinality(S) \in Nat /\ Capacity \in Nat
    BY FS_CardinalityType, AdmissionAssumption
  <1>2. /\ IsFiniteSet(S \cup {i})
        /\ Cardinality(S \cup {i}) =< Cardinality(S) + 1
    BY <1>1, FS_AddElement
  <1>3. ASSUME NEW j \in S
        PROVE  /\ IsFiniteSet((S \ {j}) \cup {i})
               /\ Cardinality((S \ {j}) \cup {i}) =< Capacity
    <2>1. /\ IsFiniteSet(S \ {j})
          /\ Cardinality(S \ {j}) = Cardinality(S) - 1
      BY FS_RemoveElement
    <2> DEFINE R == S \ {j}
    <2>4. Cardinality(R) \in Nat
      BY <2>1, FS_CardinalityType
    <2>5. IsFiniteSet(R)
      BY <2>1
    <2> HIDE DEF R
    <2>6. /\ IsFiniteSet(R \cup {i})
          /\ Cardinality(R \cup {i}) =< Cardinality(R) + 1
      <3>1. /\ IsFiniteSet(R \cup {i})
            /\ Cardinality(R \cup {i}) = (IF i \in R THEN Cardinality(R)
                                          ELSE Cardinality(R) + 1)
        BY <2>5, FS_AddElement
      <3> QED
        BY <2>4, <3>1
    <2>2. /\ IsFiniteSet((S \ {j}) \cup {i})
          /\ Cardinality((S \ {j}) \cup {i}) =< Cardinality(S \ {j}) + 1
      BY <2>6 DEF R
    <2>3. Cardinality((S \ {j}) \cup {i}) \in Nat
      BY <2>2, FS_CardinalityType
    <2> QED
      BY <1>1, <2>1, <2>2, <2>3
  <1>4. Cardinality(S \cup {i}) \in Nat
    BY <1>2, FS_CardinalityType
  <1> QED
    BY <1>1, <1>2, <1>3, <1>4

\* The caches are bounded, whatever they learn.
LEMMA SizedStep == Shape /\ InStore /\ Sized /\ [Next]_vars => Sized'
  <1> SUFFICES ASSUME Shape, InStore, Sized, [Next]_vars PROVE Sized'
    OBVIOUS
  <1>1. CASE UNCHANGED caches
    BY <1>1 DEF caches, Sized, Finite, Known
  <1>2. ASSUME NEW c \in Calls, Apply(c) PROVE Sized'
    <2> DEFINE i == call[c].i  v == call[c].version
    <2>1. i \in Installations /\ v \in Versions
      BY <1>2 DEF Apply, InStore, Shape
    <2>2. ASSUME LearnRevoked(i)
          PROVE IsFiniteSet(revoked'.known) /\ Cardinality(revoked'.known) =< Capacity
      <3>1. revoked \in [known : SUBSET Installations, evicted : BOOLEAN]
        BY DEF Shape
      <3>2. \/ revoked' = revoked
            \/ /\ Cardinality(revoked.known) < Capacity
               /\ revoked'.known = revoked.known \cup {i}
            \/ \E j \in revoked.known : revoked'.known = (revoked.known \ {j}) \cup {i}
        BY <2>2, <3>1 DEF LearnRevoked
      <3>3. /\ IsFiniteSet(revoked.known)
            /\ Cardinality(revoked.known) =< Capacity
        BY DEF Sized, Finite
      <3>4. /\ Cardinality(revoked.known) < Capacity =>
                 /\ IsFiniteSet(revoked.known \cup {i})
                 /\ Cardinality(revoked.known \cup {i}) =< Capacity
            /\ \A j \in revoked.known :
                 /\ IsFiniteSet((revoked.known \ {j}) \cup {i})
                 /\ Cardinality((revoked.known \ {j}) \cup {i}) =< Capacity
        BY <3>3, BoundedInsert
      <3> HIDE DEF i
      <3> QED
        BY <3>2, <3>3, <3>4
    <2>3. ASSUME LearnMinimum(i, v)
          PROVE IsFiniteSet(Known') /\ Cardinality(Known') =< Capacity
      <3>1. /\ minimum \in [version : [Installations -> Versions], evicted : BOOLEAN]
            /\ 0 \in Versions /\ \A n \in Versions : n \in Nat
        BY AdmissionAssumption DEF Shape, Versions
      <3>2. CASE UNCHANGED minimum
        BY <3>2 DEF Known, Sized, Finite
      <3>3. CASE /\ v > minimum.version[i]
                 /\ i \in Known \/ Cardinality(Known) < Capacity
                 /\ minimum' = [minimum EXCEPT !.version[i] = v]
        <4>1. minimum'.version = [minimum.version EXCEPT ![i] = v]
          BY <3>1, <3>3
        <4>2. Known' = Known \cup {i}
          BY <2>1, <3>1, <3>3, <4>1 DEF Known
        <4>3. i \in Known => Known' = Known
          BY <4>2
        <4> QED
          BY <3>3, <4>2, <4>3, BoundedInsert DEF Sized, Finite
      <3>4. CASE /\ v > minimum.version[i] /\ i \notin Known
                 /\ \E j \in Known :
                      minimum' = [version |-> [minimum.version EXCEPT ![i] = v, ![j] = 0],
                                  evicted |-> TRUE]
        <4>1. PICK j \in Known :
                minimum' = [version |-> [minimum.version EXCEPT ![i] = v, ![j] = 0],
                            evicted |-> TRUE]
          BY <3>4
        <4>2. minimum'.version = [minimum.version EXCEPT ![i] = v, ![j] = 0]
          BY <4>1
        <4>3. Known' = (Known \ {j}) \cup {i}
          BY <2>1, <3>1, <3>4, <4>2 DEF Known
        <4> QED
          BY <4>3, BoundedInsert DEF Sized, Finite
      <3> QED
        BY <2>3, <3>2, <3>3, <3>4 DEF LearnMinimum
    <2> QED
      BY <1>2, <2>2, <2>3 DEF Apply, Sized, Finite, Known
  <1>3. CASE Restart
    <2>1. revoked'.known = {} /\ Known' = {}
      BY <1>3 DEF Restart, NothingRevoked, NoMinimum, Known
    <2> QED
      BY <2>1, FS_EmptySet, AdmissionAssumption DEF Sized, Finite
  <1> QED
    BY <1>1, <1>2, <1>3
      DEF Next, UpgradeStep, CallStep, Prepare, Open, Refuse, Activate, StoreFails, Heartbeat,
          SocketCloses, Moves, PromoteCredential, RevokeInstallation, Reply, Elsewhere, Stop,
          vars, caches

(***************************************************************************)
(* Standing                                                                *)
(***************************************************************************)
\* Connections that move on or end disturb nothing.
LEMMA Fewer ==
  ASSUME Standing, UNCHANGED <<store, caches, call, told>>,
         \A w \in Upgrades :
           /\ upgrade'[w].pc = "prepared" => upgrade'[w] = upgrade[w]
           /\ upgrade'[w].pc \in Live =>
                /\ upgrade[w].pc \in Live
                /\ upgrade'[w].i = upgrade[w].i /\ upgrade'[w].version = upgrade[w].version
           /\ upgrade'[w].pc \in {"open", "active"} => upgrade[w].pc \in {"open", "active"}
  PROVE  Standing'
  <1>1. InStore' /\ Denies'
    BY DEF Standing, InStore, Denies, caches
  <1>2. HasLease'
    BY DEF Standing, HasLease
  <1>3. Covered'
    BY DEF Standing, Covered, Concerns, Told
  <1>4. Waited' /\ Gone'
    BY DEF Standing, Waited, Gone, Concerns
  <1>5. Served'
    BY DEF Standing, Served, Live
  <1> QED
    BY <1>1, <1>2, <1>3, <1>4, <1>5 DEF Standing

\* So does one connection.
LEMMA MovesStanding ==
  ASSUME Shape, Standing, NEW u \in Upgrades, NEW from, NEW to,
         Moves(u, from, to),
         \/ to \in {"closed", "refused"}
         \/ to = "closing" /\ from \subseteq Live
         \/ to = "active" /\ from = {"open"}
  PROVE  Standing'
  <1>1. /\ \A w \in Upgrades : w # u => upgrade'[w] = upgrade[w]
        /\ upgrade'[u] = At(upgrade[u], to)
        /\ upgrade[u].pc \in from
        /\ UNCHANGED <<store, caches, call, told>>
    BY DEF Moves, Shape
  <1>2. upgrade'[u].pc = to
    BY <1>1, AtShape DEF Shape, Live, UpgradePhases
  <1>3. to \in Live => /\ upgrade[u].pc \in Live
                       /\ upgrade'[u].i = upgrade[u].i
                       /\ upgrade'[u].version = upgrade[u].version
    BY <1>1, AtShape DEF Shape, Live, UpgradePhases
  <1>4. to = "active" => upgrade[u].pc = "open"
    BY <1>1
  <1>5. \A w \in Upgrades :
          /\ upgrade'[w].pc = "prepared" => upgrade'[w] = upgrade[w]
          /\ upgrade'[w].pc \in Live =>
               /\ upgrade[w].pc \in Live
               /\ upgrade'[w].i = upgrade[w].i /\ upgrade'[w].version = upgrade[w].version
          /\ upgrade'[w].pc \in {"open", "active"} => upgrade[w].pc \in {"open", "active"}
    BY <1>1, <1>2, <1>3, <1>4 DEF Live
  <1> QED
    BY <1>1, <1>5, Fewer

\* A connection opened past the caches is not one the process was told to
\* close.
LEMMA OpenStanding ==
  ASSUME Shape, Standing, NEW u \in Upgrades, Open(u)
  PROVE  Standing'
  <1>1. /\ \A w \in Upgrades : w # u => upgrade'[w] = upgrade[w]
        /\ upgrade[u].pc = "prepared" /\ upgrade'[u].pc = "open"
        /\ upgrade'[u].i = upgrade[u].i /\ upgrade'[u].version = upgrade[u].version
        /\ UNCHANGED <<store, caches, call, told>>
    BY AtShape DEF Open, Moves, Shape, UpgradePhases
  <1>2. /\ upgrade[u].i \in Installations
        /\ upgrade[u].version \in Nat
        /\ told[upgrade[u].i].version \in Nat
        /\ minimum.version[upgrade[u].i] \in Nat
    <2>1. upgrade[u].i \in Installations
      BY <1>1 DEF Standing, HasLease
    <2> QED
      BY <2>1, AdmissionAssumption DEF Shape, Versions
  <1>3. /\ ~told[upgrade[u].i].revoked
        /\ told[upgrade[u].i].version =< upgrade[u].version
    BY <1>2 DEF Open, Allowed, Standing, Denies
  <1>4. \A c \in Calls :
          call[c].pc \in {"waiting", "replied"} /\ call[c].i = upgrade[u].i =>
            ~Concerns(c, u)
    <2> SUFFICES ASSUME NEW c \in Calls, call[c].pc \in {"waiting", "replied"},
                        call[c].i = upgrade[u].i, Concerns(c, u)
                 PROVE  FALSE
      OBVIOUS
    <2>1. Told(c) /\ call[c].kind \in {"promote", "revoke"}
      BY <1>1 DEF Standing, Covered, InStore
    <2>2. call[c].version \in Nat
      BY AdmissionAssumption DEF Shape, Versions
    <2> QED
      BY <1>2, <1>3, <2>1, <2>2 DEF Told, Concerns
  <1>5. InStore' /\ Denies' /\ HasLease'
    BY <1>1 DEF Standing, InStore, Denies, HasLease, caches, Live
  <1>6. Covered'
    BY <1>1 DEF Standing, Covered, Concerns, Told
  <1>7. Waited' /\ Gone'
    BY <1>1, <1>4 DEF Standing, Waited, Gone, Concerns
  <1>8. Served'
    BY <1>1, <1>3 DEF Standing, Served
  <1> QED
    BY <1>5, <1>6, <1>7, <1>8 DEF Standing

\* The store gives no lease that a call it answered concerns.
LEMMA PrepareStanding ==
  ASSUME Shape, Standing, NEW u \in Upgrades, NEW i \in Installations, Prepare(u, i)
  PROVE  Standing'
  <1>1. /\ \A w \in Upgrades : w # u => upgrade'[w] = upgrade[w]
        /\ upgrade'[u] = [pc |-> "prepared", i |-> i, version |-> store[i].version]
        /\ UNCHANGED <<store, caches, call, told>>
        /\ ~store[i].revoked
    BY DEF Prepare, Shape
  <1>2. \A c \in Calls : call[c].version \in Nat /\ store[i].version \in Nat
    BY AdmissionAssumption DEF Shape, Versions
  <1>3. InStore' /\ Denies' /\ HasLease'
    BY <1>1 DEF Standing, InStore, Denies, HasLease, caches
  <1>4. Covered'
    BY <1>1, <1>2 DEF Standing, Covered, InStore, Concerns, Told
  <1>5. Waited' /\ Gone' /\ Served'
    BY <1>1 DEF Standing, Waited, Gone, Served, Concerns, Live
  <1> QED
    BY <1>3, <1>4, <1>5 DEF Standing

\* A change in the store that the process has not heard of.
LEMMA StoreStanding ==
  ASSUME Shape, Standing, NEW i \in Installations, PromoteIn(i) \/ RevokeIn(i),
         UNCHANGED <<caches, upgrade, told>>,
         \/ UNCHANGED call
         \/ \E c \in Calls, kind \in {"promote", "revoke"} :
              /\ Commits(c, kind, i)
              /\ kind = "revoke" => RevokeIn(i)
  PROVE  Standing'
  <1>1. /\ store' \in [Installations -> [version : Versions, revoked : BOOLEAN]]
        /\ \A j \in Installations :
             /\ store[j].version =< store'[j].version
             /\ store[j].revoked => store'[j].revoked
    BY StoreShape
  <1>2. /\ \A n \in Versions : n \in Nat
        /\ \A j \in Installations : store[j].version \in Nat /\ store'[j].version \in Nat
    BY <1>1, AdmissionAssumption DEF Shape, Versions
  <1>3. RevokeIn(i) => store'[i].revoked
    BY DEF RevokeIn, Shape
  <1>4. \A c \in Calls :
          \/ call'[c] = call[c]
          \/ /\ call'[c].pc = "committed" /\ call'[c].i = i
             /\ call'[c].kind \in {"promote", "revoke"}
             /\ call'[c].version = store'[i].version
             /\ call'[c].kind = "revoke" => store'[i].revoked
    BY <1>3 DEF Commits, Shape
  <1>5. \A c \in Calls : call[c].version \in Nat
    BY <1>2 DEF Shape
  <1>6. InStore'
    BY <1>1, <1>2, <1>4, <1>5 DEF Standing, InStore
  <1>7. HasLease' /\ Denies' /\ Served'
    BY DEF Standing, HasLease, Denies, Served, caches
  <1>8. Covered' /\ Waited' /\ Gone'
    BY <1>4 DEF Standing, Covered, Waited, Gone, Concerns, Told
  <1> QED
    BY <1>6, <1>7, <1>8 DEF Standing

\* What a cache has learnt: it denies what it denied, and what it was told.
LEMMA LearnDenies ==
  ASSUME Shape, NEW i \in Installations, NEW v \in Versions
  PROVE  /\ LearnRevoked(i) =>
              /\ i \in revoked'.known
              /\ \A j \in Installations : j \in revoked.known \/ revoked.evicted =>
                                          j \in revoked'.known \/ revoked'.evicted
         /\ LearnMinimum(i, v) =>
              /\ v =< minimum'.version[i] \/ (minimum'.version[i] = 0 /\ minimum'.evicted)
              /\ \A j \in Installations :
                   \/ minimum.version[j] =< minimum'.version[j]
                   \/ minimum'.version[j] = 0 /\ minimum'.evicted
              /\ minimum.evicted => minimum'.evicted
  <1>1. /\ minimum \in [version : [Installations -> Versions], evicted : BOOLEAN]
        /\ revoked \in [known : SUBSET Installations, evicted : BOOLEAN]
        /\ 0 \in Versions /\ \A n \in Versions : n \in Nat
    BY AdmissionAssumption DEF Shape, Versions
  <1>2. ASSUME LearnRevoked(i)
        PROVE  /\ i \in revoked'.known
               /\ \A j \in Installations : j \in revoked.known \/ revoked.evicted =>
                                           j \in revoked'.known \/ revoked'.evicted
    BY <1>1, <1>2 DEF LearnRevoked
  <1>3. ASSUME LearnMinimum(i, v)
        PROVE  /\ v =< minimum'.version[i] \/ (minimum'.version[i] = 0 /\ minimum'.evicted)
               /\ \A j \in Installations :
                    \/ minimum.version[j] =< minimum'.version[j]
                    \/ minimum'.version[j] = 0 /\ minimum'.evicted
               /\ minimum.evicted => minimum'.evicted
    <2>1. CASE UNCHANGED minimum
      BY <1>1, <1>3, <2>1 DEF LearnMinimum
    <2>2. CASE v > minimum.version[i] /\ minimum' = [minimum EXCEPT !.version[i] = v]
      <3>1. /\ minimum'.version = [minimum.version EXCEPT ![i] = v]
            /\ minimum'.evicted = minimum.evicted
        BY <1>1, <2>2
      <3> QED
        BY <1>1, <2>2, <3>1
    <2>3. CASE /\ v > minimum.version[i] /\ i \notin Known
               /\ \E j \in Known :
                    minimum' = [version |-> [minimum.version EXCEPT ![i] = v, ![j] = 0],
                                evicted |-> TRUE]
      <3>1. PICK j \in Known :
              minimum' = [version |-> [minimum.version EXCEPT ![i] = v, ![j] = 0],
                          evicted |-> TRUE]
        BY <2>3
      <3>2. /\ minimum'.version = [minimum.version EXCEPT ![i] = v, ![j] = 0]
            /\ minimum'.evicted = TRUE
        BY <3>1
      <3>3. j # i /\ j \in Installations
        BY <2>3 DEF Known
      <3> QED
        BY <1>1, <2>3, <3>2, <3>3
    <2> QED
      BY <1>3, <2>1, <2>2, <2>3 DEF LearnMinimum
  <1> QED
    BY <1>2, <1>3

\* An entry that was forgotten is not learnt again.
LEMMA UnknownStays ==
  ASSUME Shape, NEW i \in Installations, NEW v \in Versions, LearnMinimum(i, v),
         NEW j \in Installations, minimum.version[j] = 0, minimum.evicted
  PROVE  minimum'.version[j] = 0 /\ minimum'.evicted
  <1>1. /\ minimum \in [version : [Installations -> Versions], evicted : BOOLEAN]
        /\ \A n \in Versions : n \in Nat
    BY AdmissionAssumption DEF Shape, Versions
  <1>2. CASE UNCHANGED minimum
    BY <1>2
  <1>3. CASE i \in Known /\ minimum' = [minimum EXCEPT !.version[i] = v]
    <2>1. i # j
      BY <1>3 DEF Known
    <2> QED
      BY <1>1, <1>3, <2>1
  <1> QED
    BY <1>1, <1>2, <1>3 DEF LearnMinimum

\* The result of a call closes what it concerns.
LEMMA ApplyStanding ==
  ASSUME Shape, Standing, NEW c \in Calls, Apply(c)
  PROVE  Standing'
  <1> DEFINE i == call[c].i  v == call[c].version
  <1>1. /\ i \in Installations /\ v \in Versions
        /\ call[c].kind \in {"promote", "revoke"}
        /\ \A n \in Versions : n \in Nat
        /\ UNCHANGED <<store, stopping>>
    BY AdmissionAssumption DEF Apply, Standing, InStore, Shape, Versions
  <1>2. /\ \A j \in Installations :
             /\ told[j].version =< told'[j].version
             /\ told[j].revoked => told'[j].revoked
             /\ j # i => told'[j] = told[j]
        /\ call[c].kind = "promote" =>
             /\ v =< told'[i].version
             /\ told'[i].version \in {told[i].version, v}
             /\ told'[i].revoked = told[i].revoked
        /\ call[c].kind = "revoke" =>
             /\ told'[i].revoked
             /\ told'[i].version = told[i].version
        /\ \A j \in Installations : told[j].version \in Nat /\ told'[j].version \in Nat
    <2>1. told' \in [Installations -> [version : Versions, revoked : BOOLEAN]]
      BY <1>1, ToldShape
    <2>2. \A j \in Installations : told[j].version \in Nat /\ told'[j].version \in Nat
      BY <1>1, <2>1 DEF Shape
    <2> QED
      BY <1>1, <2>2, ToldShape
  <1>3. /\ \A d \in Calls : d # c => call'[d] = call[d]
        /\ call'[c].pc = "waiting" /\ call'[c].waits = Affected(c)
        /\ call'[c].kind = call[c].kind /\ call'[c].i = i /\ call'[c].version = v
        /\ call[c].pc = "committed"
    BY DEF Apply, Shape
  <1>4. \A w \in Upgrades :
          \/ w \notin Affected(c) /\ upgrade'[w] = upgrade[w]
          \/ /\ w \in Affected(c) /\ upgrade'[w].pc = "closing"
             /\ upgrade'[w].i = upgrade[w].i /\ upgrade'[w].version = upgrade[w].version
    BY AtShape DEF Apply, Shape, UpgradePhases
  <1>5. \A w \in Affected(c) : upgrade[w].pc \in Live
    BY DEF Affected, Live
  <1>6. \A w \in Upgrades :
          /\ upgrade'[w].i = upgrade[w].i /\ upgrade'[w].version = upgrade[w].version
          /\ upgrade'[w].pc \in Live <=> upgrade[w].pc \in Live
          /\ upgrade'[w].pc = "prepared" => upgrade[w].pc = "prepared"
          /\ upgrade'[w].pc \in {"open", "active"} =>
               upgrade[w].pc \in {"open", "active"} /\ w \notin Affected(c)
    BY <1>4, <1>5 DEF Live
  <1>7. \A d \in Calls, w \in Upgrades : Concerns(d, w)' <=> Concerns(d, w)
    BY <1>3, <1>6 DEF Concerns
  <1>8. InStore'
    BY <1>1, <1>3 DEF Standing, InStore
  <1>9. HasLease'
    BY <1>6 DEF Standing, HasLease
  <1>10. Denies'
    <2>1. CASE call[c].kind = "promote"
      <3>1. LearnMinimum(i, v) /\ UNCHANGED revoked
        BY <2>1 DEF Apply
      <3>2. /\ v =< minimum'.version[i] \/ (minimum'.version[i] = 0 /\ minimum'.evicted)
            /\ \A j \in Installations :
                 \/ minimum.version[j] =< minimum'.version[j]
                 \/ minimum'.version[j] = 0 /\ minimum'.evicted
            /\ minimum.evicted => minimum'.evicted
        BY <1>1, <3>1, LearnDenies
      <3>3. minimum' \in [version : [Installations -> Versions], evicted : BOOLEAN]
        BY <1>1, <3>1, LearnShape
      <3>4. \A j \in Installations : /\ minimum.version[j] \in Nat
                                      /\ minimum'.version[j] \in Nat
        BY <1>1, <3>3 DEF Shape
      <3>5. \A j \in Installations :
              \/ told'[j].version =< minimum'.version[j]
              \/ minimum'.version[j] = 0 /\ minimum'.evicted
        <4> SUFFICES ASSUME NEW j \in Installations,
                            ~(minimum'.version[j] = 0 /\ minimum'.evicted)
                     PROVE  told'[j].version =< minimum'.version[j]
          OBVIOUS
        <4>1. minimum.version[j] =< minimum'.version[j]
          BY <3>2
        <4>2. \/ told[j].version =< minimum.version[j]
              \/ minimum.version[j] = 0 /\ minimum.evicted
          BY DEF Standing, Denies
        <4>3. told[j].version =< minimum'.version[j]
          BY <1>1, <1>2, <3>1, <3>2, <3>4, <4>1, <4>2, UnknownStays
        <4> QED
          BY <1>1, <1>2, <2>1, <3>2, <4>3
      <3> QED
        BY <1>2, <2>1, <3>1, <3>5 DEF Standing, Denies
    <2>2. CASE call[c].kind = "revoke"
      <3>1. LearnRevoked(i) /\ UNCHANGED minimum
        BY <2>2 DEF Apply
      <3>2. /\ i \in revoked'.known
            /\ \A j \in Installations : j \in revoked.known \/ revoked.evicted =>
                                        j \in revoked'.known \/ revoked'.evicted
        BY <1>1, <3>1, LearnDenies
      <3> QED
        BY <1>1, <1>2, <2>2, <3>1, <3>2 DEF Standing, Denies
    <2> QED
      BY <1>1, <2>1, <2>2
  <1>11. Covered'
    <2> SUFFICES ASSUME NEW d \in Calls, NEW w \in Upgrades,
                        call'[d].pc \in {"waiting", "replied"},
                        upgrade'[w].pc = "prepared", Concerns(d, w)'
                 PROVE  Told(d)'
      BY DEF Covered
    <2>1. CASE d = c
      BY <1>1, <1>2, <1>3, <2>1 DEF Told
    <2>2. CASE d # c
      <3>1. /\ call'[d] = call[d] /\ Concerns(d, w) /\ upgrade[w].pc = "prepared"
            /\ call[d].pc \in {"waiting", "replied"}
        BY <1>3, <1>6, <1>7, <2>2
      <3>2. Told(d) /\ call[d].i \in Installations /\ call[d].version \in Nat
        BY <1>1, <3>1 DEF Standing, Covered, InStore, Shape
      <3> QED
        BY <1>2, <3>1, <3>2 DEF Told
    <2> QED
      BY <2>1, <2>2
  <1>12. Waited'
    <2> SUFFICES ASSUME NEW d \in Calls, NEW w \in Upgrades, call'[d].pc = "waiting",
                        Concerns(d, w)', upgrade'[w].pc \in Live
                 PROVE  w \in call'[d].waits
      BY DEF Waited
    <2>1. CASE d = c
      BY <1>3, <1>6, <1>7, <2>1 DEF Affected, Live
    <2>2. CASE d # c
      BY <1>3, <1>6, <1>7, <2>2 DEF Standing, Waited
    <2> QED
      BY <2>1, <2>2
  <1>13. Gone'
    BY <1>3, <1>6, <1>7 DEF Standing, Gone
  <1>14. Served'
    <2> SUFFICES ASSUME NEW w \in Upgrades, upgrade'[w].pc \in {"open", "active"}
                 PROVE  /\ ~told'[upgrade'[w].i].revoked
                        /\ told'[upgrade'[w].i].version =< upgrade'[w].version
      BY DEF Served
    <2>1. /\ upgrade[w].pc \in {"open", "active"} /\ ~Concerns(c, w)
          /\ upgrade'[w].i = upgrade[w].i /\ upgrade'[w].version = upgrade[w].version
          /\ upgrade[w].i \in Installations /\ upgrade[w].version \in Nat
          /\ ~told[upgrade[w].i].revoked
          /\ told[upgrade[w].i].version =< upgrade[w].version
      BY <1>1, <1>6 DEF Affected, Standing, Served, HasLease, Live, Shape
    <2>2. CASE upgrade[w].i # i
      BY <1>2, <2>1, <2>2
    <2>3. CASE upgrade[w].i = i
      <3>1. call[c].kind = "promote" /\ v =< upgrade[w].version
        BY <1>1, <2>1, <2>3 DEF Concerns
      <3> QED
        BY <1>2, <2>1, <2>3, <3>1
    <2> QED
      BY <2>2, <2>3
  <1> QED
    BY <1>8, <1>9, <1>10, <1>11, <1>12, <1>13, <1>14 DEF Standing

\* An answer comes when what the call waited for is gone.
LEMMA ReplyStanding ==
  ASSUME Shape, Standing, NEW c \in Calls, Reply(c)
  PROVE  Standing'
  <1>1. /\ \A d \in Calls : d # c => call'[d] = call[d]
        /\ call[c].pc = "waiting" /\ call'[c].pc = "replied"
        /\ call'[c].kind = call[c].kind /\ call'[c].i = call[c].i
        /\ call'[c].version = call[c].version
        /\ UNCHANGED <<store, caches, told>>
    BY DEF Reply, Shape
  <1>2. \A w \in Upgrades :
          \/ w \notin call[c].waits /\ upgrade'[w] = upgrade[w]
          \/ w \in call[c].waits /\ upgrade'[w].pc = "closed"
    BY AtShape DEF Reply, Shape, UpgradePhases
  <1>3. \A w \in Upgrades :
          upgrade'[w].pc \in Live \cup {"prepared"} =>
            upgrade'[w] = upgrade[w] /\ w \notin call[c].waits
    BY <1>2 DEF Live
  <1>4. \A d \in Calls, w \in Upgrades :
          upgrade'[w] = upgrade[w] => (Concerns(d, w)' <=> Concerns(d, w))
    BY <1>1 DEF Concerns
  <1>5. InStore' /\ Denies'
    BY <1>1 DEF Standing, InStore, Denies, caches
  <1>6. HasLease' /\ Served'
    BY <1>1, <1>3 DEF Standing, HasLease, Served, Live
  <1>7. Covered'
    BY <1>1, <1>3, <1>4 DEF Standing, Covered, Told
  <1>8. Waited'
    BY <1>1, <1>3, <1>4 DEF Standing, Waited
  <1>9. Gone'
    BY <1>1, <1>3, <1>4 DEF Standing, Waited, Gone
  <1> QED
    BY <1>5, <1>6, <1>7, <1>8, <1>9 DEF Standing

\* A new process has no connections and was told nothing.
LEMMA RestartStanding ==
  ASSUME Shape, Standing, Restart
  PROVE  Standing'
  <1>1. /\ \A c \in Calls :
             call'[c].pc \notin {"idle", "lost"} => call'[c] = call[c]
        /\ UNCHANGED store
    BY DEF Restart, Shape, NoCall
  <1>2. \A w \in Upgrades : upgrade'[w].pc \notin Live \cup {"prepared"}
    BY AtShape DEF Restart, Shape, UpgradePhases, Live
  <1>3. InStore'
    BY <1>1 DEF Standing, InStore
  <1>4. HasLease' /\ Covered' /\ Waited' /\ Gone' /\ Served'
    BY <1>2 DEF HasLease, Covered, Waited, Gone, Served, Live
  <1>5. Denies'
    BY DEF Restart, NoNews, NoMinimum, Denies
  <1> QED
    BY <1>3, <1>4, <1>5 DEF Standing

\* Every step keeps the standing of calls and connections.
LEMMA StandingStep == Shape /\ Standing /\ [Next]_vars => Standing'
  <1> SUFFICES ASSUME Shape, Standing, [Next]_vars PROVE Standing'
    OBVIOUS
  <1>1. ASSUME NEW u \in Upgrades, UpgradeStep(u) PROVE Standing'
    <2>1. CASE Open(u)
      BY <2>1, OpenStanding
    <2>2. CASE \E i \in Installations : Prepare(u, i)
      BY <2>2, PrepareStanding
    <2>3. CASE Refuse(u) \/ Activate(u) \/ StoreFails(u) \/ Heartbeat(u) \/ SocketCloses(u)
      BY <2>3, MovesStanding
        DEF Refuse, Activate, StoreFails, Heartbeat, SocketCloses, Live
    <2> QED
      BY <1>1, <2>1, <2>2, <2>3 DEF UpgradeStep
  <1>2. ASSUME NEW c \in Calls, NEW i \in Installations,
               PromoteCredential(c, i) \/ RevokeInstallation(c, i)
        PROVE Standing'
    BY <1>2, StoreStanding DEF PromoteCredential, RevokeInstallation
  <1>3. ASSUME NEW c \in Calls, Apply(c) \/ Reply(c) PROVE Standing'
    BY <1>3, ApplyStanding, ReplyStanding
  <1>4. ASSUME NEW i \in Installations, Elsewhere(i) PROVE Standing'
    BY <1>4, StoreStanding DEF Elsewhere
  <1>5. CASE Stop
    <2>1. \A w \in Upgrades :
            /\ upgrade'[w].pc = "prepared" => upgrade'[w] = upgrade[w]
            /\ upgrade'[w].pc \in Live =>
                 /\ upgrade[w].pc \in Live
                 /\ upgrade'[w].i = upgrade[w].i /\ upgrade'[w].version = upgrade[w].version
            /\ upgrade'[w].pc \in {"open", "active"} => upgrade[w].pc \in {"open", "active"}
      BY <1>5, AtShape DEF Stop, Shape, UpgradePhases, Live
    <2> QED
      BY <1>5, <2>1, Fewer DEF Stop
  <1>6. CASE Restart
    BY <1>6, RestartStanding
  <1>7. CASE UNCHANGED vars
    BY <1>7, Fewer DEF vars
  <1> QED
    BY <1>1, <1>2, <1>3, <1>4, <1>5, <1>6, <1>7 DEF Next, CallStep

IInv == Shape /\ Sized /\ Standing

\* The inductive invariant: beyond the shapes and sizes, what the store
\* answered it still holds, the caches deny what the process was told, and a call
\* waits for every connection it concerns.
THEOREM StandingInvariant == Spec => []IInv
  <1>1. Init => IInv
    <2> SUFFICES ASSUME Init PROVE IInv
      OBVIOUS
    <2>1. Shape
      <3>1. 0 \in Versions /\ 1 \in Versions
        BY AdmissionAssumption DEF Versions
      <3>2. /\ store \in [Installations -> [version : Versions, revoked : BOOLEAN]]
            /\ told \in [Installations -> [version : Versions, revoked : BOOLEAN]]
        BY <3>1 DEF Init, NoNews
      <3>3. /\ stopping \in BOOLEAN
            /\ revoked \in [known : SUBSET Installations, evicted : BOOLEAN]
            /\ minimum \in [version : [Installations -> Versions], evicted : BOOLEAN]
        BY <3>1 DEF Init, NothingRevoked, NoMinimum
      <3>4. upgrade \in [Upgrades -> [pc : UpgradePhases, i : Installations \cup {None},
                                     version : Versions]]
        BY <3>1 DEF Init, NoLease, UpgradePhases
      <3>5. call \in [Calls -> [pc : CallPhases, kind : {None, "promote", "revoke"},
                               i : Installations \cup {None}, version : Versions,
                               waits : SUBSET Upgrades]]
        BY <3>1 DEF Init, NoCall, CallPhases
      <3> QED
        BY <3>2, <3>3, <3>4, <3>5 DEF Shape
    <2>2. revoked.known = {} /\ Known = {}
      BY DEF Init, NothingRevoked, NoMinimum, Known
    <2>3. Sized
      BY <2>2, FS_EmptySet, AdmissionAssumption DEF Sized, Finite
    <2>4. Standing
      BY AdmissionAssumption
        DEF Init, Standing, InStore, HasLease, Denies, Covered, Waited, Gone, Served, NoLease,
            NoCall, NoNews, NoMinimum, Live
    <2> QED
      BY <2>1, <2>3, <2>4 DEF IInv
  <1>2. IInv /\ [Next]_vars => IInv'
    BY ShapeStep, SizedStep, StandingStep DEF IInv, Standing
  <1> QED
    BY <1>1, <1>2, PTL DEF Spec

\* The shapes of the state, and that the caches keep to their capacity.
THEOREM TypeCorrect == Spec => []TypeOK
  <1>1. IInv => TypeOK
    BY DEF IInv, Shape, Sized, TypeOK
  <1> QED
    BY <1>1, StandingInvariant, PTL

\* An answered promotion or revocation leaves no connection it concerns.
THEOREM AnsweredLeavesNone == Spec => []AnsweredMeansGone
  <1>1. IInv => AnsweredMeansGone
    <2> SUFFICES ASSUME IInv PROVE AnsweredMeansGone
      OBVIOUS
    <2>1. \A u \in Upgrades : upgrade[u].pc \in {"open", "active"} =>
            /\ upgrade[u].i \in Installations
            /\ upgrade[u].version \in Nat
            /\ told[upgrade[u].i].version \in Nat
      BY AdmissionAssumption DEF IInv, Standing, HasLease, Shape, Versions, Live
    <2> QED
      BY <2>1 DEF IInv, Standing, Gone, Served, AnsweredMeansGone
  <1> QED
    BY <1>1, StandingInvariant, PTL

(***************************************************************************)
(* Refusals                                                                *)
(***************************************************************************)
\* The caches know nothing that is not so in the store.
Truthful ==
  \A i \in Installations :
    /\ i \in revoked.known => store[i].revoked
    /\ minimum.version[i] =< store[i].version

\* Every step keeps them truthful.
LEMMA TruthfulStep == Shape /\ InStore /\ Truthful /\ [Next]_vars => Truthful'
  <1> SUFFICES ASSUME Shape, InStore, Truthful, [Next]_vars PROVE Truthful'
    OBVIOUS
  <1>1. /\ minimum \in [version : [Installations -> Versions], evicted : BOOLEAN]
        /\ revoked \in [known : SUBSET Installations, evicted : BOOLEAN]
        /\ 0 \in Versions /\ \A n \in Versions : n \in Nat
        /\ \A i \in Installations : store[i].version \in Nat
    BY AdmissionAssumption DEF Shape, Versions
  <1>2. CASE UNCHANGED <<store, caches>>
    BY <1>2 DEF Truthful, caches
  <1>3. ASSUME NEW i \in Installations, PromoteIn(i) \/ RevokeIn(i), UNCHANGED caches
        PROVE Truthful'
    <2>1. /\ store' \in [Installations -> [version : Versions, revoked : BOOLEAN]]
          /\ \A j \in Installations : /\ store[j].version =< store'[j].version
                                      /\ store[j].revoked => store'[j].revoked
      BY <1>3, StoreShape
    <2>2. \A j \in Installations : store'[j].version \in Nat /\ minimum.version[j] \in Nat
      BY <1>1, <2>1
    <2> QED
      BY <1>1, <1>3, <2>1, <2>2 DEF Truthful, caches
  <1>4. ASSUME NEW c \in Calls, Apply(c) PROVE Truthful'
    <2> DEFINE i == call[c].i  v == call[c].version
    <2>1. /\ i \in Installations /\ v \in Versions /\ v =< store[i].version
          /\ call[c].kind = "revoke" => store[i].revoked
          /\ UNCHANGED store
      BY <1>4 DEF Apply, InStore, Shape
    <2>2. CASE call[c].kind = "revoke"
      <3>1. LearnRevoked(i) /\ UNCHANGED minimum
        BY <1>4, <2>2 DEF Apply
      <3>2. \A j \in Installations : j \in revoked'.known => j = i \/ j \in revoked.known
        BY <1>1, <3>1 DEF LearnRevoked
      <3> QED
        BY <2>1, <2>2, <3>1, <3>2 DEF Truthful
    <2>3. CASE call[c].kind = "promote"
      <3>1. LearnMinimum(i, v) /\ UNCHANGED revoked
        BY <1>4, <2>3 DEF Apply
      <3>2. \A j \in Installations :
              minimum'.version[j] = minimum.version[j] \/ minimum'.version[j] = 0
                \/ (j = i /\ minimum'.version[j] = v)
        <4>1. CASE UNCHANGED minimum
          BY <4>1
        <4>2. CASE minimum' = [minimum EXCEPT !.version[i] = v]
          <5>1. minimum'.version = [minimum.version EXCEPT ![i] = v]
            BY <1>1, <4>2
          <5> QED
            BY <1>1, <5>1
        <4>3. CASE \E k \in Known :
                minimum' = [version |-> [minimum.version EXCEPT ![i] = v, ![k] = 0],
                            evicted |-> TRUE]
          BY <1>1, <4>3
        <4> QED
          BY <3>1, <4>1, <4>2, <4>3 DEF LearnMinimum
      <3> QED
        BY <1>1, <2>1, <3>1, <3>2 DEF Truthful
    <2> QED
      BY <1>4, <2>2, <2>3 DEF Apply
  <1>5. CASE Restart
    BY <1>1, <1>5 DEF Restart, NothingRevoked, NoMinimum, Truthful
  <1> QED
    BY <1>2, <1>3, <1>4, <1>5
      DEF Next, UpgradeStep, CallStep, Prepare, Open, Refuse, Activate, StoreFails, Heartbeat,
          SocketCloses, Moves, PromoteCredential, RevokeInstallation, Elsewhere, Reply, Stop,
          vars, caches

\* An upgrade is refused only when its lease is worth nothing, a cache had to
\* forget something, or the host stops.
THEOREM RefusalsHaveCause == Spec => RefusedForCause
  <1>1. Init => Truthful
    BY DEF Init, NothingRevoked, NoMinimum, Truthful
  <1>2. IInv /\ Truthful /\ [Next]_vars => Truthful'
    BY TruthfulStep DEF IInv, Standing
  <1>3. IInv /\ Truthful /\ [Next]_vars =>
          [\A u \in Upgrades :
             upgrade[u].pc = "prepared" /\ upgrade'[u].pc = "refused"
               => ~Backed(u) \/ revoked.evicted \/ minimum.evicted \/ stopping']_vars
    <2> SUFFICES ASSUME IInv, Truthful, Next, NEW u \in Upgrades,
                        upgrade[u].pc = "prepared", upgrade'[u].pc = "refused"
                 PROVE  ~Backed(u) \/ revoked.evicted \/ minimum.evicted \/ stopping'
      OBVIOUS
    <2>1. Stop \/ Refuse(u)
      <3>1. /\ upgrade \in [Upgrades -> [pc : UpgradePhases, i : Installations \cup {None},
                                        version : Versions]]
            /\ \A to \in UpgradePhases : At(upgrade[u], to).pc = to
        BY AtShape DEF IInv, Shape
      <3>2. ASSUME NEW w \in Upgrades, UpgradeStep(w) PROVE Refuse(u)
        <4>1. CASE w = u
          BY <3>1, <3>2, <4>1
            DEF UpgradeStep, Prepare, Open, Activate, StoreFails, Heartbeat, SocketCloses,
                Moves, UpgradePhases
        <4>2. CASE w # u
          BY <3>1, <3>2, <4>2
            DEF UpgradeStep, Prepare, Open, Refuse, Activate, StoreFails, Heartbeat,
                SocketCloses, Moves
        <4> QED
          BY <4>1, <4>2
      <3>3. ASSUME NEW c \in Calls, CallStep(c) PROVE FALSE
        BY <3>1, <3>3
          DEF CallStep, PromoteCredential, RevokeInstallation, Apply, Reply, UpgradePhases
      <3>4. ~Restart
        BY <3>1 DEF Restart, UpgradePhases
      <3>5. ~(\E i \in Installations : Elsewhere(i))
        BY DEF Elsewhere
      <3> QED
        BY <3>2, <3>3, <3>4, <3>5 DEF Next
    <2>2. CASE Stop
      BY <2>2 DEF Stop
    <2>3. CASE Refuse(u)
      <3>1. /\ upgrade[u].i \in Installations
            /\ upgrade[u].version \in Nat
            /\ minimum.version[upgrade[u].i] \in Nat
            /\ store[upgrade[u].i].version \in Nat
        BY AdmissionAssumption DEF IInv, Standing, HasLease, Shape, Versions
      <3>2. stopping' = stopping
        BY <2>3 DEF Refuse, Moves
      <3> QED
        BY <2>3, <3>1, <3>2 DEF Refuse, Allowed, Truthful, Backed
    <2> QED
      BY <2>1, <2>2, <2>3
  <1> QED
    BY <1>1, <1>2, <1>3, StandingInvariant, PTL DEF Spec, RefusedForCause
=============================================================================
