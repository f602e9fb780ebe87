---------------------------- MODULE MCConnections ----------------------------
(***************************************************************************)
(* Two parts of a connection's life that share nothing; one is chosen at   *)
(* the start.                                                              *)
(*   admission: caches of one entry and two installations, so that a       *)
(*     second promotion or revocation makes a cache forget the first;      *)
(*   audio: frames of two samples and grants of three, so that a frame may *)
(*     need two grants, from the client of this repository, one that       *)
(*     repeats its start, or any.                                          *)
(***************************************************************************)
EXTENDS Admission, Sequences

CONSTANTS i1, i2, w1, c1, c2, u1, u2

VARIABLES part, kind, mic, q, used, retired, up, down, meter, core, resolved, open,
          paid, heard, quarrel

Audio == INSTANCE AudioPath WITH
           Utterances <- {u1, u2}, Clients <- {"honest", "repeating", "any"},
           PushBytes <- {3}, Flows <- {"pause", "normal"}, CoalesceSamples <- 2,
           PayloadSamples <- 2, MaxUnacked <- 4, MaxReplay <- 4, MaxUtterance <- 5,
           AckSamples <- 2, GrantSamples <- 3, ResolvedCapacity <- 1,
           RetiredCapacity <- 1, MaxWire <- 3

audioVars == <<kind, mic, q, used, retired, up, down, meter, core, resolved, open,
               paid, heard, quarrel>>
allVars == <<part, vars, audioVars>>

MCInit ==
  /\ part \in {"admission", "audio"}
  /\ Init /\ Audio!Init
  /\ part = "audio" \/ kind = "honest"

Admits(A) == part = "admission" /\ A /\ UNCHANGED <<part, audioVars>>
Hears(A) == part = "audio" /\ A /\ UNCHANGED <<part, vars>>

MCNext == Admits(Next) \/ Hears(Audio!Next)

\* the fairness of each part: FairSpec of its module
MCFairSpec ==
  /\ MCInit /\ [][MCNext]_allVars
  /\ \A u \in Upgrades :
       /\ WF_allVars(Admits(Heartbeat(u)))
       /\ WF_allVars(Admits(upgrade[u].pc = "closing" /\ SocketCloses(u)))
  /\ WF_allVars(Hears(Audio!RelayHears))
  /\ WF_allVars(Hears(Audio!HearAck \/ Audio!HearEnd))

SamplesAccountedFor == Audio!SamplesAccountedFor
NeverAtOdds == Audio!NeverAtOdds
CancelEnds == Audio!CancelEnds
=============================================================================
