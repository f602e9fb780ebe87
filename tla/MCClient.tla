------------------------------ MODULE MCClient ------------------------------
(***************************************************************************)
(* The client's parts, each under bounds that reach its cases.             *)
(*   connection: two starts without utterances, and one session with       *)
(*     three utterances;                                                   *)
(*   runtime: turns to their results, losses with a slow or a refusing     *)
(*     microphone, and the phone's calls with every answer of the          *)
(*     controller and a queue that overflows.                              *)
(* A part is chosen at the start; the others stay as they began.           *)
(***************************************************************************)
EXTENDS ClientTransport, TLC

VARIABLES part, rt, world

\* the bounds of the configuration are those of the two starts
Speaks == INSTANCE ClientTransport WITH
            MaxStarts <- 1, MaxUtterances <- 3, MaxSaid <- 5

AllSpeech ==
  {"transcript.partial", "transcript.final", "language.decision",
   "translation.ready", "suggestions.ready", "utterance.aborted"}

Turns == INSTANCE ClientRuntime WITH
           Capacity <- 4, MaxTries <- 2, MaxRecent <- 3, Calls <- {"press"},
           Outcomes <- {"ready"}, Speech <- AllSpeech, Answers <- {"yes"},
           Faults <- {"lost"}, MaxCalls <- 5, MaxLosses <- 1, MaxRevision <- 2
Losses == INSTANCE ClientRuntime WITH
            Capacity <- 4, MaxTries <- 2, MaxRecent <- 3,
            Calls <- {"press", "exit", "leave"},
            Outcomes <- {"ready", "unavailable"},
            Speech <- {"transcript.final"}, Answers <- {"yes", "no"},
            Faults <- {"lost", "retry", "stop"},
            MaxCalls <- 4, MaxLosses <- 2, MaxRevision <- 1
Phone == INSTANCE ClientRuntime WITH
           Capacity <- 3, MaxTries <- 1, MaxRecent <- 2,
           Calls <- {"press", "enroll", "retry", "reset", "revoke"},
           Outcomes <- {"ready", "required", "storage-error", "unavailable"},
           Speech <- {}, Answers <- {"yes", "throws"},
           Faults <- {"lost", "rejected"},
           MaxCalls <- 4, MaxLosses <- 1, MaxRevision <- 1

RuntimeVars == <<rt, world>>

RuntimeParts == {"turns", "losses", "phone"}

MCInit ==
  /\ part \in {"restarts", "speaks"} \cup RuntimeParts
  /\ Init
  /\ world = Turns!Outside
  /\ rt = IF part \in RuntimeParts
            THEN Turns!Handles(Turns!Booted, Turns!Event("startup.ready"),
                               Turns!Void)
          ELSE Turns!Booted

LinkNext ==
  /\ \/ part = "restarts" /\ Next
     \/ part = "speaks" /\ Speaks!Next
  /\ UNCHANGED <<part, RuntimeVars>>

RuntimeNext ==
  /\ \/ part = "turns" /\ Turns!Next
     \/ part = "losses" /\ Losses!Next
     \/ part = "phone" /\ Phone!Next
  /\ UNCHANGED <<part, vars>>

MCNext == LinkNext \/ RuntimeNext

\* the bounds stand in no action that fairness is stated of, except what the
\* controller may answer: an answer of any part answers for all
MCSpec ==
  /\ MCInit
  /\ [][MCNext]_<<part, vars, RuntimeVars>>
  /\ Fairness /\ Phone!Fairness

SessionIsCarried == Turns!SessionIsCarried
MicrophoneInTurn == Turns!MicrophoneInTurn
PipelineSettles == Turns!PipelineSettles
RecoverySettles == Turns!RecoverySettles
=============================================================================
