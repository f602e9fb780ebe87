----------------------------- MODULE MCServices -----------------------------
(***************************************************************************)
(* The services behind the relay and the client, which share nothing: one  *)
(* part is chosen at the start and the others stay as they began.          *)
(*   tokens: three callers of the token source, one of them a probe;       *)
(*   life: the client's credential, through the life of one installation;  *)
(*   voice: an utterance cut by voice detection;                           *)
(*   commits: two utterances, one after the other, cut by the session's    *)
(*     own commits;                                                        *)
(*   odd: such an utterance with a provider that breaks the protocol once; *)
(*   completion: three callers of one completion, one without a signal;    *)
(*   cleanup: three calls of the cleanup job over two tables.              *)
(***************************************************************************)
EXTENDS TokenSource, GenerationService, ExpiryCleanup, ClientAuth, Transcription

CONSTANTS u1, u2, c1, c2, c3

VARIABLE part

tokenVars == vars
allVars == <<part, tokenVars, authVars, transcriptionVars, serviceVars, cleanupVars>>

MCInit ==
  /\ part \in {"tokens", "life", "voice", "commits", "odd", "completion", "cleanup"}
  /\ Init /\ AuthInit /\ ServiceInit /\ CleanupInit
  /\ TranscriptionInit /\ (session.vad <=> part \notin {"commits", "odd"})

TokensPart ==
  /\ part = "tokens" /\ Next
  /\ UNCHANGED <<part, authVars, transcriptionVars, serviceVars, cleanupVars>>
AuthPart ==
  /\ part = "life" /\ AuthNext
  /\ UNCHANGED <<part, tokenVars, transcriptionVars, serviceVars, cleanupVars>>
TranscriptionPart ==
  /\ part \in {"voice", "commits", "odd"} /\ TranscriptionNext
  /\ session'.active = u2 => part = "commits"
  /\ odd' > 0 => part = "odd"
  /\ UNCHANGED <<part, tokenVars, authVars, serviceVars, cleanupVars>>
CompletionPart ==
  /\ part = "completion" /\ ServiceNext
  /\ UNCHANGED <<part, tokenVars, authVars, transcriptionVars, cleanupVars>>
CleanupPart ==
  /\ part = "cleanup" /\ CleanupNext
  /\ UNCHANGED <<part, tokenVars, authVars, transcriptionVars, serviceVars>>

MCNext ==
  TokensPart \/ AuthPart \/ TranscriptionPart \/ CompletionPart \/ CleanupPart

MCSpec == MCInit /\ [][MCNext]_allVars
=============================================================================
