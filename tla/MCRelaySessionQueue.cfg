\* any client, one utterance, a queue of two events, a fair host
SPECIFICATION FairSpec
CONSTANTS
  None = None
  u1 = u1
  u2 = u2
  g1 = g1
  g2 = g2
  Utterances = {u1}
  Segments = {g1, g2}
  Honest = FALSE
  QueueCapacity = 2
  CompactAt = 2
  ResolvedCapacity = 1
  MaxTasks = 1
  MaxRevision = 3
  MaxClaim = 2
INVARIANTS
  NothingForgotten
  OneOutcome
PROPERTIES
  NoFinalLost
  FinalEndsUtterance
  ClaimsSettle
CHECK_DEADLOCK FALSE
