\* a client that keeps to the protocol
SPECIFICATION Spec
CONSTANTS
  None = None
  u1 = u1
  u2 = u2
  g1 = g1
  g2 = g2
  Utterances = {u1, u2}
  Segments = {g1}
  Honest = TRUE
  QueueCapacity = 2
  CompactAt = 2
  ResolvedCapacity = 1
  MaxTasks = 1
  MaxRevision = 1
  MaxClaim = 2
SYMMETRY MCSymmetry
INVARIANTS
  HonestNeverRejected
  TranslationEarned
  ClaimsInHand
CHECK_DEADLOCK FALSE
