SPECIFICATION Spec
CONSTANTS
  None = None
  Pairings = {p1}
  Installations = {i1}
  Credentials = {c1}
  Tickets = {t1, t2, t3}
  Sessions = {s1, s2, s3}
  GrantIds = {g1}
  MaxTime = 2
  ClockTolerance = 1
  PairingTtl = 1
  CredentialIdleTtl = 2
  CredentialAbsoluteTtl = 2
  PendingCredentialTtl = 1
  TicketTtl = 1
  OpeningLease = 1
  ActiveLease = 1
  TombstoneTtl = 3
  AudioGrantTtl = 1
  MinAudioGrantHandoff = 1
  AudioPeriod = 1
  MaxAudioGrantSamples = 1
  MaxAudioSamplesPerWindow = 1
  MaxAudioGrantsPerWindow = 2
  PairIssueQuota <- MCOnce
  PairAttemptQuota <- MCOnce
  TicketQuota <- MCTicketsFree
  ReconnectQuota <- MCReconnectQuota
SYMMETRY MCSymmetry
INVARIANTS
  QuotasHold
CHECK_DEADLOCK FALSE
