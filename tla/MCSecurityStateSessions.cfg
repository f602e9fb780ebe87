SPECIFICATION Spec
CONSTANTS
  None = None
  Pairings = {p1}
  Installations = {i1}
  Credentials = {c1, c2}
  Tickets = {t1, t2}
  Sessions = {s1, s2}
  GrantIds = {}
  MaxTime = 2
  ClockTolerance = 1
  PairingTtl = 1
  CredentialIdleTtl = 2
  CredentialAbsoluteTtl = 2
  PendingCredentialTtl = 1
  TicketTtl = 2
  OpeningLease = 1
  ActiveLease = 2
  TombstoneTtl = 1
  AudioGrantTtl = 1
  MinAudioGrantHandoff = 1
  AudioPeriod = 1
  MaxAudioGrantSamples = 2
  MaxAudioSamplesPerWindow = 3
  MaxAudioGrantsPerWindow = 2
  PairIssueQuota <- MCOnce
  PairAttemptQuota <- MCOnce
  TicketQuota <- MCTicketQuota
  ReconnectQuota <- MCReconnectQuota
SYMMETRY MCSymmetry
PROPERTIES
  SessionNeverRevives
INVARIANTS
  OneAuthorisedSession
  TicketSingleUse
CHECK_DEADLOCK FALSE
