SPECIFICATION Spec
CONSTANTS
  None = None
  Pairings = {p1}
  Installations = {i1}
  Credentials = {c1, c2, c3}
  Tickets = {}
  Sessions = {}
  GrantIds = {}
  MaxTime = 4
  ClockTolerance = 1
  PairingTtl = 1
  CredentialIdleTtl = 2
  CredentialAbsoluteTtl = 3
  PendingCredentialTtl = 1
  TicketTtl = 1
  OpeningLease = 1
  ActiveLease = 2
  TombstoneTtl = 1
  AudioGrantTtl = 1
  MinAudioGrantHandoff = 1
  AudioPeriod = 1
  MaxAudioGrantSamples = 2
  MaxAudioSamplesPerWindow = 3
  MaxAudioGrantsPerWindow = 2
  PairIssueQuota <- MCPairIssueQuota
  PairAttemptQuota <- MCPairAttemptQuota
  TicketQuota <- MCTicketQuota
  ReconnectQuota <- MCReconnectQuota
SYMMETRY MCSymmetry
PROPERTIES
  CredentialNeverRevives
INVARIANTS
  KeysGoWithInstallation
CHECK_DEADLOCK FALSE
