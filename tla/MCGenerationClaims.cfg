SPECIFICATION MCSpec
CONSTANTS
  i1 = i1
  c1 = c1
  s1 = s1
  a1 = a1
  a2 = a2
  a3 = a3
  None = None
  Pairings = {}
  Installations = {i1}
  Credentials = {c1}
  Tickets = {}
  Sessions = {s1}
  GrantIds = {}
  Generations = {a1, a2, a3}
  SessionOf <- MCSessionOf
  MaxTime = 2
  ClockTolerance = 1
  PairingTtl = 1
  CredentialIdleTtl = 3
  CredentialAbsoluteTtl = 3
  PendingCredentialTtl = 1
  TicketTtl = 1
  OpeningLease = 1
  ActiveLease = 2
  TombstoneTtl = 3
  AudioGrantTtl = 1
  MinAudioGrantHandoff = 1
  AudioPeriod = 1
  MaxAudioGrantSamples = 0
  MaxAudioSamplesPerWindow = 0
  MaxAudioGrantsPerWindow = 0
  PairIssueQuota <- MCClosed
  PairAttemptQuota <- MCClosed
  TicketQuota <- MCClosed
  ReconnectQuota <- MCClosed
  GenerationQuota <- MCGenerationQuota
  GenerationsPerSession = 2
  AttemptQuota <- MCAttemptQuota
  AttemptsPerSession = 2
  MaxClaimVersion = 2
  MaxLeaseVersion = 3
SYMMETRY MCSymmetry
INVARIANTS
  ChargedOnce
PROPERTIES
  ImplementsOnce
CHECK_DEADLOCK FALSE
