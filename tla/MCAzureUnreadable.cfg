SPECIFICATION MCTicketsSpec
CONSTANTS
 Calls = {k1,k2}
 None = None
 i0 = i0
 c1 = c1
 c2 = c2
 t0 = t0
 t1 = t1
 p1 = p1
 s0 = s0
 g1 = g1
 g0 = g0
 u0 = u0
 u1 = u1
 u2 = u2
 MaxTries = 2
 Requests = {"issueTicket"}
 MaxTime = 1
 PairingTtl = 1
 CredentialIdleTtl = 5
 CredentialAbsoluteTtl = 9
 PendingCredentialTtl = 1
 TicketTtl = 2
 OpeningLease = 1
 ActiveLease = 1
 TombstoneTtl = 1
 Quotas <- MCWideQuotas
 Generations = {g1}
 Utterances = {}
 GenerationsPerSession = 2
 AttemptsPerSession = 2
 AudioPeriod = 2
 AudioGrantTtl = 2
 MinHandoff = 2
 MaxAudioSamples = 2
INVARIANT RowsReadBack
SYMMETRY MCSymmetry
CHECK_DEADLOCK FALSE
