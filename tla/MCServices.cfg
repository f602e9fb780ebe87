SPECIFICATION MCSpec
CONSTANTS
 None = None
 u1 = u1
 u2 = u2
 c1 = c1
 c2 = c2
 c3 = c3
 Callers = {c1, c2, c3}
 Probes = {c3}
 Window = 1
 Lifetimes = {1, 3}
 MaxTime = 2
 MaxRefreshes = 2
 Requests = {c1, c2, c3}
 Plain = {c3}
 MaxRuns = 2
 Places = 3
 Limit = 2
 PageCap = 2
 MaxIterations = 3
 MaxWrites = 1
 Absent = Absent
 PendingTtl = 1
 RotationPeriod = 1
 AbsoluteTtl = 3
 MaxAuthTime = 3
 MaxInstallations = 1
 MaxVersions = 2
 MaxGrants = 1
 Unset = Unset
 Utterances = {u1, u2}
 Modes = {TRUE, FALSE}
 CadenceFrames = 1
 MaxFrames = 2
 QueuePlaces = 3
 MaxOdd = 1
 MaxWire = 2
INVARIANTS
 RefreshIsShared
 CredentialKept
 StaleIsSilent
 CompletionIsShared
 PassIsComplete
PROPERTIES
 FinalIsWhole
 HonestOnceReady
CHECK_DEADLOCK FALSE
