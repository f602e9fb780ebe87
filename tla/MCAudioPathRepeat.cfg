\* a client that repeats its utterance.start, which the protocol allows
SPECIFICATION Spec
CONSTANTS
  u1 = u1
  u2 = u2
  None = None
  Utterances = {u1}
  Clients = {"repeating"}
  PushBytes = {4}
  Flows = {"normal"}
  CoalesceSamples = 2
  PayloadSamples = 2
  MaxUnacked = 4
  MaxReplay = 4
  MaxUtterance = 5
  AckSamples = 2
  GrantSamples = 3
  ResolvedCapacity = 1
  RetiredCapacity = 1
  MaxWire = 4
INVARIANTS
  ForwardedIsPaid
CHECK_DEADLOCK FALSE
