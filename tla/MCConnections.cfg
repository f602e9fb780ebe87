\* upgrades against promotions and revocations, and the path of the audio
SPECIFICATION MCFairSpec
CONSTANTS
  i1 = i1
  i2 = i2
  w1 = w1
  c1 = c1
  c2 = c2
  u1 = u1
  u2 = u2
  None = None
  Installations = {i1, i2}
  Upgrades = {w1}
  Calls = {c1, c2}
  Capacity = 1
  MaxVersion = 3
INVARIANTS
  AnsweredMeansGone
  SamplesAccountedFor
  NeverAtOdds
PROPERTIES
  TakesHold
  CancelEnds
CHECK_DEADLOCK FALSE
