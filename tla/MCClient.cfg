SPECIFICATION MCSpec
CONSTANTS
  None = None
  MaxStarts = 2
  MaxUtterances = 0
  MaxSaid = 1
  RetiredCapacity = 2
INVARIANTS OneLiveConnection
 SessionIsCarried MicrophoneInTurn
PROPERTIES OnlyTheLatestSpeaks StartSettles PipelineSettles RecoverySettles
CHECK_DEADLOCK FALSE
