SPECIFICATION Spec
CONSTANTS
  Configs <- OneConfig
  Calls <- PinnedCalls
  MaxCalls = 1
  Idle = Idle
  Failed = Failed
INVARIANT ResultsRight
CHECK_DEADLOCK FALSE
