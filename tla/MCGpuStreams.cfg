SPECIFICATION Spec
CONSTANTS
  Configs <- MCConfigs
  Calls <- MCCalls
  MaxCalls = 2
  Idle = Idle
  Failed = Failed
INVARIANTS
  TypeOK
  NoRace
  ResultsRight
  NothingPending
  ProgramsOrdered
CHECK_DEADLOCK FALSE
