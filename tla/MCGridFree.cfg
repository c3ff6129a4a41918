SPECIFICATION Spec
CONSTANTS
  Cfg <- Cfgs
  NULL = NULL
  Lat <- Lats
  Faint <- MCFaint
  Jobs <- MCJobs
  MaxSkip = 1
INVARIANTS TypeOK LocalRight OperatorsRight RotationRight
