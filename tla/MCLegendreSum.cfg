CONSTANTS
  LMAX = 6
  MMAX = 2
  MRES = 2
  Blocks = 2
  RescaleL = 2
  MinExp <- MCMinExp
  Jobs <- MCJobs
SPECIFICATION Spec
CHECK_DEADLOCK FALSE
INVARIANTS TypeOK SumsRight OutputsRight
