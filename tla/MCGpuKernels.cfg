SPECIFICATION Spec
CONSTANTS
  LMAX = 12
  MMAX = 3
  MRES = 2
  NPHI = 8
  NLM_STRIDE = 1000
  SPAT_STRIDE = 1024
  LSPAN = 4
  NW = 2
  MaxSkip = 1
  Shape <- MCShape
  Jobs <- MCJobs
INVARIANTS TypeOK NoRace SumsRight ResultsRight BarriersMet
