SPECIFICATION FairSpec
CONSTANTS
  NPHI = 6
  MMAX = 2
  MaxTeam = 3
  MaxBuffers = 1
  Idle = Idle
  Scenarios <- MCScenarios
INVARIANTS
  AtomicInv
  NoRace
  BuffersFreed
PROPERTIES
  AtomicSpec
  Returns
