SPECIFICATION FairSpec
CONSTANTS
  Cfg = {c1, c2}
  Slot = {1, 2, 3}
  NULL = NULL
  Free = Free
  Sizes <- MCAxisymmetric
  Grids <- MCScalarGrids
  MayCopy = TRUE
CHECK_DEADLOCK FALSE
INVARIANT IInv
PROPERTIES
  PoolSpec
  ResetEnds
