SPECIFICATION ProgramSpec
CONSTANTS
  Cfg = {c1, c2, c3}
  Slot = {1, 2, 3}
  NULL = NULL
  Free = Free
  Sizes <- MCSizes
  Grids <- MCGrids
  MayCopy = TRUE
CHECK_DEADLOCK FALSE
SYMMETRY Perms
INVARIANTS
  NoDangling
  NoLeak
  TablesSuit
  GridTablesSuit
