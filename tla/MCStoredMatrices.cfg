CONSTANTS
  Configs <- MCConfigs
  Calls <- MCCalls
  Uses <- MCUses
  MaxPolar = 2
  ReallocMoves = FALSE
SPECIFICATION Spec
CHECK_DEADLOCK FALSE
INVARIANTS
  TypeOK
  ProductsRight
