SPECIFICATION ProgramSpec
CONSTANTS
  Rank = {0, 1}
  NULL = NULL
  VSIZE2 = 2
  Megabyte = 4000
  SHTNS_MAX_MEMORY = 7
  Builds = {TRUE, FALSE}
  Sizes <- MCSizes
  Requests <- MCRequests
  Threads = {2, 4}
  Speeds <- MCSpeeds
  MaxRecords = 2
INVARIANTS
  TypeOK
  MatricesPresent
  NoWaste
  SameConfig
  LoadedAsSaved
