SPECIFICATION Spec
CONSTANTS
  Cfg <- Cfgs
  NULL = NULL
  Lat <- Lats
  Faint <- MCFaint
  Jobs <- MCStale
  MaxSkip = 1
INVARIANT LocalRight
