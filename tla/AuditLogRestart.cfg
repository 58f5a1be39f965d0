\* A daemon that is restarted once, on a disk that does not fail.
SPECIFICATION Spec
CONSTANTS
  Torn = Torn
  DiskMayFail = FALSE
  MayRestart = TRUE
  MayDamage = FALSE
  MaxCalls = 3
  MaxLives = 2
INVARIANT
  Verifiable
CHECK_DEADLOCK FALSE
