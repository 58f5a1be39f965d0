\* Failing writes, restarts and damage to the file. The calls are bounded, so
\* that a state in which all were made has no successor.
SPECIFICATION Spec
CONSTANTS
  Torn = Torn
  DiskMayFail = TRUE
  MayRestart = TRUE
  MayDamage = TRUE
  MaxCalls = 3
  MaxLives = 3
INVARIANTS
  TypeOK
  VerifiedIsPrefix
  IntactVerifies
PROPERTY
  NeverHeals
CHECK_DEADLOCK FALSE
