\* The clock runs and the session is locked: does an approval end?
SPECIFICATION FairSpec
CONSTANTS
  d1 = d1
  t1 = t1
  None = None
  Id = {d1}
  ValidId = {d1}
  Task = {t1}
  Ttl = {1}
  MaxTtl = 1
  Uid = {1}
  BackendMayFail = FALSE
  LogMayFail = FALSE
  MayRestart = FALSE
  MaxTime = 2
  MaxQueue = 1
PROPERTY
  TimeoutOrLockRevokes
