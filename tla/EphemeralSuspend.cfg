\* Sweeps over two devices next to a task that approves and revokes; usbguard
\* may fail and the daemon may crash.
SPECIFICATION FairSpec
CONSTANTS
  d1 = d1
  d2 = d2
  t1 = t1
  None = None
  Id = {d1, d2}
  ValidId = {d1, d2}
  Task = {t1}
  Ttl = {1}
  MaxTtl = 1
  Uid = {1}
  BackendMayFail = TRUE
  LogMayFail = FALSE
  MayRestart = TRUE
  MaxTime = 0
  MaxQueue = 1
INVARIANTS
  SweepComplete
PROPERTY
  SuspendSweeps
