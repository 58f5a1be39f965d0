\* A device, an id that is no device's, every kind of rejected input; usbguard and
\* the writes of the audit log may fail and the daemon may crash.
SPECIFICATION Spec
CONSTANTS
  d1 = d1
  bad = bad
  t1 = t1
  t2 = t2
  None = None
  Id = {d1, bad}
  ValidId = {d1}
  Task = {t1, t2}
  Ttl = {0, 1, 2}
  MaxTtl = 1
  Uid = {0, 1}
  BackendMayFail = TRUE
  LogMayFail = TRUE
  MayRestart = TRUE
  MaxTime = 1
  MaxQueue = 1
SYMMETRY TaskSymmetry
INVARIANTS
  TypeOK
  ApprovalAccountedFor
  GrantAudited
PROPERTY
  OnlyRequestsOpenTheGate
