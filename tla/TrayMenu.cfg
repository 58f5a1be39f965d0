\* Two devices, two threads and another client; the daemon accepts one of the two TTLs.
SPECIFICATION FairSpec
CONSTANTS
  Id = {d1, d2}
  Device = {d1, d2}
  Thread = {t1, t2}
  Others = {c1}
  None = None
  Ttls = {0, 1}
  MaxTtl = 1
  MayFail = TRUE
INVARIANTS
  TypeOK
  CountdownAccountedFor
  RevokeIsFinal
PROPERTIES
  ClicksOpenTheGate
  CountdownExpires
\* Nobody has to use the tray.
CHECK_DEADLOCK FALSE
