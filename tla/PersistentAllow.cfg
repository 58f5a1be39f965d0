\* One call of apply_persistent_allow at a time next to one key call; file
\* operations may fail and the machine may lose power.
SPECIFICATION Spec
CONSTANTS
  b1 = b1
  b2 = b2
  k1 = k1
  k2 = k2
  Baseline <- MCBaseline
  Key <- MCKey
  Signer <- MCSigner
  Factory = Factory
  Name = {n1, n2}
  Keeper = {m1}
  Applier = {a1}
  Second = {s1}
  Inode = {i1, i2, i3}
  Absent = Absent
  Torn = Torn
  Partial = Partial
  None = None
  DiskMayFail = TRUE
  ReloadMayFail = FALSE
  MayCrash = TRUE
  MayLosePower = TRUE
SYMMETRY Symmetry
INVARIANTS
  TypeOK
  OnlyVouchedRules
  SteadyKeyCounts
  InstalledIsStored
  InstalledIsRecorded
  NeverPartial
  TrueMeansInForce
PROPERTIES
  KeyNeverReplaced
  InstalledAtomically
