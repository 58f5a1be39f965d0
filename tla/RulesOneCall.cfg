\* One call at a time; every file operation and reload may fail, the daemon
\* may die.
\* Inodes: three paths, and the rules the directory on disk still leads to.
SPECIFICATION Spec
CONSTANTS
  r1 = r1
  r2 = r2
  a1 = a1
  i1 = i1
  i2 = i2
  i3 = i3
  i4 = i4
  None = None
  Partial = Partial
  DiskMayFail = TRUE
  ReloadMayFail = TRUE
  MayCrash = TRUE
  Applier = {a1}
  Inode = {i1, i2, i3, i4}
  Rules = {r1, r2}
INVARIANTS
  TypeOK
  PreviousRecoverable
  OkMeansInstalled
PROPERTIES
  StaysWhole
  RulesReplacedAtomically
