\* Two calls at once, and nothing fails.
\* Inodes: three paths, one file each call has open, and the first rules.
SPECIFICATION Spec
CONSTANTS
  r1 = r1
  r2 = r2
  a1 = a1
  a2 = a2
  i1 = i1
  i2 = i2
  i3 = i3
  i4 = i4
  i5 = i5
  i6 = i6
  None = None
  Partial = Partial
  DiskMayFail = FALSE
  ReloadMayFail = FALSE
  MayCrash = FALSE
  Applier = {a1, a2}
  Inode = {i1, i2, i3, i4, i5, i6}
  Rules = {r1, r2}
INVARIANT
  NeverPartial
