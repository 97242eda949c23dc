SPECIFICATION Spec
CONSTANTS
  i1 = i1
  i2 = i2
  i3 = i3
  Inodes = {i1, i2, i3}
  Blocks = {b1, b2, b3, b4}
  Tasks = {t1, t2}
  NDir = 1
  Ptrs = 2
  FileBlocks <- MCFileBlocks
  Sizes <- MCSizes
  AppendOnly = {i2}
  MayFail = TRUE
  MaxReadErrors = 1
  None = None
  Junk = Junk
SYMMETRY Interchange
INVARIANTS
  TypeOK
  NoBlockShared
  NoBlockLeaked
  NoInodeShared
  LookupIsExact
  NothingPastSize
  SomeoneGoesOn
PROPERTY
  KeepsBelowSize
CHECK_DEADLOCK FALSE
