SPECIFICATION Spec
CONSTANTS
  Short = {a}
  Long = {l, m}
  LongLen = 5
  Inos = {11, 12}
  Targets <- MCTargets
  ChunkSize = 32
  PageSize = 64
  MaxSize = 96
  MayFail = TRUE
  None = none
SYMMETRY Interchange
INVARIANTS
  PagesPassCheck
  LookupFinds
  SlotFound
  EmptyMeansEmpty
  ScanComplete
PROPERTY
  ImplementsDirectory
