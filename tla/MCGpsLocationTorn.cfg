SPECIFICATION Spec
CONSTANTS
  Setters = {s1}
  Readers = {r1}
  NWords = 2
  MaxSets = 1
  MaxStray = 0
  CopyFaults = FALSE
  MemcpyFaults = FALSE
  Bit31 = 8
INVARIANTS
  SnapshotIsWhole
