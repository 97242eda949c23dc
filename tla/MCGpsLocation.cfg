SPECIFICATION FairSpec
CONSTANTS
  Setters = {s1, s2}
  Readers = {r1}
  NWords = 2
  MaxSets = 2
  MaxStray = 1
  CopyFaults = TRUE
  MemcpyFaults = TRUE
  Bit31 = 8
INVARIANTS
  TypeOK
  WritersExclude
  ReadersExcludeWriters
  NoWordOlderThanStamp
  QuietLocationIsWhole
PROPERTIES
  ReadsReturn
  SetsReturn
CHECK_DEADLOCK FALSE
