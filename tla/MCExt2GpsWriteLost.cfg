SPECIFICATION Spec
CONSTANTS
  t1 = t1
  t2 = t2
  t3 = t3
  Tasks = {t1, t2, t3}
  Mixes <- OneWriter
  NFields = 2
  MaxFixes = 1
  MaxCount = 2
  MayEvict = TRUE
  Bit31 = 8
INVARIANT
  EveryLocationSaved
CHECK_DEADLOCK FALSE
