SPECIFICATION FairSpec
CONSTANTS
  t1 = t1
  t2 = t2
  t3 = t3
  Tasks = {t1, t2, t3}
  Mixes <- ManyMixes
  NFields = 2
  MaxFixes = 1
  MaxCount = 2
  MayEvict = TRUE
  Bit31 = 8
INVARIANTS
  CleanMeansSaved
  ReadsWhole
PROPERTIES
  NeverGoesBack
  GpsReachesDisk
  DirtyReachesDisk
  
CHECK_DEADLOCK FALSE
