SPECIFICATION Spec
CONSTANTS
  MaxVer = 2
  MaxHeap = 1
INVARIANTS
  NothingKept
  SentIsOneFix
PROPERTIES
  SignalEnds
CHECK_DEADLOCK FALSE
