SPECIFICATION Spec
CONSTANTS
  Callers = {c1, c2}
  Names = {n1, n2}
  Files = {f1, f2}
  None = None
  Zeros = Zeros
  MaxLeak = 2
  Bit31 = 2
SYMMETRY Symmetry
INVARIANTS
  NothingHeld
  OnlyCheckedData
