SPECIFICATION Spec
CONSTANTS
    Root = root
    Inos = {root, i1, i2}
    Names = {a, b}
    Procs = {p}
    None = none
    LinkMax = 4
    SyncErrors = TRUE
    MaxOps = 1
    MaxNames = 3
SYMMETRY Interchange
INVARIANT FreedUnreachable
