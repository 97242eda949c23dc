SPECIFICATION Spec
CONSTANTS
    Root = root
    Inos = {root, i1, i2, i3}
    Names = {a, b, c}
    Procs = {p, q}
    None = none
    LinkMax = 4
    SyncErrors = FALSE
    MaxOps = 2
    MaxNames = 3
SYMMETRY Interchange
INVARIANT TypeOK
INVARIANT FreedUnreachable
INVARIANT LinkCountsExact
INVARIANT DirectoriesFormATree
INVARIANT RemovedStaysEmpty
PROPERTY UnlinkedStaysUnlinked
