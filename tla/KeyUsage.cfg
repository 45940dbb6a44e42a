SPECIFICATION Spec
CONSTANTS
    Keys = {k1, k2}
    SystemKeys = {k2}
    Procs = {p1, p2}
    MaxTime = 2
    MaxRenames = 0
    MaxFailures = 1
SYMMETRY Symmetry
INVARIANTS TypeOK NoUseForgotten
PROPERTIES LastUsedOnlyAdvances KeepsPromise
CHECK_DEADLOCK FALSE
