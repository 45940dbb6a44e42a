SPECIFICATION Spec
CONSTANTS
    Keys = {k1}
    SystemKeys = {k1}
    Procs = {p1}
    MaxTime = 2
    MaxRenames = 0
    MaxFailures = 0
INVARIANT ShutdownFlushes
CHECK_DEADLOCK FALSE
