SPECIFICATION FairSpec
CONSTANTS
    Keys = {k1, k2}
    SystemKeys = {k2}
    Procs = {p1, p2}
    MaxTime = 1
    MaxRenames = 1
    MaxFailures = 0
PROPERTIES LastUsedOnlyAdvances UsesGetRecorded
CHECK_DEADLOCK FALSE
