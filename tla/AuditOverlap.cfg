\* Two processes whose jobs may overlap, with a client that raises.
SPECIFICATION FairSpec
CONSTANTS
    Events = {e1, e2}
    Jobs = {j1, j2}
    Limit = 1
    MAX_ATTEMPTS = 2
    Swallows = FALSE
    MaxCrashes = 1
INVARIANTS TypeOK DeliveredMeansStored FailedMeansTried DuplicatesOnlyByCrash
PROPERTIES SettledIsFinal EventuallySettled
CHECK_DEADLOCK FALSE
