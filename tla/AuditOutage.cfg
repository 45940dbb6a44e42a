\* The client of production and a platform that may be down.
SPECIFICATION Spec
CONSTANTS
    Events = {e1}
    Jobs = {j1}
    Limit = 2
    MAX_ATTEMPTS = 2
    Swallows = TRUE
    MaxCrashes = 0
INVARIANT DeliveredMeansStored
CHECK_DEADLOCK FALSE
