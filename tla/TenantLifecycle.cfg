\* Two tenants, two handlers and two calls at a time.
SPECIFICATION Spec
CONSTANTS
    Tenants = {t1, t2}
    Requests = {r1, r2}
    Calls = {c1, c2}
    MaxRows = 2
SYMMETRY Symmetry
INVARIANTS TypeOK PurgeKeepsItsCheck PurgeAccounting
PROPERTIES LiveDataSafe NeverRevived OnlyStragglersProvision KeepsPromise
