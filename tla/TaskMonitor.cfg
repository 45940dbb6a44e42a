\* Two tenants, two tasks, pages of one task, so two pages, two loads at a time.
SPECIFICATION Spec
CONSTANTS
    Tenants = {t1, t2}
    Tasks = {k1, k2}
    Requests = {r1, r2}
    PageSize = 1
    MaxPage = 2
SYMMETRY Symmetry
INVARIANTS TypeOK WalkSeesEverything
