SPECIFICATION Spec
CONSTANTS
    Names = {n1, n2}
    Fields = {f1, f2}
    Settings = {s1}
    Requests = {r1, r2}
    None = None
SYMMETRY Symmetry
INVARIANTS TypeOK
PROPERTIES ConfigPatchKeepsName EntriesOutliveOthers
