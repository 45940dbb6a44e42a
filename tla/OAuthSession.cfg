\* Two tabs with a login, two calls, three pairs of tokens.
SPECIFICATION Spec
CONSTANTS
    Tabs = {t1, t2}
    Calls = {c1, c2}
    Pairs = {p1, p2, p3}
    None = None
INVARIANTS TypeOK LoneLoginKeepsItsState NobodyIsLockedOut
PROPERTIES LogoutEndsSession
