\* Two users, two requests at a time.  One user has a panel and may also call
\* the API; what the other asks directly includes all a panel of his could ask.
SPECIFICATION PanelSpec
CONSTANTS
    Users = {u1, u2}
    Requests = {r1, r2}
    Viewers = {u1}
SYMMETRY Symmetry
INVARIANTS TypeOK PanelTypeOK
PROPERTIES AddNeverOverwrites LastOwnerGoesBySelfOrRace OrphanNeedsStaleView
