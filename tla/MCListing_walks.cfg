SPECIFICATION Spec
CONSTANTS
    Payments = {p, q, r}
    Keys <- MCKeys
    Pages <- MCPages
    Requests <- MCRequests
    SeedCount = 1
    IntBits = 5
    MaxJoined = 1
SYMMETRY Symmetry
INVARIANTS
    TypeOK
    MissesNeedLeavers
    RepeatsNeedArrivals
    TotalsNeedMoves
    QuietIsExact
CHECK_DEADLOCK FALSE
