SPECIFICATION Spec
CONSTANTS
    Keys = {k1}
    Bodies = {b1, b2}
    Requests = {r1, r2, r3, r4}
    None = None
    SlowHandlers = TRUE
    DataExpires = TRUE
    Faults = TRUE
SYMMETRY Symmetry
CHECK_DEADLOCK FALSE
INVARIANTS
    TypeOK
    MutualExclusion
    NoCreateAfterAnswer
    AnswersAreGenuine
