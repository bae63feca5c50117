SPECIFICATION Spec
CONSTANTS
    Keys = {k1}
    Bodies = {b1}
    Requests = {r1, r2}
    None = None
    SlowHandlers = FALSE
    DataExpires = FALSE
    Faults = FALSE
SYMMETRY Symmetry
CHECK_DEADLOCK FALSE
INVARIANTS
    OnePaymentPerKey
