SPECIFICATION Spec
CONSTANTS
    p1 = p1
    p2 = p2
    e1 = e1
    e2 = e2
    Subscriptions = {s1}
    Payments = {p1}
    Events = {e1, e2}
    PaymentOf <- MCRefunded
    NoEvent = NoEvent
    Dispatchers = {d1}
    Retriers = {r1}
    BatchSize = 1
    MaxAttempts = 2
    MaxRuns = 1
    MaxCuts = 0
INVARIANTS
    NoEventDropped
CHECK_DEADLOCK FALSE
