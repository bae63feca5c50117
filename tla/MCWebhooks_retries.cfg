SPECIFICATION FairSpec
CONSTANTS
    p1 = p1
    p2 = p2
    e1 = e1
    e2 = e2
    Subscriptions = {s1}
    Payments = {p1, p2}
    Events = {e1, e2}
    PaymentOf <- MCCompleted
    NoEvent = NoEvent
    Dispatchers = {d1, d2}
    Retriers = {r1}
    BatchSize = 2
    MaxAttempts = 3
    MaxRuns = 2
    MaxCuts = 1
INVARIANTS
    TypeOK
    RowsAreHonest
    PostsWithinPolicy
    RetriesWait
PROPERTIES
    FailuresEnd
CHECK_DEADLOCK FALSE
