SPECIFICATION MCFairSpec
CONSTANTS
    MaxMessages = 2
    Malformed = {}
    Consumers = {c1}
    MaxRetries = 1
    Prefetch = 2
    MaxCuts = 1
    MaxStops = 1
    Payments = {p1, p2}
    FirstOwner = p1
    Events <- MCEvents
    KindOf <- MCKindOf
INVARIANTS
    ServicesTypeOK
    AckedIsDone
    TellsWithinPolicy
PROPERTIES
    HandledInOrder
    TrailGrowsInOrder
    TellsInOrder
    EventuallyRecorded
CHECK_DEADLOCK FALSE
