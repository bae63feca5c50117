SPECIFICATION FairSpec
CONSTANTS
    MaxMessages = 2
    Malformed <- MCMalformed
    Consumers = {c1, c2}
    MaxRetries = 1
    Prefetch = 2
    MaxCuts = 2
    MaxStops = 1
INVARIANTS
    TypeOK
    InOnePlace
    RepeatsNeedCuts
PROPERTIES
    DeadAfterRetries
    EveryMessageSettles
CHECK_DEADLOCK FALSE
