SPECIFICATION FairSpec
CONSTANTS
    Payments = {p1, p2}
    MaxEvents = 3
    Relays = {r1}
    BatchSize = 2
    PublisherDeclares = TRUE
    MaxFaults = 2
    MaxOutages = 1
INVARIANTS
    TypeOK
    NothingLost
    PaymentOrderKept
    RepeatsNeedFaults
PROPERTIES
    EventuallyArrives
    ImplementsChannel
CHECK_DEADLOCK FALSE
