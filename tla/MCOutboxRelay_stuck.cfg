SPECIFICATION FairSpec
CONSTANTS
    Payments = {p1, p2}
    MaxEvents = 2
    Relays = {r1}
    BatchSize = 2
    PublisherDeclares = TRUE
    MaxFaults = 0
    MaxOutages = 1
PROPERTIES
    RetriedUntilPublished
CHECK_DEADLOCK FALSE
