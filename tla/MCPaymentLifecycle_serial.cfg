SPECIFICATION Spec
CONSTANTS
    Amounts <- MCAmounts
    Payments = {p1, p2}
    NoPayment = NoPayment
    ApiWorkers = {a1, a2}
    Consumers = {c1}
    RefundRequests <- MCRefundRequestsNegative
    SerialClient = TRUE
    Faults = TRUE
    MaxRequests = 6
CHECK_DEADLOCK FALSE
PROPERTIES
    FollowsDiagram
