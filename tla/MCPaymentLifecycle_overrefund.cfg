SPECIFICATION Spec
CONSTANTS
    Amounts <- MCAmounts
    Payments = {p1}
    NoPayment = NoPayment
    ApiWorkers = {a1, a2}
    Consumers = {c1}
    RefundRequests <- MCRefundRequests
    SerialClient = FALSE
    Faults = FALSE
    MaxRequests = 5
CHECK_DEADLOCK FALSE
INVARIANTS
    RefundsWithinAmount
