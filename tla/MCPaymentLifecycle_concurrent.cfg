SPECIFICATION Spec
CONSTANTS
    Amounts <- MCAmounts
    Payments = {p1, p2}
    NoPayment = NoPayment
    ApiWorkers = {a1, a2}
    Consumers = {c1, c2}
    RefundRequests <- MCRefundRequests
    SerialClient = FALSE
    Faults = TRUE
    MaxRequests = 6
SYMMETRY Symmetry
CHECK_DEADLOCK FALSE
INVARIANTS
    TypeOK
    RowsConsistent
    LedgerBehindPsp
    OutboxMirrorsTable
    EventsInOrder
    OverRefundsNeedDisturbance
    LedgerReconciles
