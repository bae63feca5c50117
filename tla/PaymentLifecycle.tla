--------------------------- MODULE PaymentLifecycle ---------------------------
(***************************************************************************)
(* The payment use cases as they run: handlers of the HTTP API and         *)
(* consumers of payment.created, each on its own copy of the row, talking  *)
(* to the PSP between the SELECT and the transaction that saves the copy.  *)
(*                                                                         *)
(* A handler takes the steps of the code:                                  *)
(*   FindByID and the entity's transition      (StartProcess, StartCapture,*)
(*                                              StartRefund)               *)
(*   the call to the gateway                   (Authorize, CaptureAtPsp,   *)
(*                                              RefundAtPsp)               *)
(*   one transaction: UPDATE and outbox INSERT (Save)                      *)
(* and may be cut off before or after any of them (Abort): a gateway       *)
(* error, a database error, a timeout, a crash.  The UPDATE compares       *)
(* nothing with what FindByID read, so copies may be saved over each other.*)
(***************************************************************************)
EXTENDS Payment, Sequences

CONSTANTS
    Payments,        \* the identifiers uuid.New may hand out
    NoPayment,       \* what an idle worker works on
    ApiWorkers,      \* concurrent HTTP handlers of capture and refund
    Consumers,       \* concurrent consumers of payment.created
    RefundRequests,  \* the amounts a merchant may ask to refund
    SerialClient,    \* TRUE: one capture or refund at a time per payment
    Faults,          \* TRUE: an operation may be cut off
    MaxRequests      \* bound on the operations started

ASSUME WorkersAssumption == ApiWorkers \intersect Consumers = {}
ASSUME NoPaymentAssumption == NoPayment \notin Payments
ASSUME RequestsAssumption == RefundRequests \subseteq Int /\ MaxRequests \in Nat
ASSUME SwitchesAssumption == SerialClient \in BOOLEAN /\ Faults \in BOOLEAN

VARIABLES
    db,        \* the payments table
    outbox,    \* the outbox rows of each payment, in commit order
    psp,       \* what the PSP has done for each payment
    op,        \* the operation each worker is in the middle of
    requests,  \* operations started so far
    disturbed  \* payments on which operations overlapped, or one was cut off
               \* between its call to the PSP and its transaction

vars == <<db, outbox, psp, op, requests, disturbed>>

Workers == ApiWorkers \union Consumers

EventTypes ==
    {"payment.created", "payment.authorized", "payment.completed",
     "payment.failed", "payment.refunded"}

Event == [type : EventTypes, status : Statuses]

Stages == {"idle", "authorizing", "capturing", "refunding", "saving"}

Idle == [stage |-> "idle", pay |-> NoPayment, row |-> Absent, amount |-> 0,
         type |-> "none"]

Operation ==
    [stage : Stages, pay : Payments \union {NoPayment}, row : Row,
     amount : Nat, type : EventTypes \union {"none"}]

PspAccount == [auths : Nat, captures : Nat, refunded : Nat]

TypeOK ==
    /\ db \in [Payments -> Row]
    /\ outbox \in [Payments -> Seq(Event)]
    /\ psp \in [Payments -> PspAccount]
    /\ op \in [Workers -> Operation]
    /\ requests \in 0 .. MaxRequests
    /\ disturbed \in SUBSET Payments

Init ==
    /\ db = [p \in Payments |-> Absent]
    /\ outbox = [p \in Payments |-> << >>]
    /\ psp = [p \in Payments |-> [auths |-> 0, captures |-> 0, refunded |-> 0]]
    /\ op = [w \in Workers |-> Idle]
    /\ requests = 0
    /\ disturbed = {}

-----------------------------------------------------------------------------

\* buildPaymentEvent: the payload carries the status of the copy.
EventOf(type, row) == [type |-> type, status |-> row.status]

\* CreatePayment.Execute: the row and payment.created in one transaction.
CreatePayment(p) ==
    /\ db[p].status = "absent"
    /\ \E amount \in Amounts, method \in CaptureMethods :
         LET row == NewPayment(amount, method) IN
         /\ db' = [db EXCEPT ![p] = row]
         /\ outbox' = [outbox EXCEPT
                         ![p] = Append(@, EventOf("payment.created", row))]
    /\ UNCHANGED <<psp, op, requests, disturbed>>

\* An operation that may still save its copy: a consumer with a copy that is
\* not pending calls the PSP, and then gives up.
Live(o) ==
    /\ o.stage # "idle"
    /\ o.stage = "authorizing" => CanLeavePending(o.row)

LiveOn(p) == {w \in Workers : Live(op[w]) /\ op[w].pay = p}

\* A worker takes on an operation: its copy of the row, as it will be saved.
Begin(w, p, stage, row, amount, type) ==
    /\ op[w].stage = "idle"
    /\ requests < MaxRequests
    /\ requests' = requests + 1
    /\ op' = [op EXCEPT ![w] = [stage |-> stage, pay |-> p, row |-> row,
                                amount |-> amount, type |-> type]]
    /\ disturbed' = IF Live(op'[w]) /\ LiveOn(p) # {}
                    THEN disturbed \union {p} ELSE disturbed
    /\ UNCHANGED <<db, outbox, psp>>

\* No other handler works on p, when the merchant sends one request at a time.
ClientMayAsk(p) == SerialClient => \A w \in ApiWorkers : op[w].pay # p

\* ProcessPayment.Execute up to the gateway call.  payment.created may be
\* delivered any number of times; the status is not looked at yet.
StartProcess(c, p) ==
    /\ db[p].status # "absent"
    /\ Begin(c, p, "authorizing", db[p], 0, "none")

\* CapturePayment.Execute up to the gateway call.
StartCapture(w, p) ==
    /\ ClientMayAsk(p)
    /\ CanCapture(db[p])
    /\ Begin(w, p, "capturing", Captured(db[p]), 0, "payment.completed")

\* Mutant of StartRefund: the refund is saved without a call to the PSP.
StartRefundUnpaid(w, p) ==
    /\ ClientMayAsk(p)
    /\ \E request \in RefundRequests :
         LET amount == IF request <= 0 THEN RefundableAmount(db[p]) ELSE request
         IN  /\ CanRefund(db[p], amount)
             /\ Begin(w, p, "saving", Refunded(db[p], amount), amount,
                      "payment.refunded")

\* RefundPayment.Execute up to the gateway call: an amount that is not
\* positive stands for the whole balance.
StartRefund(w, p) ==
    /\ ClientMayAsk(p)
    /\ \E request \in RefundRequests :
         LET amount == IF request <= 0 THEN RefundableAmount(db[p]) ELSE request
         IN  /\ CanRefund(db[p], amount)
             /\ Begin(w, p, "refunding", Refunded(db[p], amount), amount,
                      "payment.refunded")

-----------------------------------------------------------------------------

\* MockGateway.Authorize approves even amounts and declines odd ones.
Approved(row) == row.amount % 2 = 0

\* Mutant of Decided: the capture methods are swapped.
DecidedSwapped(o) ==
    CASE ~Approved(o.row) ->
           [o EXCEPT !.row = Fail(@), !.type = "payment.failed"]
      [] Approved(o.row) /\ o.row.method = "automatic" ->
           [o EXCEPT !.row = MarkAuthorized(@), !.type = "payment.authorized"]
      [] Approved(o.row) /\ o.row.method = "manual" ->
           [o EXCEPT !.row = Complete(@), !.type = "payment.completed"]

\* applyOutcome: what becomes of the copy, and of the event, once the PSP has
\* answered.
Decided(o) ==
    CASE ~Approved(o.row) ->
           [o EXCEPT !.row = Fail(@), !.type = "payment.failed"]
      [] Approved(o.row) /\ o.row.method = "manual" ->
           [o EXCEPT !.row = MarkAuthorized(@), !.type = "payment.authorized"]
      [] Approved(o.row) /\ o.row.method = "automatic" ->
           [o EXCEPT !.row = Complete(@), !.type = "payment.completed"]

\* The PSP decides first; only then does the entity refuse a copy that was
\* not pending, and the operation ends with ErrInvalidTransition.
Authorize(c) ==
    /\ op[c].stage = "authorizing"
    /\ psp' = [psp EXCEPT ![op[c].pay].auths =
                 IF Approved(op[c].row) THEN @ + 1 ELSE @]
    /\ op' = [op EXCEPT ![c] =
                IF CanLeavePending(op[c].row)
                THEN [Decided(op[c]) EXCEPT !.stage = "saving"]
                ELSE Idle]
    /\ UNCHANGED <<db, outbox, requests, disturbed>>

CaptureAtPsp(w) ==
    /\ op[w].stage = "capturing"
    /\ psp' = [psp EXCEPT ![op[w].pay].captures = @ + 1]
    /\ op' = [op EXCEPT ![w].stage = "saving"]
    /\ UNCHANGED <<db, outbox, requests, disturbed>>

\* Mutant of RefundAtPsp: the whole amount goes back.
RefundAtPspWhole(w) ==
    /\ op[w].stage = "refunding"
    /\ psp' = [psp EXCEPT ![op[w].pay].refunded = @ + op[w].row.amount]
    /\ op' = [op EXCEPT ![w].stage = "saving"]
    /\ UNCHANGED <<db, outbox, requests, disturbed>>

RefundAtPsp(w) ==
    /\ op[w].stage = "refunding"
    /\ psp' = [psp EXCEPT ![op[w].pay].refunded = @ + op[w].amount]
    /\ op' = [op EXCEPT ![w].stage = "saving"]
    /\ UNCHANGED <<db, outbox, requests, disturbed>>

\* Mutant of Save: the event is not in the transaction and is lost.
SaveWithoutEvent(w) ==
    /\ op[w].stage = "saving"
    /\ db' = [db EXCEPT ![op[w].pay] = op[w].row]
    /\ op' = [op EXCEPT ![w] = Idle]
    /\ UNCHANGED <<outbox, psp, requests, disturbed>>

\* The transaction at the end of every use case: UPDATE ... WHERE id = $1 of
\* the whole row, whatever the table holds by now, and the event.
Save(w) ==
    /\ op[w].stage = "saving"
    /\ db' = [db EXCEPT ![op[w].pay] = op[w].row]
    /\ outbox' = [outbox EXCEPT
                    ![op[w].pay] = Append(@, EventOf(op[w].type, op[w].row))]
    /\ op' = [op EXCEPT ![w] = Idle]
    /\ UNCHANGED <<psp, requests, disturbed>>

\* The operation ends without saving: the gateway or the transaction failed,
\* or the process died.  What the PSP has done stays done.
Abort(w) ==
    /\ Faults
    /\ op[w].stage # "idle"
    /\ op' = [op EXCEPT ![w] = Idle]
    /\ disturbed' = IF w \in ApiWorkers /\ op[w].stage = "saving"
                    THEN disturbed \union {op[w].pay} ELSE disturbed
    /\ UNCHANGED <<db, outbox, psp, requests>>

Next ==
    \/ \E p \in Payments : CreatePayment(p)
    \/ \E c \in Consumers, p \in Payments : StartProcess(c, p)
    \/ \E w \in ApiWorkers, p \in Payments : StartCapture(w, p)
    \/ \E w \in ApiWorkers, p \in Payments : StartRefund(w, p)
    \/ \E c \in Consumers : Authorize(c)
    \/ \E w \in ApiWorkers : CaptureAtPsp(w)
    \/ \E w \in ApiWorkers : RefundAtPsp(w)
    \/ \E w \in Workers : Save(w)
    \/ \E w \in Workers : Abort(w)

Spec == Init /\ [][Next]_vars

-----------------------------------------------------------------------------
(***************************************************************************)
(* Whatever overlaps, fails or is delivered again.                         *)
(***************************************************************************)

\* A row's status always agrees with how much of it has been refunded, also
\* when a stale copy is saved over it (Payment.Refund,
\* PaymentRepository.Update).
RowsConsistent == \A p \in Payments : Consistent(db[p])

\* What the PSP must have done before a row may be written: approved an
\* authorized or settled payment, captured a settled one with manual capture,
\* and given back all that the row records as refunded.
Covered(row, account) ==
    /\ row.status \in Settled \union {"authorized"} => account.auths > 0
    /\ row.status \in Settled /\ row.method = "manual" => account.captures > 0
    /\ row.refunded <= account.refunded

\* The table never claims anything the PSP has not done: every use case calls
\* the gateway before its transaction, and a lost update only loses claims.
LedgerBehindPsp == \A p \in Payments : Covered(db[p], psp[p])

\* The account of a payment once the gateway call that o is about to make has
\* returned.
AccountAfter(o, account) ==
    [auths |-> account.auths,
     captures |-> account.captures + IF o.stage = "capturing" THEN 1 ELSE 0,
     refunded |-> account.refunded
                    + IF o.stage = "refunding" THEN o.amount ELSE 0]

\* An operation whose copy may be saved after its gateway call.
MayBeSaved(o, account) ==
    /\ o.row.status \in Statuses
    /\ o.stage # "authorizing" => o.type \in EventTypes
    /\ Consistent(o.row)
    /\ Covered(o.row, AccountAfter(o, account))

\* What keeps LedgerBehindPsp: each copy in flight will be covered by the time
\* it is saved, whatever the other workers do in the meantime.
InFlightCovered ==
    \A w \in Workers :
        op[w].stage # "idle" =>
            op[w].pay \in Payments /\ MayBeSaved(op[w], psp[op[w].pay])

\* The row and its event are saved in one transaction (TxManager.WithinTx):
\* the last event of a payment carries the status the table shows, and there
\* are no events without a payment nor a payment without events.
OutboxMirrorsTable ==
    \A p \in Payments :
        IF outbox[p] = << >>
        THEN db[p].status = "absent"
        ELSE outbox[p][Len(outbox[p])].status = db[p].status

\* What a subscriber of the events relies on: payment.created comes first and
\* only once, and no payment is refunded before an event said it was completed.
EventsInOrder ==
    \A p \in Payments : \A i \in 1 .. Len(outbox[p]) :
        /\ outbox[p][i].type = "payment.created" <=> i = 1
        /\ outbox[p][i].type = "payment.refunded" =>
              \E j \in 1 .. i - 1 : outbox[p][j].type = "payment.completed"

\* The claim of RefundPayment, which checks the balance before it calls the
\* gateway: the PSP never gives back more than was charged.
RefundsWithinAmount ==
    \A p \in Payments : psp[p].refunded <= db[p].amount

\* What becomes of the claim: the PSP gives back more than was charged only for
\* a payment on which two operations overlapped, or a capture or refund was cut
\* off behind its call to the PSP.  Nothing else does it: not payment.created
\* delivered again, not a gateway that fails, not an operation cut off anywhere
\* else, nor what happens to other payments.
OverRefundsNeedDisturbance ==
    \A p \in Payments \ disturbed : psp[p].refunded <= db[p].amount

NobodyWorksOn(p) == \A w \in Workers : op[w].pay # p

\* And only on such a payment do the table and the PSP disagree about refunds
\* or captures once nobody is in the middle of an operation on it: a repeat of
\* the request then sees what the PSP has done.
LedgerReconciles ==
    \A p \in Payments \ disturbed :
        NobodyWorksOn(p) =>
            /\ psp[p].refunded = db[p].refunded
            /\ psp[p].captures =
                 IF db[p].status \in Settled /\ db[p].method = "manual"
                 THEN 1 ELSE 0

-----------------------------------------------------------------------------
(***************************************************************************)
(* When the merchant sends one capture or refund at a time per payment and *)
(* one consumer handles payment.created.                                   *)
(***************************************************************************)

Diagram == INSTANCE PaymentStates WITH payments <- db

\* The rows move along the arrows of the README's state diagram, each arrow
\* from the row the table holds and not from a copy of an older one.
FollowsDiagram == Diagram!Spec

\* A row one capture or one refund away from the row the table holds now.
FreshRequest(row, current) ==
    \/ /\ CanCapture(current)
       /\ row = Captured(current)
    \/ \E amount \in 1 .. RefundableAmount(current) :
         /\ CanRefund(current, amount)
         /\ row = Refunded(current, amount)

\* A row one decision of the PSP away from the row the table holds now.
FreshDecision(row, current) ==
    /\ CanLeavePending(current)
    /\ \/ row = Fail(current)
       \/ current.method = "manual" /\ row = MarkAuthorized(current)
       \/ current.method = "automatic" /\ row = Complete(current)

\* No copy is stale when it matters, although no UPDATE checks it: nobody else
\* changes the row between the SELECT of an operation and its transaction.
InFlightFresh ==
    /\ \A w \in ApiWorkers : op[w].stage # "idle" =>
         FreshRequest(op[w].row, db[op[w].pay])
    /\ \A c \in Consumers :
         /\ op[c].stage = "authorizing" /\ CanLeavePending(op[c].row)
              => op[c].row = db[op[c].pay]
         /\ op[c].stage = "saving" => FreshDecision(op[c].row, db[op[c].pay])
=============================================================================
