---------------------------- MODULE PaymentStates ----------------------------
(***************************************************************************)
(* What the payment service promises about a payment: the state diagram of *)
(* the README, with the conditions the entity puts on each arrow, applied  *)
(* to one payment at a time and with nothing in between.  There is no PSP, *)
(* no worker and no copy of a row here.  PaymentLifecycle implements it as *)
(* long as the operations on one payment do not overlap.                   *)
(***************************************************************************)
EXTENDS Payment

CONSTANT Payments      \* the identifiers uuid.New may hand out

VARIABLE payments      \* the row of each payment

Init == payments = [p \in Payments |-> Absent]

Create(p) ==
    /\ payments[p].status = "absent"
    /\ \E amount \in Amounts, method \in CaptureMethods :
         payments' = [payments EXCEPT ![p] = NewPayment(amount, method)]

\* The answer of the PSP: approved, with either capture method, or declined.
Decide(p) ==
    /\ CanLeavePending(payments[p])
    /\ \/ /\ payments[p].method = "manual"
          /\ payments' = [payments EXCEPT ![p] = MarkAuthorized(payments[p])]
       \/ /\ payments[p].method = "automatic"
          /\ payments' = [payments EXCEPT ![p] = Complete(payments[p])]
       \/ payments' = [payments EXCEPT ![p] = Fail(payments[p])]

Capture(p) ==
    /\ CanCapture(payments[p])
    /\ payments' = [payments EXCEPT ![p] = Captured(payments[p])]

Refund(p) ==
    \E amount \in 1 .. RefundableAmount(payments[p]) :
        /\ CanRefund(payments[p], amount)
        /\ payments' = [payments EXCEPT ![p] = Refunded(payments[p], amount)]

Next == \E p \in Payments : Create(p) \/ Decide(p) \/ Capture(p) \/ Refund(p)

Spec == Init /\ [][Next]_payments
=============================================================================
