------------------------------- MODULE Payment -------------------------------
(***************************************************************************)
(* The payment entity (internal/domain/payment): the statuses, one row of  *)
(* the payments table and the transitions the entity accepts.  Operators   *)
(* only, no variables: PaymentStates and PaymentLifecycle build on them.   *)
(*                                                                         *)
(* Every transition of the entity is a pair: Can...(row) is the condition  *)
(* under which the method returns no error, and the operator of the        *)
(* method's name is the row it leaves behind.                              *)
(*                                                                         *)
(* Currency, installments and the creation time never change after New and *)
(* no transition reads them: they are left out.                            *)
(***************************************************************************)
EXTENDS Integers

CONSTANT
    Amounts     \* the amounts a merchant may charge, in cents

\* NewMoney refuses an amount that is not positive.
ASSUME AmountsAssumption == Amounts \subseteq Nat \ {0}

Statuses ==
    {"pending", "authorized", "completed", "failed",
     "partially_refunded", "refunded"}

CaptureMethods == {"automatic", "manual"}

\* A payment that is not in the table yet.
Absent == [status |-> "absent", method |-> "automatic",
           amount |-> 0, refunded |-> 0]

Row == [status : Statuses \union {"absent"}, method : CaptureMethods,
        amount : Nat, refunded : Nat]

\* Statuses in which the money has been settled, at least in part.
Settled == {"completed", "partially_refunded", "refunded"}

-----------------------------------------------------------------------------

NewPayment(amount, method) ==
    [status |-> "pending", method |-> method, amount |-> amount,
     refunded |-> 0]

CanLeavePending(row) == row.status = "pending"

MarkAuthorized(row) == [row EXCEPT !.status = "authorized"]

\* Mutant of Complete: a status the enumeration does not have.
CompleteMisspelt(row) == [row EXCEPT !.status = "captured"]

Complete(row) == [row EXCEPT !.status = "completed"]

Fail(row) == [row EXCEPT !.status = "failed"]

CanCapture(row) == row.status = "authorized"

Captured(row) == [row EXCEPT !.status = "completed"]

\* Mutant of RefundableAmount: earlier refunds are forgotten.
RefundableAmountGross(row) == row.amount

RefundableAmount(row) == row.amount - row.refunded

\* Mutant of CanRefund: the balance is not checked.
CanRefundUnlimited(row, amount) ==
    /\ row.status \in {"completed", "partially_refunded"}
    /\ amount > 0

\* Mutant of CanRefund: an authorized payment may be refunded.
CanRefundAuthorized(row, amount) ==
    /\ row.status \in {"authorized", "completed", "partially_refunded"}
    /\ amount > 0
    /\ amount <= RefundableAmount(row)

CanRefund(row, amount) ==
    /\ row.status \in {"completed", "partially_refunded"}
    /\ amount > 0
    /\ amount <= RefundableAmount(row)

Refunded(row, amount) ==
    [row EXCEPT
        !.refunded = @ + amount,
        !.status = IF row.refunded + amount = row.amount
                   THEN "refunded" ELSE "partially_refunded"]

\* A row whose status agrees with how much of it has been refunded.
Consistent(row) ==
    /\ row.refunded <= row.amount
    /\ row.status = "refunded" <=> (row.refunded = row.amount /\ row.amount > 0)
    /\ row.status = "partially_refunded" <=>
         row.refunded \in 1 .. row.amount - 1
=============================================================================
