------------------------ MODULE PaymentLifecycleProofs ------------------------
(***************************************************************************)
(* Proofs about PaymentLifecycle, for any number of payments, workers and  *)
(* amounts, any interleaving, and operations cut off anywhere.             *)
(*                                                                         *)
(* The inductive invariant IInv adds to what the table must satisfy the    *)
(* same of every copy in flight (InFlightCovered): Save copies a row into  *)
(* the table blindly, so what holds of the table is what held of the copy. *)
(*                                                                         *)
(* Under a serial client the use cases implement PaymentStates (Refinement *)
(* and what follows it, with the invariant RInv).  What is proved about    *)
(* the money (MoneyInv) needs no assumption: it names the payments on      *)
(* which table and PSP may come apart.                                     *)
(***************************************************************************)
EXTENDS PaymentLifecycle, TLAPS

IInv ==
    /\ TypeOK
    /\ RowsConsistent
    /\ LedgerBehindPsp
    /\ InFlightCovered

-----------------------------------------------------------------------------
(***************************************************************************)
(* The transitions of the entity.                                          *)
(***************************************************************************)

\* A new payment is a well-formed row and consistent (NewWithOptions).
LEMMA NewPaymentConsistent ==
    ASSUME NEW amount \in Amounts, NEW method \in CaptureMethods
    PROVE  /\ NewPayment(amount, method) \in Row
           /\ NewPayment(amount, method).status = "pending"
           /\ NewPayment(amount, method).refunded = 0
           /\ Consistent(NewPayment(amount, method))
BY AmountsAssumption DEF NewPayment, Row, Statuses, Consistent

\* A pending or authorized row that is consistent has had no refund.
LEMMA UnsettledNotRefunded ==
    ASSUME NEW row \in Row, Consistent(row), row.amount > 0,
           row.status \notin {"partially_refunded", "refunded"}
    PROVE  row.refunded = 0
BY DEF Row, Consistent

\* Capturing keeps a row consistent (Payment.Capture).
LEMMA CapturedConsistent ==
    ASSUME NEW row \in Row, Consistent(row), CanCapture(row)
    PROVE  /\ Captured(row) \in Row
           /\ Captured(row).status = "completed"
           /\ Captured(row).method = row.method
           /\ Captured(row).refunded = row.refunded
           /\ Consistent(Captured(row))
BY DEF Captured, CanCapture, Row, Statuses, Consistent

\* A refund the entity accepts keeps a row consistent: it never passes the
\* amount, and the status says whether it reached it (Payment.Refund).
LEMMA RefundedConsistent ==
    ASSUME NEW row \in Row, Consistent(row), NEW amount \in Int,
           CanRefund(row, amount)
    PROVE  /\ amount \in Nat
           /\ Refunded(row, amount) \in Row
           /\ Refunded(row, amount).status \in
                {"partially_refunded", "refunded"}
           /\ Refunded(row, amount).method = row.method
           /\ Refunded(row, amount).refunded = row.refunded + amount
           /\ Consistent(Refunded(row, amount))
<1> DEFINE total == row.refunded + amount
<1>1. /\ row.amount \in Nat /\ row.refunded \in Nat
      /\ amount \in Nat /\ total \in Nat
      /\ 0 < total /\ total <= row.amount
  BY DEF CanRefund, RefundableAmount, Row
<1>2. /\ Refunded(row, amount) \in Row
      /\ Refunded(row, amount).method = row.method
      /\ Refunded(row, amount).amount = row.amount
      /\ Refunded(row, amount).refunded = total
      /\ Refunded(row, amount).status =
           IF total = row.amount THEN "refunded" ELSE "partially_refunded"
  BY <1>1 DEF Refunded, Row, Statuses
<1> QED
  BY <1>1, <1>2 DEF Consistent

\* What the PSP decides about a pending copy: the copy stays consistent, its
\* refunds and method do not change, and it only becomes authorized or settled
\* when the PSP approved (applyOutcome).
LEMMA DecidedConsistent ==
    ASSUME NEW o \in Operation, Consistent(o.row), CanLeavePending(o.row)
    PROVE  /\ Decided(o) \in Operation
           /\ Decided(o).pay = o.pay
           /\ Decided(o).amount = o.amount
           /\ Decided(o).type \in EventTypes
           /\ Decided(o).row.status \in {"authorized", "completed", "failed"}
           /\ Decided(o).row.status # "failed" => Approved(o.row)
           /\ Decided(o).row.status = "completed" => o.row.method = "automatic"
           /\ Decided(o).row.status = "authorized" => o.row.method = "manual"
           /\ Decided(o).row.method = o.row.method
           /\ Decided(o).row.amount = o.row.amount
           /\ Decided(o).row.refunded = o.row.refunded
           /\ Consistent(Decided(o).row)
<1> USE DEF Operation, Row, Statuses, EventTypes, CaptureMethods, Stages,
            CanLeavePending, Consistent
<1>1. CASE ~Approved(o.row)
  BY <1>1 DEF Decided, Fail
<1>2. CASE Approved(o.row) /\ o.row.method = "manual"
  BY <1>2 DEF Decided, MarkAuthorized
<1>3. CASE Approved(o.row) /\ o.row.method = "automatic"
  BY <1>3 DEF Decided, Complete
<1> QED
  BY <1>1, <1>2, <1>3

\* What covers a row keeps covering it as the PSP does more.
LEMMA CoveredMonotone ==
    ASSUME NEW row \in Row, NEW a \in PspAccount, NEW b \in PspAccount,
           Covered(row, a),
           a.auths <= b.auths, a.captures <= b.captures,
           a.refunded <= b.refunded
    PROVE  Covered(row, b)
BY DEF Covered, PspAccount, Row

-----------------------------------------------------------------------------
(***************************************************************************)
(* The steps that move one operation along.                                *)
(***************************************************************************)

\* What account b shows beyond account a is only more work done by the PSP.
AtLeast(a, b) ==
    a.auths <= b.auths /\ a.captures <= b.captures /\ a.refunded <= b.refunded

\* An operation that may be saved still may after the PSP has done more.
LEMMA MayBeSavedMonotone ==
    ASSUME NEW o \in Operation, NEW a \in PspAccount, NEW b \in PspAccount,
           MayBeSaved(o, a), AtLeast(a, b)
    PROVE  MayBeSaved(o, b)
<1>1. /\ AccountAfter(o, a) \in PspAccount
      /\ AccountAfter(o, b) \in PspAccount
      /\ AtLeast(AccountAfter(o, a), AccountAfter(o, b))
  BY DEF AccountAfter, PspAccount, AtLeast, Operation
<1>2. o.row \in Row
  BY DEF Operation
<1> QED
  BY <1>1, <1>2, CoveredMonotone DEF MayBeSaved, AtLeast

\* A step that gives one worker a new operation which may be saved, while the
\* PSP only does more and the table stays as it is, keeps IInv.
LEMMA MovePreserves ==
    ASSUME IInv, NEW w \in Workers, NEW o \in Operation,
           op' = [op EXCEPT ![w] = o],
           psp' \in [Payments -> PspAccount],
           \A p \in Payments : AtLeast(psp[p], psp'[p]),
           o.stage # "idle" => o.pay \in Payments /\ MayBeSaved(o, psp'[o.pay]),
           requests' \in 0 .. MaxRequests, disturbed' \in SUBSET Payments,
           UNCHANGED <<db, outbox>>
    PROVE  IInv'
<1>1. TypeOK'
  BY DEF IInv, TypeOK
<1>2. RowsConsistent'
  BY DEF IInv, RowsConsistent
<1>3. LedgerBehindPsp'
  <2> SUFFICES ASSUME NEW p \in Payments
               PROVE  Covered(db[p], psp'[p])
    BY DEF LedgerBehindPsp
  <2>1. /\ db[p] \in Row /\ psp[p] \in PspAccount /\ psp'[p] \in PspAccount
        /\ Covered(db[p], psp[p]) /\ AtLeast(psp[p], psp'[p])
    BY DEF IInv, TypeOK, LedgerBehindPsp
  <2> QED
    BY <2>1, CoveredMonotone DEF AtLeast
<1>4. InFlightCovered'
  <2> SUFFICES ASSUME NEW v \in Workers, op'[v].stage # "idle"
               PROVE  /\ op'[v].pay \in Payments
                      /\ MayBeSaved(op'[v], psp'[op'[v].pay])
    BY DEF InFlightCovered
  <2>1. CASE v = w
    BY <2>1 DEF IInv, TypeOK
  <2>2. CASE v # w
    <3>1. /\ op'[v] = op[v] /\ op[v] \in Operation /\ op[v].pay \in Payments
          /\ MayBeSaved(op[v], psp[op[v].pay])
      BY <2>2 DEF IInv, TypeOK, InFlightCovered
    <3>2. /\ psp[op[v].pay] \in PspAccount /\ psp'[op[v].pay] \in PspAccount
          /\ AtLeast(psp[op[v].pay], psp'[op[v].pay])
      BY <3>1 DEF IInv, TypeOK
    <3> QED
      BY <3>1, <3>2, MayBeSavedMonotone
  <2> QED
    BY <2>1, <2>2
<1> QED
  BY <1>1, <1>2, <1>3, <1>4 DEF IInv

\* Beginning an operation whose copy may be saved keeps IInv.
LEMMA BeginPreserves ==
    ASSUME IInv, NEW w \in Workers, NEW p \in Payments,
           NEW stage \in Stages, NEW row \in Row, NEW amount \in Nat,
           NEW type \in EventTypes \union {"none"},
           Begin(w, p, stage, row, amount, type),
           MayBeSaved([stage |-> stage, pay |-> p, row |-> row,
                       amount |-> amount, type |-> type], psp[p])
    PROVE  IInv'
<1> DEFINE o == [stage |-> stage, pay |-> p, row |-> row, amount |-> amount,
                 type |-> type]
<1>1. o \in Operation /\ o.pay = p
  BY DEF Operation
<1>2. op' = [op EXCEPT ![w] = o] /\ UNCHANGED <<db, outbox, psp>>
  BY DEF Begin
<1>3. requests' \in 0 .. MaxRequests /\ disturbed' \in SUBSET Payments
  BY RequestsAssumption DEF IInv, TypeOK, Begin
<1>4. /\ psp' \in [Payments -> PspAccount]
      /\ \A q \in Payments : AtLeast(psp[q], psp'[q])
  BY <1>2 DEF IInv, TypeOK, AtLeast, PspAccount
<1>5. MayBeSaved(o, psp'[p])
  BY <1>2
<1> HIDE DEF o
<1> QED
  BY <1>1, <1>2, <1>3, <1>4, <1>5, MovePreserves

\* An idle worker is well-typed.
LEMMA IdleTyped == Idle \in Operation /\ Idle.stage = "idle"
BY DEF Idle, Operation, Stages, Absent, Row, CaptureMethods
\* A gateway call only adds to the account.
LEMMA AccountGrows ==
    ASSUME NEW o \in Operation, NEW a \in PspAccount
    PROVE  /\ AccountAfter(o, a) \in PspAccount
           /\ AtLeast(a, AccountAfter(o, a))
BY DEF AccountAfter, PspAccount, AtLeast, Operation

-----------------------------------------------------------------------------
(***************************************************************************)
(* One lemma per action.                                                   *)
(***************************************************************************)

LEMMA CreatePreserves ==
    ASSUME IInv, NEW p \in Payments, CreatePayment(p)
    PROVE  IInv'
<1>1. PICK amount \in Amounts, method \in CaptureMethods :
        LET row == NewPayment(amount, method) IN
        /\ db' = [db EXCEPT ![p] = row]
        /\ outbox' = [outbox EXCEPT
                        ![p] = Append(@, EventOf("payment.created", row))]
  BY DEF CreatePayment
<1> DEFINE row == NewPayment(amount, method)
<1>2. /\ row \in Row /\ row.status = "pending" /\ row.refunded = 0
      /\ Consistent(row)
  BY NewPaymentConsistent
<1> HIDE DEF row
<1>3. EventOf("payment.created", row) \in Event
  BY <1>2 DEF EventOf, Event, EventTypes, Statuses
<1>4. /\ db' = [db EXCEPT ![p] = row]
      /\ outbox' = [outbox EXCEPT
                      ![p] = Append(@, EventOf("payment.created", row))]
      /\ UNCHANGED <<psp, op, requests, disturbed>>
  BY <1>1 DEF row, CreatePayment
<1>5. TypeOK'
  BY <1>2, <1>3, <1>4 DEF IInv, TypeOK
<1>6. RowsConsistent'
  BY <1>2, <1>4 DEF IInv, TypeOK, RowsConsistent
<1>7. Covered(row, psp[p])
  BY <1>2 DEF IInv, TypeOK, Covered, Settled, PspAccount
<1>8. LedgerBehindPsp'
  BY <1>4, <1>7 DEF IInv, TypeOK, LedgerBehindPsp
<1>9. InFlightCovered'
  BY <1>4 DEF IInv, InFlightCovered
<1> QED
  BY <1>5, <1>6, <1>8, <1>9 DEF IInv

LEMMA StartProcessPreserves ==
    ASSUME IInv, NEW c \in Consumers, NEW p \in Payments, StartProcess(c, p)
    PROVE  IInv'
<1> DEFINE o == [stage |-> "authorizing", pay |-> p, row |-> db[p],
                 amount |-> 0, type |-> "none"]
<1>1. /\ c \in Workers /\ db[p] \in Row /\ psp[p] \in PspAccount
      /\ db[p].status \in Statuses /\ Consistent(db[p])
      /\ Covered(db[p], psp[p])
  BY DEF IInv, TypeOK, Workers, RowsConsistent, LedgerBehindPsp, StartProcess,
         Row
<1>2. o \in Operation
  BY <1>1 DEF Operation, Stages
<1>3. AccountAfter(o, psp[p]) \in PspAccount
      /\ AtLeast(psp[p], AccountAfter(o, psp[p]))
  BY <1>1, <1>2, AccountGrows
<1>4. Covered(db[p], AccountAfter(o, psp[p]))
  BY <1>1, <1>3, CoveredMonotone DEF AtLeast
<1>5. MayBeSaved(o, psp[p])
  BY <1>1, <1>4 DEF MayBeSaved
<1> QED
  BY <1>1, <1>5, BeginPreserves DEF StartProcess, Stages

LEMMA StartCapturePreserves ==
    ASSUME IInv, NEW w \in ApiWorkers, NEW p \in Payments, StartCapture(w, p)
    PROVE  IInv'
<1> DEFINE row == Captured(db[p])
           o == [stage |-> "capturing", pay |-> p, row |-> row,
                 amount |-> 0, type |-> "payment.completed"]
<1>1. /\ w \in Workers /\ db[p] \in Row /\ psp[p] \in PspAccount
      /\ CanCapture(db[p]) /\ Consistent(db[p]) /\ Covered(db[p], psp[p])
  BY DEF IInv, TypeOK, Workers, RowsConsistent, LedgerBehindPsp, StartCapture
<1>2. /\ row \in Row /\ row.status = "completed" /\ Consistent(row)
      /\ row.refunded = db[p].refunded
  BY <1>1, CapturedConsistent
<1>3. AccountAfter(o, psp[p]) =
        [auths |-> psp[p].auths, captures |-> psp[p].captures + 1,
         refunded |-> psp[p].refunded]
  BY <1>1 DEF AccountAfter, PspAccount
<1>4. psp[p].auths > 0 /\ db[p].refunded <= psp[p].refunded
  BY <1>1 DEF Covered, CanCapture
<1> HIDE DEF row
<1>5. Covered(row, AccountAfter(o, psp[p]))
  BY <1>1, <1>2, <1>3, <1>4 DEF Covered, PspAccount
<1>6. MayBeSaved(o, psp[p])
  BY <1>2, <1>5 DEF MayBeSaved, Statuses, EventTypes
<1> QED
  BY <1>1, <1>2, <1>6, BeginPreserves
  DEF StartCapture, Stages, EventTypes, row

LEMMA StartRefundPreserves ==
    ASSUME IInv, NEW w \in ApiWorkers, NEW p \in Payments, StartRefund(w, p)
    PROVE  IInv'
<1>1. /\ w \in Workers /\ db[p] \in Row /\ psp[p] \in PspAccount
      /\ Consistent(db[p]) /\ Covered(db[p], psp[p])
  BY DEF IInv, TypeOK, Workers, RowsConsistent, LedgerBehindPsp
<1>2. PICK amount \in Int :
        /\ CanRefund(db[p], amount)
        /\ Begin(w, p, "refunding", Refunded(db[p], amount), amount,
                 "payment.refunded")
  BY <1>1, RequestsAssumption DEF StartRefund, Row, RefundableAmount
<1> DEFINE row == Refunded(db[p], amount)
           o == [stage |-> "refunding", pay |-> p, row |-> row,
                 amount |-> amount, type |-> "payment.refunded"]
<1>3. /\ amount \in Nat /\ row \in Row /\ Consistent(row)
      /\ row.status \in {"partially_refunded", "refunded"}
      /\ row.method = db[p].method
      /\ row.refunded = db[p].refunded + amount
  BY <1>1, <1>2, RefundedConsistent
<1>4. /\ psp[p].auths > 0
      /\ db[p].method = "manual" => psp[p].captures > 0
      /\ db[p].refunded <= psp[p].refunded
  BY <1>1, <1>2 DEF Covered, CanRefund, Settled
<1>5. Begin(w, p, "refunding", row, amount, "payment.refunded")
  BY <1>2
<1> HIDE DEF row
<1>6. Covered(row, AccountAfter(o, psp[p]))
  BY <1>1, <1>3, <1>4 DEF Covered, AccountAfter, PspAccount, Row
<1>7. MayBeSaved(o, psp[p])
  BY <1>3, <1>6 DEF MayBeSaved, Statuses, EventTypes
<1> QED
  BY <1>1, <1>3, <1>5, <1>7, BeginPreserves DEF Stages, EventTypes

LEMMA AuthorizePreserves ==
    ASSUME IInv, NEW c \in Consumers, Authorize(c)
    PROVE  IInv'
<1> DEFINE p == op[c].pay
           approved == IF Approved(op[c].row) THEN 1 ELSE 0
<1>1. /\ c \in Workers /\ op[c] \in Operation /\ op[c].stage = "authorizing"
      /\ p \in Payments /\ MayBeSaved(op[c], psp[p])
      /\ psp[p] \in PspAccount
  BY DEF IInv, TypeOK, Workers, InFlightCovered, Authorize
<1>2. /\ psp' \in [Payments -> PspAccount]
      /\ \A q \in Payments : AtLeast(psp[q], psp'[q])
      /\ psp'[p].auths = psp[p].auths + approved
      /\ psp'[p].captures = psp[p].captures
      /\ psp'[p].refunded = psp[p].refunded
  <2>1. psp \in [Payments -> PspAccount]
    BY DEF IInv, TypeOK
  <2>2. psp' = [psp EXCEPT ![p].auths =
                  IF Approved(op[c].row) THEN @ + 1 ELSE @]
    BY DEF Authorize
  <2> HIDE DEF p
  <2> QED
    BY <1>1, <2>1, <2>2 DEF PspAccount, AtLeast
<1>3. CASE ~CanLeavePending(op[c].row)
  <2>1. op' = [op EXCEPT ![c] = Idle]
    BY <1>3 DEF Authorize
  <2> QED
    BY <1>1, <1>2, <2>1, IdleTyped, MovePreserves DEF Authorize, IInv, TypeOK
<1>4. CASE CanLeavePending(op[c].row)
  <2> DEFINE o == [Decided(op[c]) EXCEPT !.stage = "saving"]
  <2>1. op' = [op EXCEPT ![c] = o]
    BY <1>4 DEF Authorize
  <2>2. /\ Decided(op[c]) \in Operation
        /\ Decided(op[c]).pay = p
        /\ Decided(op[c]).type \in EventTypes
        /\ Decided(op[c]).row.status \in {"authorized", "completed", "failed"}
        /\ Decided(op[c]).row.status # "failed" => Approved(op[c].row)
        /\ Decided(op[c]).row.status = "completed" =>
             op[c].row.method = "automatic"
        /\ Decided(op[c]).row.method = op[c].row.method
        /\ Decided(op[c]).row.refunded = op[c].row.refunded
        /\ Consistent(Decided(op[c]).row)
    BY <1>1, <1>4, DecidedConsistent DEF MayBeSaved
  <2>3. /\ o \in Operation /\ o.stage = "saving" /\ o.pay = p
        /\ o.row = Decided(op[c]).row /\ o.type = Decided(op[c]).type
    BY <2>2 DEF Operation, Stages
  <2> HIDE DEF o
  <2>4. op[c].row.refunded <= psp[p].refunded
    BY <1>1 DEF MayBeSaved, Covered, AccountAfter, PspAccount, Operation, Row
  <2>5. AccountAfter(o, psp'[p]) =
          [auths |-> psp[p].auths + approved, captures |-> psp[p].captures,
           refunded |-> psp[p].refunded]
    BY <1>1, <1>2, <2>3 DEF AccountAfter, PspAccount
  <2>6. Covered(o.row, AccountAfter(o, psp'[p]))
    BY <1>1, <2>2, <2>3, <2>4, <2>5 DEF Covered, Settled, PspAccount
  <2>7. MayBeSaved(o, psp'[p])
    BY <2>2, <2>3, <2>6 DEF MayBeSaved, Statuses
  <2> QED
    BY <1>1, <1>2, <2>1, <2>3, <2>7, MovePreserves DEF Authorize, IInv, TypeOK
<1> QED
  BY <1>3, <1>4
LEMMA CaptureAtPspPreserves ==
    ASSUME IInv, NEW w \in ApiWorkers, CaptureAtPsp(w)
    PROVE  IInv'
<1> DEFINE p == op[w].pay
           o == [op[w] EXCEPT !.stage = "saving"]
<1>1. /\ w \in Workers /\ op[w] \in Operation /\ op[w].stage = "capturing"
      /\ p \in Payments /\ MayBeSaved(op[w], psp[p])
      /\ psp \in [Payments -> PspAccount]
  BY DEF IInv, TypeOK, Workers, InFlightCovered, CaptureAtPsp
<1>2. /\ o \in Operation /\ o.stage = "saving" /\ o.pay = p
      /\ o.row = op[w].row /\ o.type = op[w].type
  BY <1>1 DEF Operation, Stages
<1>3. op' = [op EXCEPT ![w] = o]
  BY <1>1 DEF CaptureAtPsp, IInv, TypeOK
<1> HIDE DEF p, o
<1>4. psp' = [psp EXCEPT ![p].captures = @ + 1]
  BY DEF CaptureAtPsp, p
<1>5. /\ psp' \in [Payments -> PspAccount]
      /\ \A q \in Payments : AtLeast(psp[q], psp'[q])
      /\ psp'[p].auths = psp[p].auths
      /\ psp'[p].captures = psp[p].captures + 1
      /\ psp'[p].refunded = psp[p].refunded
  BY <1>1, <1>4 DEF PspAccount, AtLeast
<1>6. psp[p] \in PspAccount
  BY <1>1
<1>7. AccountAfter(o, psp'[p]) = AccountAfter(op[w], psp[p])
  BY <1>1, <1>2, <1>5, <1>6 DEF AccountAfter, PspAccount
<1>8. MayBeSaved(o, psp'[p])
  BY <1>1, <1>2, <1>7 DEF MayBeSaved
<1> QED
  BY <1>1, <1>2, <1>3, <1>5, <1>8, MovePreserves
  DEF CaptureAtPsp, IInv, TypeOK

LEMMA RefundAtPspPreserves ==
    ASSUME IInv, NEW w \in ApiWorkers, RefundAtPsp(w)
    PROVE  IInv'
<1> DEFINE p == op[w].pay
           o == [op[w] EXCEPT !.stage = "saving"]
<1>1. /\ w \in Workers /\ op[w] \in Operation /\ op[w].stage = "refunding"
      /\ p \in Payments /\ MayBeSaved(op[w], psp[p])
      /\ psp \in [Payments -> PspAccount] /\ op[w].amount \in Nat
  BY DEF IInv, TypeOK, Workers, InFlightCovered, RefundAtPsp, Operation
<1>2. /\ o \in Operation /\ o.stage = "saving" /\ o.pay = p
      /\ o.row = op[w].row /\ o.type = op[w].type
  BY <1>1 DEF Operation, Stages
<1>3. op' = [op EXCEPT ![w] = o]
  BY <1>1 DEF RefundAtPsp, IInv, TypeOK
<1> HIDE DEF p, o
<1>4. psp' = [psp EXCEPT ![p].refunded = @ + op[w].amount]
  BY DEF RefundAtPsp, p
<1>5. /\ psp' \in [Payments -> PspAccount]
      /\ \A q \in Payments : AtLeast(psp[q], psp'[q])
      /\ psp'[p].auths = psp[p].auths
      /\ psp'[p].captures = psp[p].captures
      /\ psp'[p].refunded = psp[p].refunded + op[w].amount
  BY <1>1, <1>4 DEF PspAccount, AtLeast
<1>6. psp[p] \in PspAccount
  BY <1>1
<1>7. AccountAfter(o, psp'[p]) = AccountAfter(op[w], psp[p])
  BY <1>1, <1>2, <1>5, <1>6 DEF AccountAfter, PspAccount
<1>8. MayBeSaved(o, psp'[p])
  BY <1>1, <1>2, <1>7 DEF MayBeSaved
<1> QED
  BY <1>1, <1>2, <1>3, <1>5, <1>8, MovePreserves
  DEF RefundAtPsp, IInv, TypeOK

LEMMA SavePreserves ==
    ASSUME IInv, NEW w \in Workers, Save(w)
    PROVE  IInv'
<1> DEFINE p == op[w].pay
           row == op[w].row
<1>1. /\ op[w] \in Operation /\ op[w].stage = "saving"
      /\ p \in Payments /\ psp[p] \in PspAccount
      /\ MayBeSaved(op[w], psp[p]) /\ row \in Row
  BY DEF IInv, TypeOK, InFlightCovered, Save, Operation
<1>2. EventOf(op[w].type, row) \in Event
  BY <1>1 DEF MayBeSaved, EventOf, Event
<1>3. Covered(row, psp[p])
  BY <1>1 DEF MayBeSaved, Covered, AccountAfter, PspAccount
<1>4. Consistent(row)
  BY <1>1 DEF MayBeSaved
<1>5. /\ db' = [db EXCEPT ![p] = row]
      /\ outbox' = [outbox EXCEPT ![p] = Append(@, EventOf(op[w].type, row))]
      /\ op' = [op EXCEPT ![w] = Idle]
      /\ UNCHANGED <<psp, requests, disturbed>>
  BY DEF Save
<1> HIDE DEF p, row
<1>6. TypeOK'
  BY <1>1, <1>2, <1>5, IdleTyped DEF IInv, TypeOK
<1>7. RowsConsistent'
  BY <1>1, <1>4, <1>5 DEF IInv, TypeOK, RowsConsistent
<1>8. LedgerBehindPsp'
  BY <1>1, <1>3, <1>5 DEF IInv, TypeOK, LedgerBehindPsp
<1>9. InFlightCovered'
  BY <1>5, IdleTyped DEF IInv, TypeOK, InFlightCovered
<1> QED
  BY <1>6, <1>7, <1>8, <1>9 DEF IInv

LEMMA AbortPreserves ==
    ASSUME IInv, NEW w \in Workers, Abort(w)
    PROVE  IInv'
<1>1. /\ psp' \in [Payments -> PspAccount]
      /\ \A p \in Payments : AtLeast(psp[p], psp'[p])
  BY DEF IInv, TypeOK, Abort, AtLeast, PspAccount
<1>2. op' = [op EXCEPT ![w] = Idle] /\ UNCHANGED <<db, outbox, requests>>
  BY DEF Abort
<1>3. disturbed' \in SUBSET Payments
  <2>1. op[w].pay \in Payments
    BY DEF Abort, IInv, InFlightCovered
  <2> QED
    BY <2>1 DEF Abort, IInv, TypeOK
<1> QED
  BY <1>1, <1>2, <1>3, IdleTyped, MovePreserves DEF IInv, TypeOK

-----------------------------------------------------------------------------
(***************************************************************************)
(* The theorems.                                                           *)
(***************************************************************************)

LEMMA InitEstablishes == Init => IInv
<1> SUFFICES ASSUME Init
             PROVE  IInv
  OBVIOUS
<1>1. Absent \in Row /\ Absent.status = "absent" /\ Absent.refunded = 0
      /\ Absent.amount = 0
  BY DEF Absent, Row, CaptureMethods
<1>2. TypeOK
  BY <1>1, IdleTyped, RequestsAssumption DEF Init, TypeOK, PspAccount
<1>3. RowsConsistent
  BY <1>1 DEF Init, RowsConsistent, Consistent
<1>4. LedgerBehindPsp
  BY <1>1 DEF Init, LedgerBehindPsp, Covered, Settled
<1>5. InFlightCovered
  BY IdleTyped DEF Init, InFlightCovered
<1> QED
  BY <1>2, <1>3, <1>4, <1>5 DEF IInv

LEMMA NextPreserves == IInv /\ [Next]_vars => IInv'
<1> SUFFICES ASSUME IInv, [Next]_vars
             PROVE  IInv'
  OBVIOUS
<1>1. CASE UNCHANGED vars
  BY <1>1 DEF vars, IInv, TypeOK, RowsConsistent, LedgerBehindPsp,
              InFlightCovered, MayBeSaved, AccountAfter
<1> QED
  BY <1>1, CreatePreserves, StartProcessPreserves, StartCapturePreserves,
     StartRefundPreserves, AuthorizePreserves, CaptureAtPspPreserves,
     RefundAtPspPreserves, SavePreserves, AbortPreserves
  DEF Next

\* IInv holds of every reachable state, however the use cases interleave,
\* fail and are delivered again.
THEOREM Invariance == Spec => []IInv
BY InitEstablishes, NextPreserves, PTL DEF Spec

\* The variables keep their types: no worker ever saves an absent row, an
\* event without a type or a negative refund.
THEOREM Typing == Spec => []TypeOK
BY Invariance, PTL DEF IInv

\* The status of a row agrees with how much of it was refunded, and no more
\* than the amount ever is, also when stale copies are saved (Payment.Refund,
\* PaymentRepository.Update).
THEOREM RowsStayConsistent == Spec => []RowsConsistent
BY Invariance, PTL DEF IInv

\* The table never claims what the PSP has not done: lost updates and retries
\* can only leave it behind the PSP, never ahead.
THEOREM LedgerStaysBehindPsp == Spec => []LedgerBehindPsp
BY Invariance, PTL DEF IInv

\* Every copy in flight will be covered by the time it is saved.
THEOREM CopiesStayCovered == Spec => []InFlightCovered
BY Invariance, PTL DEF IInv

-----------------------------------------------------------------------------
(***************************************************************************)
(* The events.  OutboxMirrorsTable and EventsInOrder hold because a copy   *)
(* in flight stands for an event that may follow those already written:    *)
(* CopyInOrder says what that takes.                                       *)
(***************************************************************************)

\* An event of the sequence said that the payment was completed.
Said(events) ==
    \E j \in 1 .. Len(events) : events[j].type = "payment.completed"

Ordered(events) ==
    \A i \in 1 .. Len(events) :
        /\ events[i].type = "payment.created" <=> i = 1
        /\ events[i].type = "payment.refunded" =>
              \E j \in 1 .. i - 1 : events[j].type = "payment.completed"

Mirrored(events, row) ==
    IF events = << >> THEN row.status = "absent"
    ELSE events[Len(events)].status = row.status

CopyInOrder(o) ==
    /\ outbox[o.pay] # << >>
    /\ o.type # "payment.created"
    /\ o.type = "payment.refunded" => Said(outbox[o.pay])
    /\ o.stage # "authorizing" /\ o.row.status \in Settled =>
         o.type \in {"payment.completed", "payment.refunded"}

TableInOrder ==
    \A p \in Payments :
        /\ Ordered(outbox[p])
        /\ Mirrored(outbox[p], db[p])
        /\ db[p].status \in Settled => Said(outbox[p])

EventInv ==
    /\ TableInOrder
    /\ \A w \in Workers : op[w].stage # "idle" => CopyInOrder(op[w])

\* One more event at the end of a sequence.
LEMMA AppendInOrder ==
    ASSUME NEW events \in Seq(Event), NEW e \in Event, Ordered(events),
           e.type = "payment.created" <=> events = << >>,
           e.type = "payment.refunded" => Said(events)
    PROVE  /\ Append(events, e) # << >>
           /\ Ordered(Append(events, e))
           /\ Said(events) \/ e.type = "payment.completed"
                => Said(Append(events, e))
           /\ \A row \in Row :
                row.status = e.status => Mirrored(Append(events, e), row)
<1> DEFINE new == Append(events, e)
<1>1. /\ Len(events) \in Nat /\ Len(new) = Len(events) + 1
      /\ \A i \in 1 .. Len(events) : new[i] = events[i]
      /\ new[Len(events) + 1] = e
      /\ new # << >>
      /\ events = << >> <=> Len(events) = 0
  OBVIOUS
<1> HIDE DEF new
<1>2. Ordered(new)
  <2> SUFFICES ASSUME NEW i \in 1 .. Len(new)
               PROVE  /\ new[i].type = "payment.created" <=> i = 1
                      /\ new[i].type = "payment.refunded" =>
                           \E j \in 1 .. i - 1 :
                               new[j].type = "payment.completed"
    BY DEF Ordered
  <2>1. CASE i \in 1 .. Len(events)
    <3>1. \A j \in 1 .. i - 1 : new[j] = events[j]
      BY <1>1, <2>1
    <3> QED
      BY <1>1, <2>1, <3>1 DEF Ordered
  <2>2. CASE i = Len(events) + 1
    BY <1>1, <2>2 DEF Said
  <2> QED
    BY <1>1, <2>1, <2>2
<1>3. Said(events) \/ e.type = "payment.completed" => Said(new)
  BY <1>1 DEF Said
<1>4. \A row \in Row : row.status = e.status => Mirrored(new, row)
  BY <1>1 DEF Mirrored
<1> QED
  BY <1>1, <1>2, <1>3, <1>4 DEF new

\* A transaction: a row, its event, and nothing new in flight.
LEMMA CommitInOrder ==
    ASSUME IInv, EventInv, NEW p \in Payments, NEW row \in Row,
           NEW e \in Event, e.status = row.status,
           db' = [db EXCEPT ![p] = row],
           outbox' = [outbox EXCEPT ![p] = Append(@, e)],
           e.type = "payment.created" <=> outbox[p] = << >>,
           e.type = "payment.refunded" => Said(outbox[p]),
           row.status \in Settled =>
               e.type = "payment.completed" \/ Said(outbox[p]),
           \A w \in Workers : op'[w] = op[w] \/ op'[w].stage = "idle"
    PROVE  EventInv'
<1> DEFINE new == Append(outbox[p], e)
<1>1. /\ outbox[p] \in Seq(Event) /\ Ordered(outbox[p])
      /\ \A w \in Workers : op[w].stage # "idle" => op[w].pay \in Payments
  BY DEF IInv, TypeOK, InFlightCovered, EventInv, TableInOrder
<1>2. /\ new # << >> /\ Ordered(new)
      /\ Said(outbox[p]) \/ e.type = "payment.completed" => Said(new)
      /\ Mirrored(new, row)
  BY <1>1, AppendInOrder
<1> HIDE DEF new
<1>3. /\ outbox'[p] = new /\ db'[p] = row
      /\ \A q \in Payments :
           q # p => outbox'[q] = outbox[q] /\ db'[q] = db[q]
  BY DEF IInv, TypeOK, new
<1>4. TableInOrder'
  <2> SUFFICES ASSUME NEW q \in Payments
               PROVE  /\ Ordered(outbox'[q])
                      /\ Mirrored(outbox'[q], db'[q])
                      /\ db'[q].status \in Settled => Said(outbox'[q])
    BY DEF TableInOrder
  <2>1. CASE q = p
    BY <1>2, <1>3, <2>1
  <2>2. CASE q # p
    BY <1>3, <2>2 DEF EventInv, TableInOrder
  <2> QED
    BY <2>1, <2>2
<1>5. ASSUME NEW w \in Workers, op'[w].stage # "idle"
      PROVE  CopyInOrder(op[w])' /\ op'[w] = op[w]
  <2>1. /\ op'[w] = op[w] /\ CopyInOrder(op[w]) /\ op[w].pay \in Payments
    BY <1>1, <1>5 DEF EventInv
  <2>2. /\ outbox'[op[w].pay] # << >>
        /\ Said(outbox[op[w].pay]) => Said(outbox'[op[w].pay])
    BY <1>2, <1>3, <2>1 DEF CopyInOrder
  <2> QED
    BY <2>1, <2>2 DEF CopyInOrder
<1> QED
  BY <1>4, <1>5 DEF EventInv

\* A step that changes what one worker has in flight and writes nothing.
LEMMA CopyStepInOrder ==
    ASSUME IInv, EventInv, NEW w \in Workers, NEW o \in Operation,
           op' = [op EXCEPT ![w] = o],
           o.stage # "idle" => CopyInOrder(o),
           UNCHANGED <<db, outbox>>
    PROVE  EventInv'
<1>1. TableInOrder'
  BY DEF EventInv, TableInOrder
<1>2. ASSUME NEW v \in Workers, op'[v].stage # "idle"
      PROVE  CopyInOrder(op[v])'
  <2>1. CASE v = w
    BY <1>2, <2>1 DEF IInv, TypeOK, CopyInOrder
  <2>2. CASE v # w
    BY <1>2, <2>2 DEF IInv, TypeOK, EventInv, CopyInOrder
  <2> QED
    BY <2>1, <2>2
<1> QED
  BY <1>1, <1>2 DEF EventInv

LEMMA EventInvInit == Init => EventInv
BY DEF Init, EventInv, TableInOrder, Ordered, Mirrored, Absent, Idle, Settled

LEMMA CreateInOrder ==
    ASSUME IInv, EventInv, NEW p \in Payments, CreatePayment(p)
    PROVE  EventInv'
<1>1. PICK amount \in Amounts, method \in CaptureMethods :
        LET row == NewPayment(amount, method) IN
        /\ db' = [db EXCEPT ![p] = row]
        /\ outbox' = [outbox EXCEPT
                        ![p] = Append(@, EventOf("payment.created", row))]
  BY DEF CreatePayment
<1> DEFINE row == NewPayment(amount, method)
           e == EventOf("payment.created", row)
<1>2. row \in Row /\ row.status = "pending"
  BY NewPaymentConsistent
<1>3. outbox[p] = << >>
  <2>1. outbox[p] \in Seq(Event) /\ Mirrored(outbox[p], db[p])
    BY DEF IInv, TypeOK, EventInv, TableInOrder
  <2>2. db[p].status = "absent"
    BY DEF CreatePayment
  <2>3. ASSUME outbox[p] # << >>
        PROVE  outbox[p][Len(outbox[p])] \in Event
    BY <2>1, <2>3
  <2> QED
    BY <2>1, <2>2, <2>3 DEF Mirrored, Event, Statuses
<1> HIDE DEF row
<1>4. e \in Event /\ e.status = row.status /\ e.type = "payment.created"
  BY <1>2 DEF EventOf, Event, EventTypes, Statuses
<1> HIDE DEF e
<1> QED
  BY <1>1, <1>2, <1>3, <1>4, CommitInOrder DEF Settled, CreatePayment, row, e

LEMMA SaveInOrder ==
    ASSUME IInv, EventInv, NEW w \in Workers, Save(w)
    PROVE  EventInv'
<1> DEFINE o == op[w]
           e == EventOf(o.type, o.row)
<1>1. /\ o \in Operation /\ o.stage = "saving" /\ o.pay \in Payments
      /\ o.row \in Row /\ o.row.status \in Statuses /\ o.type \in EventTypes
      /\ CopyInOrder(o)
  BY DEF IInv, TypeOK, InFlightCovered, MayBeSaved, Save, EventInv, Operation
<1>2. /\ db' = [db EXCEPT ![o.pay] = o.row]
      /\ outbox' = [outbox EXCEPT ![o.pay] = Append(@, e)]
      /\ op' = [op EXCEPT ![w] = Idle]
  BY DEF Save
<1>3. e \in Event /\ e.status = o.row.status /\ e.type = o.type
  BY <1>1 DEF EventOf, Event
<1>4. \A v \in Workers : op'[v] = op[v] \/ op'[v].stage = "idle"
  BY <1>2, IdleTyped DEF IInv, TypeOK
<1>5. /\ e.type # "payment.created" /\ outbox[o.pay] # << >>
      /\ e.type = "payment.refunded" => Said(outbox[o.pay])
      /\ o.row.status \in Settled =>
           e.type \in {"payment.completed", "payment.refunded"}
  BY <1>1, <1>3 DEF CopyInOrder
<1> HIDE DEF o, e
<1> QED
  BY <1>1, <1>2, <1>3, <1>4, <1>5, CommitInOrder

LEMMA StartInOrder ==
    ASSUME IInv, EventInv, NEW w \in Workers, NEW p \in Payments,
           NEW stage \in Stages, NEW row \in Row, NEW amount \in Nat,
           NEW type \in EventTypes \union {"none"},
           Begin(w, p, stage, row, amount, type),
           db[p].status # "absent", type # "payment.created",
           type = "payment.refunded" => db[p].status \in Settled,
           stage # "authorizing" /\ row.status \in Settled =>
               type \in {"payment.completed", "payment.refunded"}
    PROVE  EventInv'
<1> DEFINE o == [stage |-> stage, pay |-> p, row |-> row, amount |-> amount,
                 type |-> type]
<1>1. o \in Operation
  BY DEF Operation
<1>2. outbox[p] # << >> /\ (type = "payment.refunded" => Said(outbox[p]))
  BY DEF EventInv, TableInOrder, Mirrored
<1>3. CopyInOrder(o)
  BY <1>2 DEF CopyInOrder
<1>4. op' = [op EXCEPT ![w] = o] /\ UNCHANGED <<db, outbox>>
  BY DEF Begin
<1> QED
  BY <1>1, <1>3, <1>4, CopyStepInOrder

\* The PSP has answered, or will never answer.
LEMMA PspInOrder ==
    ASSUME IInv, EventInv, NEW w \in Workers,
           Authorize(w) \/ CaptureAtPsp(w) \/ RefundAtPsp(w) \/ Abort(w)
    PROVE  EventInv'
<1>1. /\ op[w] \in Operation /\ UNCHANGED <<db, outbox>>
      /\ op[w].stage # "idle" => CopyInOrder(op[w])
  BY DEF IInv, TypeOK, EventInv, Authorize, CaptureAtPsp, RefundAtPsp, Abort
<1>2. CASE op' = [op EXCEPT ![w] = Idle]
  BY <1>1, <1>2, IdleTyped, CopyStepInOrder
<1>3. CASE CaptureAtPsp(w) \/ RefundAtPsp(w)
  <2> DEFINE o == [op[w] EXCEPT !.stage = "saving"]
  <2>1. op' = [op EXCEPT ![w] = o] /\ op[w].stage \in {"capturing", "refunding"}
    BY <1>3 DEF CaptureAtPsp, RefundAtPsp, IInv, TypeOK
  <2>2. /\ o \in Operation /\ o.pay = op[w].pay /\ o.type = op[w].type
        /\ o.row = op[w].row
    BY <1>1 DEF Operation, Stages
  <2>3. CopyInOrder(o)
    BY <1>1, <2>1, <2>2 DEF CopyInOrder
  <2> HIDE DEF o
  <2> QED
    BY <1>1, <2>1, <2>2, <2>3, CopyStepInOrder
<1>4. CASE Authorize(w) /\ CanLeavePending(op[w].row)
  <2> DEFINE o == [Decided(op[w]) EXCEPT !.stage = "saving"]
  <2>1. op' = [op EXCEPT ![w] = o] /\ op[w].stage = "authorizing"
    BY <1>4 DEF Authorize
  <2>2. MayBeSaved(op[w], psp[op[w].pay])
    BY <2>1 DEF IInv, InFlightCovered
  <2>3. /\ Decided(op[w]) \in Operation /\ Decided(op[w]).pay = op[w].pay
        /\ Decided(op[w]).row.status \in {"authorized", "completed", "failed"}
    BY <1>1, <1>4, <2>2, DecidedConsistent DEF MayBeSaved
  <2>4. /\ Decided(op[w]).type \in
             {"payment.failed", "payment.authorized", "payment.completed"}
        /\ Decided(op[w]).row.status = "completed" =>
             Decided(op[w]).type = "payment.completed"
    BY <1>1 DEF Decided, Operation, Row, CaptureMethods, Fail, MarkAuthorized,
                Complete
  <2> HIDE DEF o
  <2>5. /\ o \in Operation /\ o.pay = op[w].pay /\ o.stage = "saving"
        /\ o.row = Decided(op[w]).row /\ o.type = Decided(op[w]).type
    BY <2>3 DEF o, Operation, Stages
  <2>6. CopyInOrder(o)
    BY <1>1, <2>1, <2>3, <2>4, <2>5 DEF CopyInOrder, Settled
  <2> QED
    BY <1>1, <2>1, <2>5, <2>6, CopyStepInOrder
<1> QED
  BY <1>2, <1>3, <1>4 DEF Authorize, Abort

LEMMA EventInvNext == IInv /\ EventInv /\ [Next]_vars => EventInv'
<1> SUFFICES ASSUME IInv, EventInv, [Next]_vars
             PROVE  EventInv'
  OBVIOUS
<1>1. ASSUME NEW c \in Consumers, NEW p \in Payments, StartProcess(c, p)
      PROVE  EventInv'
  <2>1. c \in Workers /\ db[p] \in Row
    BY DEF IInv, TypeOK, Workers
  <2> QED
    BY <1>1, <2>1, StartInOrder DEF StartProcess, Stages
<1>2. ASSUME NEW w \in ApiWorkers, NEW p \in Payments, StartCapture(w, p)
      PROVE  EventInv'
  <2>1. /\ w \in Workers /\ db[p] \in Row /\ CanCapture(db[p])
        /\ Consistent(db[p])
    BY <1>2 DEF IInv, TypeOK, Workers, StartCapture, RowsConsistent
  <2>2. Captured(db[p]) \in Row /\ db[p].status = "authorized"
    BY <2>1, CapturedConsistent DEF CanCapture
  <2> QED
    BY <1>2, <2>1, <2>2, StartInOrder DEF StartCapture, Stages, EventTypes
<1>3. ASSUME NEW w \in ApiWorkers, NEW p \in Payments, StartRefund(w, p)
      PROVE  EventInv'
  <2>1. w \in Workers /\ db[p] \in Row /\ Consistent(db[p])
    BY DEF IInv, TypeOK, Workers, RowsConsistent
  <2>2. PICK amount \in Int :
          /\ CanRefund(db[p], amount)
          /\ Begin(w, p, "refunding", Refunded(db[p], amount), amount,
                   "payment.refunded")
    BY <1>3, <2>1, RequestsAssumption DEF StartRefund, RefundableAmount, Row
  <2>3. amount \in Nat /\ Refunded(db[p], amount) \in Row
    BY <2>1, <2>2, RefundedConsistent
  <2>4. db[p].status \in Settled /\ db[p].status # "absent"
    BY <2>2 DEF CanRefund, Settled
  <2> QED
    BY <2>1, <2>2, <2>3, <2>4, StartInOrder DEF Stages, EventTypes
<1>4. CASE UNCHANGED vars
  BY <1>4 DEF vars, EventInv, TableInOrder, CopyInOrder
<1> QED
  BY <1>1, <1>2, <1>3, <1>4, CreateInOrder, SaveInOrder, PspInOrder
  DEF Next, Workers

\* OutboxMirrorsTable: a row and its event are one transaction, so the last
\* event of a payment carries the status of its row, whoever saved last.
THEOREM OutboxStaysMirror == Spec => []OutboxMirrorsTable
<1>1. EventInv => OutboxMirrorsTable
  BY DEF EventInv, TableInOrder, Mirrored, OutboxMirrorsTable
<1> QED
  BY <1>1, EventInvInit, EventInvNext, Invariance, PTL DEF Spec

\* EventsInOrder: payment.created is the first event of a payment and no other,
\* and a refund is told only after a completion, with any number of handlers
\* and consumers saving over each other.
THEOREM EventsStayInOrder == Spec => []EventsInOrder
<1>1. EventInv => EventsInOrder
  BY DEF EventInv, TableInOrder, Ordered, EventsInOrder
<1> QED
  BY <1>1, EventInvInit, EventInvNext, Invariance, PTL DEF Spec

-----------------------------------------------------------------------------
(***************************************************************************)
(* PaymentLifecycle implements PaymentStates: the rows follow the state    *)
(* diagram, for any number of payments and with operations cut off         *)
(* anywhere, provided that a merchant sends one capture or refund at a     *)
(* time per payment and that one consumer handles payment.created.  The    *)
(* run lifecycle_overrefund shows what happens without the first.          *)
(***************************************************************************)

\* Handlers of the API capture and refund, consumers authorize.
StagesFit ==
    /\ \A w \in ApiWorkers : op[w].stage # "authorizing"
    /\ \A c \in Consumers : op[c].stage \in {"idle", "authorizing", "saving"}

\* No two handlers of the API work on the same payment.
OneRequestPerPayment ==
    \A v, w \in ApiWorkers :
        v # w /\ op[v].stage # "idle" /\ op[w].stage # "idle"
            => op[v].pay # op[w].pay

RInv == IInv /\ StagesFit /\ OneRequestPerPayment /\ InFlightFresh

OneConsumer == \A c, d \in Consumers : c = d

-----------------------------------------------------------------------------

\* A request that may still be saved finds the row settled or authorized.
LEMMA FreshRequestNotPending ==
    ASSUME NEW row, NEW current, FreshRequest(row, current)
    PROVE  current.status \notin {"absent", "pending"}
BY DEF FreshRequest, CanCapture, CanRefund

\* Saving a request that is fresh is a Capture or a Refund of the diagram.
LEMMA FreshRequestFollowsDiagram ==
    ASSUME NEW p \in Payments, NEW row, FreshRequest(row, db[p]),
           db' = [db EXCEPT ![p] = row]
    PROVE  Diagram!Next
<1>1. Diagram!Capture(p) \/ Diagram!Refund(p)
  BY DEF FreshRequest, Diagram!Capture, Diagram!Refund, CanCapture, Captured,
         CanRefund, Refunded, RefundableAmount, Diagram!CanCapture,
         Diagram!Captured, Diagram!CanRefund, Diagram!Refunded,
         Diagram!RefundableAmount
<1> QED
  BY <1>1 DEF Diagram!Next

\* Saving a decision that is fresh is a Decide of the diagram.
LEMMA FreshDecisionFollowsDiagram ==
    ASSUME NEW p \in Payments, NEW row, FreshDecision(row, db[p]),
           db' = [db EXCEPT ![p] = row]
    PROVE  Diagram!Next
<1>1. Diagram!Decide(p)
  BY DEF FreshDecision, Diagram!Decide, CanLeavePending, Fail, MarkAuthorized,
         Complete, Diagram!CanLeavePending, Diagram!Fail,
         Diagram!MarkAuthorized, Diagram!Complete
<1> QED
  BY <1>1 DEF Diagram!Next

\* CreatePayment is a Create of the diagram.
LEMMA CreateFollowsDiagram ==
    ASSUME NEW p \in Payments, CreatePayment(p)
    PROVE  Diagram!Next
<1>1. Diagram!Create(p)
  BY DEF CreatePayment, Diagram!Create, NewPayment, Diagram!NewPayment,
         CaptureMethods, Diagram!CaptureMethods
<1> QED
  BY <1>1 DEF Diagram!Next

-----------------------------------------------------------------------------
(***************************************************************************)
(* The copies stay fresh.  IInv is preserved already (NextPreserves).      *)
(***************************************************************************)

Fresh == StagesFit /\ OneRequestPerPayment /\ InFlightFresh

LEMMA FreshCreate ==
    ASSUME RInv, NEW p \in Payments, CreatePayment(p)
    PROVE  Fresh'
<1>1. /\ db[p].status = "absent" /\ op' = op
      /\ \A q \in Payments : q # p => db'[q] = db[q]
  BY DEF RInv, IInv, TypeOK, CreatePayment
<1>2. \A w \in ApiWorkers :
        op[w].stage # "idle" => op[w].pay # p /\ op[w].pay \in Payments
  BY <1>1, FreshRequestNotPending
  DEF RInv, IInv, InFlightFresh, InFlightCovered, Workers
<1>3. \A c \in Consumers :
        /\ op[c].stage = "authorizing" /\ CanLeavePending(op[c].row)
             => op[c].pay # p /\ op[c].pay \in Payments
        /\ op[c].stage = "saving"
             => op[c].pay # p /\ op[c].pay \in Payments
  BY <1>1 DEF RInv, IInv, InFlightFresh, InFlightCovered, Workers,
              CanLeavePending, FreshDecision
<1>4. InFlightFresh'
  BY <1>1, <1>2, <1>3 DEF RInv, InFlightFresh
<1> QED
  BY <1>1, <1>4 DEF RInv, Fresh, StagesFit, OneRequestPerPayment

\* A request that begins is fresh, and the only one of its payment.
LEMMA FreshRequestBegins ==
    ASSUME RInv, WorkersAssumption, SerialClient,
           NEW w \in ApiWorkers, NEW p \in Payments, ClientMayAsk(p),
           NEW stage \in {"capturing", "refunding"}, NEW row, NEW amount,
           NEW type, Begin(w, p, stage, row, amount, type),
           FreshRequest(row, db[p])
    PROVE  Fresh'
<1>1. /\ op'[w].stage = stage /\ op'[w].pay = p /\ op'[w].row = row
      /\ \A v \in Workers \ {w} : op'[v] = op[v]
      /\ db' = db
  BY DEF RInv, IInv, TypeOK, Workers, Begin
<1>2. w \notin Consumers
  BY DEF WorkersAssumption
<1>3. StagesFit'
  BY <1>1, <1>2 DEF RInv, StagesFit, Workers
<1>4. OneRequestPerPayment'
  BY <1>1 DEF RInv, OneRequestPerPayment, Workers, ClientMayAsk
<1>5. InFlightFresh'
  BY <1>1, <1>2 DEF RInv, InFlightFresh, Workers
<1> QED
  BY <1>3, <1>4, <1>5 DEF Fresh

LEMMA FreshStartCapture ==
    ASSUME RInv, WorkersAssumption, SerialClient,
           NEW w \in ApiWorkers, NEW p \in Payments, StartCapture(w, p)
    PROVE  Fresh'
<1>1. FreshRequest(Captured(db[p]), db[p])
  BY DEF FreshRequest, StartCapture
<1> QED
  BY <1>1, FreshRequestBegins DEF StartCapture

LEMMA FreshStartRefund ==
    ASSUME RInv, WorkersAssumption, SerialClient,
           NEW w \in ApiWorkers, NEW p \in Payments, StartRefund(w, p)
    PROVE  Fresh'
<1>1. db[p] \in Row
  BY DEF RInv, IInv, TypeOK
<1>2. PICK amount \in Int :
        /\ CanRefund(db[p], amount)
        /\ Begin(w, p, "refunding", Refunded(db[p], amount), amount,
                 "payment.refunded")
  BY <1>1, RequestsAssumption DEF StartRefund, Row, RefundableAmount
<1>3. amount \in 1 .. RefundableAmount(db[p])
  BY <1>1, <1>2 DEF CanRefund, RefundableAmount, Row
<1>4. FreshRequest(Refunded(db[p], amount), db[p])
  BY <1>2, <1>3 DEF FreshRequest
<1>5. ClientMayAsk(p)
  BY DEF StartRefund
<1> QED
  BY <1>2, <1>4, <1>5, FreshRequestBegins

LEMMA FreshStartProcess ==
    ASSUME RInv, WorkersAssumption,
           NEW c \in Consumers, NEW p \in Payments, StartProcess(c, p)
    PROVE  Fresh'
<1>1. /\ op'[c].stage = "authorizing" /\ op'[c].pay = p
      /\ op'[c].row = db[p] /\ db' = db
      /\ \A v \in Workers \ {c} : op'[v] = op[v]
  BY DEF RInv, IInv, TypeOK, Workers, StartProcess, Begin
<1>2. c \notin ApiWorkers
  BY DEF WorkersAssumption
<1>3. StagesFit'
  BY <1>1, <1>2 DEF RInv, StagesFit, Workers
<1>4. OneRequestPerPayment'
  BY <1>1, <1>2 DEF RInv, OneRequestPerPayment, Workers
<1>5. InFlightFresh'
  BY <1>1, <1>2 DEF RInv, InFlightFresh, Workers
<1> QED
  BY <1>3, <1>4, <1>5 DEF Fresh

LEMMA FreshAuthorize ==
    ASSUME RInv, WorkersAssumption, NEW c \in Consumers, Authorize(c)
    PROVE  Fresh'
<1>1. c \notin ApiWorkers /\ c \in Workers
  BY DEF WorkersAssumption, Workers
<1>2. /\ op[c] \in Operation /\ op[c].stage = "authorizing"
      /\ db' = db
      /\ \A v \in Workers \ {c} : op'[v] = op[v]
      /\ op'[c] = IF CanLeavePending(op[c].row)
                  THEN [Decided(op[c]) EXCEPT !.stage = "saving"]
                  ELSE Idle
  BY <1>1 DEF RInv, IInv, TypeOK, Authorize
<1>3. CASE ~CanLeavePending(op[c].row)
  <2>1. op'[c].stage = "idle"
    BY <1>2, <1>3, IdleTyped
  <2> QED
    BY <1>1, <1>2, <2>1 DEF RInv, Fresh, StagesFit, OneRequestPerPayment,
                            InFlightFresh, Workers
<1>4. CASE CanLeavePending(op[c].row)
  <2>1. op[c].row = db[op[c].pay]
    BY <1>2, <1>4 DEF RInv, InFlightFresh
  <2>2. op[c].row.method \in CaptureMethods
    BY <1>2 DEF Operation, Row
  <2>3. /\ Decided(op[c]).pay = op[c].pay
        /\ \/ Decided(op[c]).row = Fail(op[c].row)
           \/ /\ op[c].row.method = "manual"
              /\ Decided(op[c]).row = MarkAuthorized(op[c].row)
           \/ /\ op[c].row.method = "automatic"
              /\ Decided(op[c]).row = Complete(op[c].row)
    <3>1. CASE ~Approved(op[c].row)
      BY <1>2, <3>1 DEF Decided, Operation
    <3>2. CASE Approved(op[c].row) /\ op[c].row.method = "manual"
      BY <1>2, <3>2 DEF Decided, Operation
    <3>3. CASE Approved(op[c].row) /\ op[c].row.method = "automatic"
      BY <1>2, <3>3 DEF Decided, Operation
    <3> QED
      BY <2>2, <3>1, <3>2, <3>3 DEF CaptureMethods
  <2>4. Decided(op[c]) \in Operation
    BY <1>1, <1>2, <1>4, DecidedConsistent
    DEF RInv, IInv, InFlightCovered, MayBeSaved
  <2>5. /\ op'[c].stage = "saving" /\ op'[c].pay = op[c].pay
        /\ op'[c].row = Decided(op[c]).row
    BY <1>2, <1>4, <2>3, <2>4 DEF Operation
  <2>6. FreshDecision(op'[c].row, db'[op'[c].pay])
    BY <1>2, <1>4, <2>1, <2>3, <2>5 DEF FreshDecision
  <2>7. StagesFit'
    BY <1>1, <1>2, <2>5 DEF RInv, StagesFit, Workers
  <2>8. OneRequestPerPayment'
    BY <1>1, <1>2 DEF RInv, OneRequestPerPayment, Workers
  <2>9. InFlightFresh'
    BY <1>1, <1>2, <2>5, <2>6 DEF RInv, InFlightFresh, Workers
  <2> QED
    BY <2>7, <2>8, <2>9 DEF Fresh
<1> QED
  BY <1>3, <1>4

\* A gateway call of a handler changes neither its copy nor the table.
LEMMA FreshGatewayCall ==
    ASSUME RInv, WorkersAssumption, NEW w \in ApiWorkers,
           op[w].stage # "idle",
           op' = [op EXCEPT ![w].stage = "saving"], db' = db
    PROVE  Fresh'
<1>1. /\ w \notin Consumers /\ w \in Workers /\ op[w] \in Operation
  BY DEF WorkersAssumption, Workers, RInv, IInv, TypeOK
<1>2. /\ op'[w].stage = "saving" /\ op'[w].pay = op[w].pay
      /\ op'[w].row = op[w].row
      /\ \A v \in Workers \ {w} : op'[v] = op[v]
  BY <1>1 DEF RInv, IInv, TypeOK, Operation
<1> QED
  BY <1>1, <1>2 DEF RInv, Fresh, StagesFit, OneRequestPerPayment,
                    InFlightFresh, Workers

\* After a handler saves, no other copy of the row was fresh: the others are
\* of other payments, or of a consumer that will be refused.
LEMMA FreshSaveRequest ==
    ASSUME RInv, WorkersAssumption, NEW w \in ApiWorkers, Save(w)
    PROVE  Fresh'
<1> DEFINE p == op[w].pay
<1>1. /\ w \notin Consumers /\ w \in Workers /\ p \in Payments
      /\ op[w].stage # "idle" /\ FreshRequest(op[w].row, db[p])
  BY DEF WorkersAssumption, Workers, RInv, IInv, InFlightCovered,
         InFlightFresh, Save
<1>2. db[p].status \notin {"absent", "pending"}
  BY <1>1, FreshRequestNotPending
<1>3. /\ op'[w].stage = "idle"
      /\ \A v \in Workers \ {w} : op'[v] = op[v]
      /\ \A q \in Payments : q # p => db'[q] = db[q]
  BY <1>1, IdleTyped DEF RInv, IInv, TypeOK, Save
<1>4. \A v \in ApiWorkers \ {w} : op[v].stage # "idle" =>
        op[v].pay # p /\ op[v].pay \in Payments
  BY <1>1 DEF RInv, IInv, InFlightCovered, OneRequestPerPayment, Workers
<1>5. \A c \in Consumers :
        /\ op[c].stage = "authorizing" /\ CanLeavePending(op[c].row)
             => op[c].pay # p /\ op[c].pay \in Payments
        /\ op[c].stage = "saving"
             => op[c].pay # p /\ op[c].pay \in Payments
  BY <1>2 DEF RInv, IInv, InFlightFresh, InFlightCovered, Workers,
              CanLeavePending, FreshDecision
<1> HIDE DEF p
<1>6. InFlightFresh'
  BY <1>1, <1>3, <1>4, <1>5 DEF RInv, InFlightFresh, Workers
<1> QED
  BY <1>1, <1>3, <1>6 DEF RInv, Fresh, StagesFit, OneRequestPerPayment,
                          Workers

\* After the only consumer saves, no handler had a fresh copy of the row: it
\* was pending, and handlers refuse pending rows.
LEMMA FreshSaveDecision ==
    ASSUME RInv, WorkersAssumption, OneConsumer, NEW c \in Consumers, Save(c)
    PROVE  Fresh'
<1> DEFINE p == op[c].pay
<1>1. /\ c \notin ApiWorkers /\ c \in Workers /\ p \in Payments
      /\ FreshDecision(op[c].row, db[p])
  BY DEF WorkersAssumption, Workers, RInv, IInv, InFlightCovered,
         InFlightFresh, Save
<1>2. db[p].status = "pending"
  BY <1>1 DEF FreshDecision, CanLeavePending
<1>3. /\ op'[c].stage = "idle"
      /\ \A v \in Workers \ {c} : op'[v] = op[v]
      /\ \A q \in Payments : q # p => db'[q] = db[q]
  BY <1>1, IdleTyped DEF RInv, IInv, TypeOK, Save
<1>4. \A w \in ApiWorkers : op[w].stage # "idle" =>
        op[w].pay # p /\ op[w].pay \in Payments
  BY <1>2, FreshRequestNotPending
  DEF RInv, IInv, InFlightFresh, InFlightCovered, Workers
<1>5. \A d \in Consumers : d = c
  BY DEF OneConsumer
<1> HIDE DEF p
<1>6. InFlightFresh'
  BY <1>1, <1>3, <1>4, <1>5 DEF RInv, InFlightFresh, Workers
<1> QED
  BY <1>1, <1>3, <1>5, <1>6 DEF RInv, Fresh, StagesFit,
                                OneRequestPerPayment, Workers

LEMMA FreshAbort ==
    ASSUME RInv, NEW w \in Workers, Abort(w)
    PROVE  Fresh'
<1>1. /\ op'[w].stage = "idle" /\ db' = db
      /\ \A v \in Workers \ {w} : op'[v] = op[v]
  BY IdleTyped DEF RInv, IInv, TypeOK, Abort
<1> QED
  BY <1>1 DEF RInv, Fresh, StagesFit, OneRequestPerPayment, InFlightFresh,
              Workers

-----------------------------------------------------------------------------
(***************************************************************************)
(* The refinement.                                                         *)
(***************************************************************************)

LEMMA RInvInit == Init => RInv
BY InitEstablishes, IdleTyped
DEF Init, RInv, StagesFit, OneRequestPerPayment, InFlightFresh, Workers

LEMMA RInvNext ==
    ASSUME SerialClient, OneConsumer
    PROVE  RInv /\ [Next]_vars => RInv'
<1> SUFFICES ASSUME RInv, [Next]_vars
             PROVE  RInv'
  OBVIOUS
<1>1. IInv'
  BY NextPreserves DEF RInv
<1>2. CASE UNCHANGED vars
  BY <1>1, <1>2 DEF vars, RInv, StagesFit, OneRequestPerPayment, InFlightFresh
<1>3. CASE Next
  <2>1. ASSUME NEW w \in ApiWorkers, CaptureAtPsp(w) \/ RefundAtPsp(w)
        PROVE  Fresh'
    BY <2>1, FreshGatewayCall, WorkersAssumption
    DEF CaptureAtPsp, RefundAtPsp
  <2>2. Fresh'
    BY <1>3, <2>1, FreshCreate, FreshStartProcess, FreshStartCapture,
       FreshStartRefund, FreshAuthorize, FreshSaveRequest, FreshSaveDecision,
       FreshAbort, WorkersAssumption
    DEF Next, Workers
  <2> QED
    BY <1>1, <2>2 DEF RInv, Fresh
<1> QED
  BY <1>2, <1>3

\* A step that follows the diagram or leaves the table alone.
LEMMA StepFollowsDiagram ==
    ASSUME RInv, [Next]_vars
    PROVE  [Diagram!Next]_db
<1>1. ASSUME NEW w \in Workers, Save(w)
      PROVE  Diagram!Next
  <2>1. /\ op[w].pay \in Payments
        /\ db' = [db EXCEPT ![op[w].pay] = op[w].row]
        /\ op[w].stage = "saving"
    BY <1>1 DEF RInv, IInv, InFlightCovered, Save
  <2>2. CASE w \in ApiWorkers
    BY <2>1, <2>2, FreshRequestFollowsDiagram DEF RInv, InFlightFresh
  <2>3. CASE w \in Consumers
    BY <2>1, <2>3, FreshDecisionFollowsDiagram DEF RInv, InFlightFresh
  <2> QED
    BY <2>2, <2>3 DEF Workers
<1>2. CASE UNCHANGED vars
  BY <1>2 DEF vars
<1>3. CASE Next
  BY <1>1, <1>3, CreateFollowsDiagram
  DEF Next, StartProcess, StartCapture, StartRefund, Begin, Authorize,
      CaptureAtPsp, RefundAtPsp, Abort
<1> QED
  BY <1>2, <1>3

\* The detailed service implements the diagram, for any number of payments
\* and with gateway errors, rollbacks and crashes at any point, as long as
\* requests on one payment do not overlap and there is one consumer.
THEOREM Refinement ==
    ASSUME SerialClient, OneConsumer
    PROVE  Spec => FollowsDiagram
<1>1. Init => Diagram!Init
  BY DEF Init, Diagram!Init, Absent, Diagram!Absent
<1>2. RInv /\ [Next]_vars => RInv'
  BY RInvNext
<1>3. RInv /\ [Next]_vars => [Diagram!Next]_db
  BY StepFollowsDiagram
<1> QED
  BY <1>1, <1>2, <1>3, RInvInit, PTL
  DEF Spec, FollowsDiagram, Diagram!Spec

\* Under the same assumptions no copy is ever stale when it is saved.
THEOREM CopiesStayFresh ==
    ASSUME SerialClient, OneConsumer
    PROVE  Spec => []InFlightFresh
<1>1. RInv /\ [Next]_vars => RInv'
  BY RInvNext
<1>2. RInv => InFlightFresh
  BY DEF RInv
<1> QED
  BY <1>1, <1>2, RInvInit, PTL DEF Spec

-----------------------------------------------------------------------------
(***************************************************************************)
(* The money.  On a payment that is not disturbed at most one operation    *)
(* may still save its copy, and the account at the PSP matches a row: that *)
(* of the table or, between the gateway call of a capture or a refund and  *)
(* its transaction, the copy.  Workers, requests and faults are arbitrary. *)
(***************************************************************************)

Matches(row, account) ==
    /\ account.refunded = row.refunded
    /\ account.captures =
         IF row.status \in Settled /\ row.method = "manual" THEN 1 ELSE 0

\* The copy of an operation was made from the row, and once the gateway has
\* answered, it matches the account.
CopyFits(o, row, account) ==
    /\ o.stage = "authorizing" => o.row = row
    /\ o.stage = "capturing" => CanCapture(row) /\ o.row = Captured(row)
    /\ o.stage = "refunding" =>
         CanRefund(row, o.amount) /\ o.row = Refunded(row, o.amount)
    /\ o.stage = "saving" =>
         /\ row.status # "absent" /\ o.row.amount = row.amount
         /\ o.row.status = "authorized" => o.row.method = "manual"
         /\ Matches(o.row, account)

SavingOn(p) == \E w \in ApiWorkers : op[w].stage = "saving" /\ op[w].pay = p

Calm(p) ==
    /\ \A v, w \in LiveOn(p) : v = w
    /\ \A w \in LiveOn(p) : CopyFits(op[w], db[p], psp[p])
    /\ db[p].status = "authorized" => db[p].method = "manual"
    /\ ~SavingOn(p) => Matches(db[p], psp[p])

CalmInv == \A p \in Payments \ disturbed : Calm(p)

MoneyInv == IInv /\ CalmInv

LEMMA CalmInit == Init => CalmInv
BY IdleTyped DEF Init, CalmInv, Calm, LiveOn, Live, Matches, Absent, Settled

\* Who is saving may still save.
LEMMA SavingIsLive ==
    ASSUME NEW w \in ApiWorkers, NEW p, op[w].stage = "saving", op[w].pay = p
    PROVE  w \in LiveOn(p)
BY DEF LiveOn, Live, Workers

\* A payment nobody works on, in this step, stays calm.
LEMMA CalmBystander ==
    ASSUME IInv, NEW w \in Workers, NEW o, op' = [op EXCEPT ![w] = o],
           NEW q \in Payments, Calm(q), db'[q] = db[q],
           psp'[q].captures = psp[q].captures,
           psp'[q].refunded = psp[q].refunded,
           Live(o) => o.pay # q,
           w \in ApiWorkers /\ op[w].stage = "saving" => op[w].pay # q
    PROVE  Calm(q)'
<1>1. op'[w] = o /\ \A v \in Workers : v # w => op'[v] = op[v]
  BY DEF IInv, TypeOK
<1>2. ASSUME NEW v \in LiveOn(q)'
      PROVE  v \in LiveOn(q) /\ op'[v] = op[v]
  BY <1>1, <1>2 DEF LiveOn, Live
<1>3. SavingOn(q) => SavingOn(q)'
  BY <1>1 DEF SavingOn, Workers
<1>4. /\ \A v, u \in LiveOn(q)' : v = u
      /\ \A v \in LiveOn(q)' : CopyFits(op'[v], db'[q], psp'[q])
  BY <1>2 DEF Calm, CopyFits, Matches
<1>5. ~SavingOn(q)' => Matches(db'[q], psp'[q])
  BY <1>3 DEF Calm, Matches
<1>6. db'[q].status = "authorized" => db'[q].method = "manual"
  BY DEF Calm
<1> QED
  BY <1>4, <1>5, <1>6 DEF Calm, CopyFits, Matches

\* The payment of the one operation that moves stays calm.
LEMMA CalmMover ==
    ASSUME IInv, NEW w \in Workers, NEW o, op' = [op EXCEPT ![w] = o],
           NEW p \in Payments, \A v \in LiveOn(p) : v = w,
           Live(o) => CopyFits(o, db'[p], psp'[p]),
           db'[p].status = "authorized" => db'[p].method = "manual",
           \/ w \in ApiWorkers /\ o.stage = "saving" /\ o.pay = p
           \/ Matches(db'[p], psp'[p])
    PROVE  Calm(p)'
<1>1. op'[w] = o /\ \A v \in Workers : v # w => op'[v] = op[v]
  BY DEF IInv, TypeOK
<1>2. ASSUME NEW v \in LiveOn(p)'
      PROVE  v = w /\ Live(o)
  BY <1>1, <1>2 DEF LiveOn, Live
<1>3. /\ \A v, u \in LiveOn(p)' : v = u
      /\ \A v \in LiveOn(p)' : CopyFits(op'[v], db'[p], psp'[p])
  BY <1>1, <1>2
<1>4. ~SavingOn(p)' => Matches(db'[p], psp'[p])
  BY <1>1 DEF SavingOn
<1> QED
  BY <1>3, <1>4 DEF Calm, CopyFits, Matches

\* A row that is pending or absent has had no refund, nor has its account.
LEMMA UntouchedMatches ==
    ASSUME NEW row \in Row, NEW account, Consistent(row),
           row.status \in {"absent", "pending"}, Matches(row, account)
    PROVE  row.refunded = 0 /\ account.refunded = 0 /\ account.captures = 0
BY DEF Row, Consistent, Matches, Settled

LEMMA CalmCreate ==
    ASSUME MoneyInv, NEW p \in Payments, CreatePayment(p)
    PROVE  CalmInv'
<1>1. PICK amount \in Amounts, method \in CaptureMethods :
        db' = [db EXCEPT ![p] = NewPayment(amount, method)]
  BY DEF CreatePayment
<1> DEFINE row == NewPayment(amount, method)
<1>2. row \in Row /\ row.status = "pending" /\ row.refunded = 0
  BY NewPaymentConsistent
<1> HIDE DEF row
<1>3. /\ db[p].status = "absent" /\ op' = op /\ psp' = psp
      /\ disturbed' = disturbed /\ db[p] \in Row /\ Consistent(db[p])
      /\ db'[p] = row /\ \A q \in Payments : q # p => db'[q] = db[q]
  BY <1>1 DEF row, CreatePayment, MoneyInv, IInv, TypeOK, RowsConsistent
<1>4. ASSUME NEW q \in Payments, q # p, Calm(q)
      PROVE  Calm(q)'
  BY <1>3, <1>4 DEF Calm, LiveOn, Live, SavingOn
<1>5. ASSUME Calm(p)
      PROVE  Calm(p)'
  <2>1. LiveOn(p) = {}
    <3> SUFFICES ASSUME NEW w \in LiveOn(p)
                 PROVE  FALSE
      OBVIOUS
    <3>1. /\ CopyFits(op[w], db[p], psp[p]) /\ op[w].stage \in Stages
          /\ Live(op[w])
      BY <1>5 DEF Calm, LiveOn, MoneyInv, IInv, TypeOK, Operation
    <3> QED
      BY <1>3, <3>1 DEF CopyFits, Live, Stages, CanLeavePending, CanCapture,
                        CanRefund
  <2>2. Matches(db[p], psp[p])
    BY <1>5, <2>1, SavingIsLive DEF Calm, SavingOn
  <2>3. Matches(row, psp[p])
    BY <1>2, <1>3, <2>2, UntouchedMatches DEF Matches, Settled
  <2>4. LiveOn(p)' = {}
    BY <1>3, <2>1 DEF LiveOn, Live
  <2> QED
    BY <1>2, <1>3, <2>3, <2>4 DEF Calm
<1> QED
  BY <1>3, <1>4, <1>5 DEF MoneyInv, CalmInv

\* A worker takes on an operation: whoever may still save a copy of the same
\* payment disturbs it.
LEMMA CalmBegin ==
    ASSUME MoneyInv, NEW w \in Workers, NEW p \in Payments,
           NEW stage \in {"authorizing", "capturing", "refunding"},
           NEW row, NEW amount, NEW type,
           Begin(w, p, stage, row, amount, type),
           CopyFits([stage |-> stage, pay |-> p, row |-> row,
                     amount |-> amount, type |-> type], db[p], psp[p])
    PROVE  CalmInv'
<1> DEFINE o == [stage |-> stage, pay |-> p, row |-> row, amount |-> amount,
                 type |-> type]
<1>1. /\ op' = [op EXCEPT ![w] = o] /\ op'[w] = o /\ op[w].stage = "idle"
      /\ db' = db /\ psp' = psp
      /\ disturbed' = IF Live(o) /\ LiveOn(p) # {}
                      THEN disturbed \union {p} ELSE disturbed
  BY DEF MoneyInv, IInv, TypeOK, Begin
<1>2. o.stage = stage /\ o.pay = p /\ CopyFits(o, db[p], psp[p])
  OBVIOUS
<1> HIDE DEF o
<1> SUFFICES ASSUME NEW q \in Payments \ disturbed'
             PROVE  Calm(q)'
  BY DEF CalmInv
<1>3. Calm(q)
  BY <1>1 DEF MoneyInv, CalmInv
<1>4. CASE Live(o) => q # p
  BY <1>1, <1>2, <1>3, <1>4, CalmBystander DEF MoneyInv
<1>5. CASE Live(o) /\ q = p
  <2>1. LiveOn(p) = {}
    BY <1>1, <1>5
  <2>2. Matches(db[p], psp[p])
    BY <1>3, <1>5, <2>1, SavingIsLive DEF Calm, SavingOn
  <2>3. CopyFits(o, db'[p], psp'[p]) /\ Matches(db'[p], psp'[p])
    BY <1>1, <1>2, <2>2
  <2>4. db'[p].status = "authorized" => db'[p].method = "manual"
    BY <1>1, <1>3, <1>5 DEF Calm
  <2> QED
    BY <1>1, <1>5, <2>1, <2>3, <2>4, CalmMover DEF MoneyInv
<1> QED
  BY <1>4, <1>5

LEMMA CalmStarts ==
    ASSUME MoneyInv, NEW p \in Payments, NEW w \in Workers,
           StartProcess(w, p) \/ StartCapture(w, p) \/ StartRefund(w, p)
    PROVE  CalmInv'
<1>1. CASE StartProcess(w, p)
  BY <1>1, CalmBegin DEF StartProcess, CopyFits
<1>2. CASE StartCapture(w, p)
  BY <1>2, CalmBegin DEF StartCapture, CopyFits
<1>3. CASE StartRefund(w, p)
  <2>1. PICK amount :
          /\ CanRefund(db[p], amount)
          /\ Begin(w, p, "refunding", Refunded(db[p], amount), amount,
                   "payment.refunded")
    BY <1>3 DEF StartRefund
  <2> QED
    BY <2>1, CalmBegin DEF CopyFits
<1> QED
  BY <1>1, <1>2, <1>3

\* The PSP decides.  A copy that is not pending comes to nothing.
LEMMA CalmAuthorize ==
    ASSUME MoneyInv, NEW c \in Consumers, Authorize(c)
    PROVE  CalmInv'
<1> DEFINE p == op[c].pay
           copy == op[c].row
<1>1. /\ c \in Workers /\ c \notin ApiWorkers /\ op[c] \in Operation
      /\ p \in Payments /\ op[c].stage = "authorizing"
      /\ MayBeSaved(op[c], psp[p])
  BY WorkersAssumption
  DEF Workers, MoneyInv, IInv, TypeOK, InFlightCovered, Authorize
<1>2. /\ db' = db /\ disturbed' = disturbed
      /\ \A q \in Payments : /\ psp'[q].captures = psp[q].captures
                             /\ psp'[q].refunded = psp[q].refunded
  BY DEF Authorize, MoneyInv, IInv, TypeOK, PspAccount
<1> SUFFICES ASSUME NEW q \in Payments \ disturbed'
             PROVE  Calm(q)'
  BY DEF CalmInv
<1>3. Calm(q)
  BY <1>2 DEF MoneyInv, CalmInv
<1>4. CASE ~CanLeavePending(copy)
  <2>1. op' = [op EXCEPT ![c] = Idle] /\ ~Live(Idle)
    BY <1>4, IdleTyped DEF Authorize, Live
  <2> QED
    BY <1>1, <1>2, <1>3, <2>1, CalmBystander DEF MoneyInv
<1>5. CASE CanLeavePending(copy)
  <2> DEFINE o == [Decided(op[c]) EXCEPT !.stage = "saving"]
  <2>1. op' = [op EXCEPT ![c] = o]
    BY <1>5 DEF Authorize
  <2>2. /\ Decided(op[c]) \in Operation
        /\ Decided(op[c]).pay = p
        /\ Decided(op[c]).row.status = "completed" => copy.method = "automatic"
        /\ Decided(op[c]).row.status = "authorized" => copy.method = "manual"
        /\ Decided(op[c]).row.status \in {"authorized", "completed", "failed"}
        /\ Decided(op[c]).row.method = copy.method
        /\ Decided(op[c]).row.amount = copy.amount
        /\ Decided(op[c]).row.refunded = copy.refunded
    BY <1>1, <1>5, DecidedConsistent DEF MayBeSaved
  <2>3. o.stage = "saving" /\ o.pay = p /\ o.row = Decided(op[c]).row
    BY <2>2 DEF Operation
  <2> HIDE DEF o
  <2>4. CASE q # p
    BY <1>1, <1>2, <1>3, <2>1, <2>3, <2>4, CalmBystander DEF MoneyInv
  <2>5. CASE q = p
    <3>1. c \in LiveOn(p)
      BY <1>1, <1>5 DEF LiveOn, Live
    <3>2. /\ \A v \in LiveOn(p) : v = c
          /\ CopyFits(op[c], db[p], psp[p])
      BY <1>3, <2>5, <3>1 DEF Calm
    <3>3. db[p] = copy /\ db[p].status = "pending"
      BY <1>1, <1>5, <3>2 DEF CopyFits, CanLeavePending
    <3>4. Matches(db[p], psp[p])
      BY <1>1, <1>3, <2>5, <3>2, SavingIsLive DEF Calm, SavingOn
    <3>5. Matches(db'[p], psp'[p])
      BY <1>1, <1>2, <3>4 DEF Matches
    <3>6. psp[p].captures = 0
      BY <3>3, <3>4 DEF Matches, Settled
    <3>7. Matches(o.row, psp'[p])
      BY <1>1, <1>2, <2>2, <2>3, <3>3, <3>4, <3>6 DEF Matches, Settled
    <3>8. CopyFits(o, db'[p], psp'[p])
      BY <1>2, <2>2, <2>3, <3>3, <3>7 DEF CopyFits
    <3> HIDE DEF p, copy
    <3> QED
      BY <1>1, <1>2, <2>1, <2>5, <3>2, <3>3, <3>5, <3>8, CalmMover
      DEF MoneyInv
  <2> QED
    BY <2>4, <2>5
<1> QED
  BY <1>4, <1>5

\* The gateway call of a capture or refund: the account matched the row, and
\* now matches the copy.
LEMMA CalmGatewayCall ==
    ASSUME MoneyInv, NEW w \in ApiWorkers, CaptureAtPsp(w) \/ RefundAtPsp(w)
    PROVE  CalmInv'
<1> DEFINE p == op[w].pay
           copy == op[w].row
           o == [op[w] EXCEPT !.stage = "saving"]
<1>1. /\ w \in Workers /\ op[w] \in Operation /\ p \in Payments
      /\ op[w].stage \in {"capturing", "refunding"}
      /\ psp[p] \in PspAccount /\ db[p] \in Row
  BY DEF MoneyInv, IInv, TypeOK, InFlightCovered, Workers, CaptureAtPsp,
         RefundAtPsp
<1>2. /\ o.stage = "saving" /\ o.pay = p /\ o.row = copy
      /\ op' = [op EXCEPT ![w] = o]
      /\ db' = db /\ disturbed' = disturbed
      /\ \A q \in Payments : q # p => psp'[q] = psp[q]
  BY <1>1 DEF MoneyInv, IInv, TypeOK, CaptureAtPsp, RefundAtPsp, Operation
<1> SUFFICES ASSUME NEW q \in Payments \ disturbed'
             PROVE  Calm(q)'
  BY DEF CalmInv
<1>3. Calm(q)
  BY <1>2 DEF MoneyInv, CalmInv
<1> HIDE DEF o
<1>4. CASE q # p
  BY <1>1, <1>2, <1>3, <1>4, CalmBystander DEF MoneyInv
<1>5. CASE q = p
  <2>1. w \in LiveOn(p)
    BY <1>1 DEF LiveOn, Live
  <2>2. /\ \A v \in LiveOn(p) : v = w
        /\ CopyFits(op[w], db[p], psp[p])
    BY <1>3, <1>5, <2>1 DEF Calm
  <2>3. Matches(db[p], psp[p])
    <3>1. ~SavingOn(p)
      BY <1>1, <2>2, SavingIsLive DEF SavingOn
    <3> QED
      BY <1>3, <1>5, <3>1 DEF Calm
  <2>4. Matches(copy, psp'[p]) /\ copy.amount = db[p].amount
        /\ copy.status # "authorized" /\ db[p].status # "absent"
    <3>1. CASE CaptureAtPsp(w)
      <4>1. /\ psp'[p].captures = psp[p].captures + 1
            /\ psp'[p].refunded = psp[p].refunded
        BY <1>1, <3>1 DEF CaptureAtPsp, MoneyInv, IInv, TypeOK, PspAccount
      <4>2. db[p].status = "authorized" /\ copy = Captured(db[p])
        BY <2>2, <3>1 DEF CaptureAtPsp, CopyFits, CanCapture
      <4>3. db[p].method = "manual"
        BY <1>3, <1>5, <4>2 DEF Calm
      <4>4. psp[p].captures = 0
        BY <2>3, <4>2 DEF Matches, Settled
      <4>5. /\ copy.status = "completed" /\ copy.method = "manual"
            /\ copy.refunded = db[p].refunded /\ copy.amount = db[p].amount
        BY <1>1, <4>2, <4>3 DEF Captured, Row
      <4> QED
        BY <2>3, <4>1, <4>2, <4>4, <4>5 DEF Matches, Settled
    <3>2. CASE RefundAtPsp(w)
      <4>1. /\ psp'[p].captures = psp[p].captures
            /\ psp'[p].refunded = psp[p].refunded + op[w].amount
        BY <1>1, <3>2 DEF RefundAtPsp, MoneyInv, IInv, TypeOK, PspAccount
      <4>2. /\ CanRefund(db[p], op[w].amount)
            /\ copy = Refunded(db[p], op[w].amount)
        BY <2>2, <3>2 DEF RefundAtPsp, CopyFits
      <4>3. /\ copy.status \in {"partially_refunded", "refunded"}
            /\ db[p].status \in {"completed", "partially_refunded"}
            /\ copy.method = db[p].method /\ copy.amount = db[p].amount
            /\ copy.refunded = db[p].refunded + op[w].amount
        BY <1>1, <4>2 DEF Refunded, CanRefund, Row
      <4> QED
        BY <2>3, <4>1, <4>3 DEF Matches, Settled
    <3> QED
      BY <3>1, <3>2
  <2>5. CopyFits(o, db'[p], psp'[p])
    BY <1>2, <2>4 DEF CopyFits
  <2>6. db'[p].status = "authorized" => db'[p].method = "manual"
    BY <1>2, <1>3, <1>5 DEF Calm
  <2> HIDE DEF p, copy
  <2> QED
    BY <1>1, <1>2, <1>5, <2>2, <2>5, <2>6, CalmMover DEF MoneyInv
<1> QED
  BY <1>4, <1>5

\* The transaction: the table catches up with the account.
LEMMA CalmSave ==
    ASSUME MoneyInv, NEW w \in Workers, Save(w)
    PROVE  CalmInv'
<1> DEFINE p == op[w].pay
           copy == op[w].row
<1>1. p \in Payments /\ op[w].stage = "saving"
  BY DEF MoneyInv, IInv, InFlightCovered, Save
<1>2. /\ op' = [op EXCEPT ![w] = Idle] /\ ~Live(Idle)
      /\ db'[p] = copy /\ \A q \in Payments : q # p => db'[q] = db[q]
      /\ psp' = psp /\ disturbed' = disturbed
  BY <1>1, IdleTyped DEF MoneyInv, IInv, TypeOK, Save, Live
<1> SUFFICES ASSUME NEW q \in Payments \ disturbed'
             PROVE  Calm(q)'
  BY DEF CalmInv
<1>3. Calm(q)
  BY <1>2 DEF MoneyInv, CalmInv
<1>4. CASE q # p
  BY <1>1, <1>2, <1>3, <1>4, CalmBystander DEF MoneyInv
<1>5. CASE q = p
  <2>1. w \in LiveOn(p)
    BY <1>1 DEF LiveOn, Live
  <2>2. /\ \A v \in LiveOn(p) : v = w
        /\ CopyFits(op[w], db[p], psp[p])
    BY <1>3, <1>5, <2>1 DEF Calm
  <2>3. /\ copy.status = "authorized" => copy.method = "manual"
        /\ Matches(copy, psp[p])
    BY <1>1, <2>2 DEF CopyFits
  <2> HIDE DEF p, copy
  <2> QED
    BY <1>1, <1>2, <1>5, <2>2, <2>3, CalmMover DEF MoneyInv
<1> QED
  BY <1>4, <1>5

\* What is cut off behind its gateway call disturbs its payment.
LEMMA CalmAbort ==
    ASSUME MoneyInv, NEW w \in Workers, Abort(w)
    PROVE  CalmInv'
<1>1. /\ op' = [op EXCEPT ![w] = Idle] /\ ~Live(Idle)
      /\ db' = db /\ psp' = psp
      /\ disturbed' = IF w \in ApiWorkers /\ op[w].stage = "saving"
                      THEN disturbed \union {op[w].pay} ELSE disturbed
  BY IdleTyped DEF Abort, Live
<1> SUFFICES ASSUME NEW q \in Payments \ disturbed'
             PROVE  Calm(q)'
  BY DEF CalmInv
<1>2. /\ Calm(q)
      /\ w \in ApiWorkers /\ op[w].stage = "saving" => op[w].pay # q
  BY <1>1 DEF MoneyInv, CalmInv
<1> QED
  BY <1>1, <1>2, CalmBystander DEF MoneyInv

LEMMA MoneyNext == MoneyInv /\ [Next]_vars => MoneyInv'
<1> SUFFICES ASSUME MoneyInv, [Next]_vars
             PROVE  CalmInv'
  BY NextPreserves DEF MoneyInv
<1>1. CASE UNCHANGED vars
  BY <1>1 DEF vars, MoneyInv, CalmInv, Calm, CopyFits, Matches, LiveOn, Live,
              SavingOn
<1>2. CASE Next
  BY <1>2, CalmCreate, CalmStarts, CalmAuthorize, CalmGatewayCall, CalmSave,
     CalmAbort
  DEF Next, Workers
<1> QED
  BY <1>1, <1>2

\* OverRefundsNeedDisturbance: whatever the merchant sends and wherever
\* operations are cut off, the PSP gives back more than was charged only for a
\* payment on which operations overlapped, or one was cut off behind its call to
\* the PSP (RefundPayment, with its check of the balance before the call).
THEOREM NoOverRefund == Spec => []OverRefundsNeedDisturbance
<1>1. MoneyInv => OverRefundsNeedDisturbance
  <2> SUFFICES ASSUME MoneyInv, NEW p \in Payments \ disturbed
               PROVE  psp[p].refunded <= db[p].amount
    BY DEF OverRefundsNeedDisturbance
  <2>1. Calm(p)
    BY DEF MoneyInv, CalmInv
  <2>2. CASE ~SavingOn(p)
    <3>1. Consistent(db[p]) /\ Matches(db[p], psp[p])
      BY <2>1, <2>2 DEF MoneyInv, IInv, RowsConsistent, Calm
    <3> QED
      BY <3>1 DEF Consistent, Matches
  <2>3. CASE SavingOn(p)
    <3>1. PICK w \in ApiWorkers : op[w].stage = "saving" /\ op[w].pay = p
      BY <2>3 DEF SavingOn
    <3>2. CopyFits(op[w], db[p], psp[p])
      BY <2>1, <3>1, SavingIsLive DEF Calm
    <3>3. Consistent(op[w].row)
      BY <3>1 DEF MoneyInv, IInv, InFlightCovered, MayBeSaved, Workers
    <3> QED
      BY <3>1, <3>2, <3>3 DEF Consistent, Matches, CopyFits
  <2> QED
    BY <2>2, <2>3
<1>2. Init => MoneyInv
  BY InitEstablishes, CalmInit DEF MoneyInv
<1> QED
  BY <1>1, <1>2, MoneyNext, PTL DEF Spec

\* LedgerReconciles: only such a payment can be at rest with the table and the
\* PSP in disagreement about its refunds or its captures.
THEOREM LedgerAgrees == Spec => []LedgerReconciles
<1>1. MoneyInv => LedgerReconciles
  BY DEF MoneyInv, CalmInv, Calm, SavingOn, LedgerReconciles, NobodyWorksOn,
         Matches, Workers
<1>2. Init => MoneyInv
  BY InitEstablishes, CalmInit DEF MoneyInv
<1> QED
  BY <1>1, <1>2, MoneyNext, PTL DEF Spec
=============================================================================
