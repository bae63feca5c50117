-------------------------- MODULE MCPaymentLifecycle --------------------------
(***************************************************************************)
(* Instances of PaymentLifecycle for TLC.  Amount 4 is approved by the   *)
(* mock PSP and 3 is declined.  Of the refunds, -1 and 0 ask for the whole *)
(* balance and 5 is more than was charged.                                 *)
(***************************************************************************)
EXTENDS PaymentLifecycle, TLC

MCAmounts == {3, 4}
MCRefundRequests == {0, 1, 3, 5}
MCRefundRequestsNegative == {-1, 2, 3, 5}

Symmetry == Permutations(Payments) \union Permutations(ApiWorkers)
              \union Permutations(Consumers)
=============================================================================
