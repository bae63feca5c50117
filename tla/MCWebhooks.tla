----------------------------- MODULE MCWebhooks -----------------------------
(***************************************************************************)
(* Instances of Webhooks for TLC.  payment.completed happens once to a     *)
(* payment, payment.refunded as often as it is refunded in part.           *)
(***************************************************************************)
EXTENDS Webhooks, TLC

CONSTANTS p1, p2, e1, e2

MCCompleted == e1 :> p1 @@ e2 :> p2
MCRefunded == e1 :> p1 @@ e2 :> p1
=============================================================================
