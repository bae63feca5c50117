--------------------------- MODULE MCEventServices ---------------------------
(***************************************************************************)
(* An instance of EventServices for TLC: two refunds.  Payments may be     *)
(* interchanged, so the first refund is of FirstOwner.  The trail is       *)
(* checked with both of them on one payment, and on two; what a customer   *)
(* is told with two payments, which have a row of notifications each.      *)
(***************************************************************************)
EXTENDS EventServices

CONSTANT FirstOwner

MCEvents == 1 .. 2
MCKindOf == <<"refunded", "refunded">>

MCInit ==
    /\ ServicesInit
    /\ owner[1] = FirstOwner
    /\ service = "notification" => owner[2] # FirstOwner

\* Nothing the Notification Service does depends on when events are committed,
\* or on which of two alike arrives first.
MCNext ==
    /\ ServicesNext
    /\ service = "notification" =>
         /\ committed # Events => committed' # committed
         /\ sent' > 0 => arrived'[1] = 1

MCFairSpec == MCInit /\ [][MCNext]_servicesVars /\ ServicesFairness
=============================================================================
