---------------------------- MODULE MCSubscriber ----------------------------
(***************************************************************************)
(* An instance of Subscriber for TLC, with a malformed message behind a    *)
(* good one.                                                               *)
(***************************************************************************)
EXTENDS Subscriber

MCMalformed == {2}
=============================================================================
