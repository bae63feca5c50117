---------------------------- MODULE MCOutboxRelay ----------------------------
(***************************************************************************)
(* Instances of OutboxRelay for TLC.  The runs check liveness, so that the *)
(* payments, though interchangeable, are not declared symmetric.           *)
(***************************************************************************)
EXTENDS OutboxRelay
=============================================================================
