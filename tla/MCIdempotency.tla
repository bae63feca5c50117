---------------------------- MODULE MCIdempotency ----------------------------
(***************************************************************************)
(* Instances of Idempotency for TLC.  Requests are interchangeable (each   *)
(* draws its key and body in Init), and so are keys and bodies.            *)
(***************************************************************************)
EXTENDS Idempotency, TLC

Symmetry == Permutations(Keys) \union Permutations(Bodies)
              \union Permutations(Requests)
=============================================================================
