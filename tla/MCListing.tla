------------------------------ MODULE MCListing ------------------------------
(***************************************************************************)
(* An instance of Listing for TLC: an int of 5 bits, so that a page and a  *)
(* limit a client may send do leave it.  A request that searches, sorted   *)
(* by status, sees all that the others may see, and either order all that  *)
(* the other does, so of each kind of the rest there is one.               *)
(***************************************************************************)
EXTENDS Listing, TLC

MCKeys == 1 .. 3
MCPages == {0, 2, 9}
MCRequests ==
    [byStatus : {TRUE}, order : {"ASC"}, search : {TRUE}, limit : {1, 2},
     walking : {TRUE}]
    \union [byStatus : {TRUE}, order : {"DESC"}, search : {FALSE},
            limit : {-1, 2}, walking : {FALSE}]
    \union [byStatus : {FALSE}, order : {"DESC"}, search : {FALSE},
            limit : {1}, walking : {TRUE}]
Symmetry == Permutations(Payments)
=============================================================================
