---------------------------- MODULE MCPlacement ----------------------------
(***************************************************************************)
(* TLC instance of Placement.  Sessions and processes are interchangeable. *)
(***************************************************************************)
EXTENDS Placement, TLC

MCCallers == {Checkout, Elsewhere}

Same == Permutations(Sessions) \union Permutations(Processes)
=============================================================================
