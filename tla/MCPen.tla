-------------------------------- MODULE MCPen --------------------------------
(***************************************************************************)
(* TLC instances of Pen.                                                   *)
(***************************************************************************)
EXTENDS PenProperties, TLC

\* Hosts, tasks and children are interchangeable.
PenSymmetry == Permutations(Hosts) \union Permutations(Jobs) \union Permutations(Kids)
=============================================================================
