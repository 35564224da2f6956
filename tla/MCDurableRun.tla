---------------------------- MODULE MCDurableRun ----------------------------
(***************************************************************************)
(* DurableRun, its properties and its refinement mapping for TLC.          *)
(***************************************************************************)
EXTENDS DurableRunRefinement, TLC

\* Processes and tool_use ids are interchangeable.
CallSymmetry == Permutations(Procs) \union Permutations(Calls)
=============================================================================
