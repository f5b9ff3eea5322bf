----------------------------- MODULE MCWorkItems -----------------------------
(***************************************************************************)
(* Two items and two requests for TLC.                                     *)
(***************************************************************************)
EXTENDS WorkItems, TLC

Symmetry == Permutations(People) \cup Permutations(Items) \cup Permutations(Requests)
=============================================================================
