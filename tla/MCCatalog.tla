------------------------------ MODULE MCCatalog ------------------------------
(***************************************************************************)
(* Two workspaces, a team, two projects and two requests for TLC.          *)
(***************************************************************************)
EXTENDS Catalog, TLC

Symmetry == Permutations(Teams) \cup Permutations(Projects) \cup Permutations(Requests)
=============================================================================
