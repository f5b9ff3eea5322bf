---------------------------- MODULE MCMembership ----------------------------
(***************************************************************************)
(* A small organization for TLC.                                           *)
(***************************************************************************)
EXTENDS Membership, TLC

Symmetry == Permutations(Users) \cup Permutations(Requests)
=============================================================================
