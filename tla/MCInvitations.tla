---------------------------- MODULE MCInvitations ----------------------------
(***************************************************************************)
(* A few addresses and invitation rows for TLC.                            *)
(***************************************************************************)
EXTENDS Invitations, TLC

Symmetry ==
  Permutations(People) \cup Permutations(Invitations) \cup Permutations(Requests)
=============================================================================
