---------------------------- MODULE MCCredentials ----------------------------
(***************************************************************************)
(* An account with two passwords and three sessions for TLC.               *)
(***************************************************************************)
EXTENDS Credentials, TLC

Symmetry ==
  Permutations(Sessions) \cup Permutations(Logins) \cup Permutations(Changes)
  \cup Permutations(Passwords)
=============================================================================
