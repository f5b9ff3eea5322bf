---------------------------- MODULE MCOrganizations ----------------------------
(***************************************************************************)
(* Addresses for TLC: a reserved text, one with room for every number, one *)
(* with room for those of one digit, and one with room for the hyphen      *)
(* only.  The last two are also what numbering the second gives.           *)
(***************************************************************************)
EXTENDS Organizations, TLC

MCCharacters == {"a", "o", "r", "-", "0", "1", "2"}
\* The numbers to a base of three, so that the third of them has two digits.
MCNumeral == [n \in Numbers |-> IF n < 3 THEN <<"2">> ELSE <<"1", IF n = 3 THEN "0" ELSE "1">>]
MCReserved == {<<"r">>}
MCTexts ==
  {<<"r">>, <<"a", "a", "a">>, <<"a", "a", "a", "2">>, <<"a", "a", "a", "-", "2">>}
MCOrg == <<"o">>
Symmetry == Permutations(Requests)
=============================================================================
