CONSTANTS
  Kinds = {"organization", "team", "project"}
  Characters <- MCCharacters
  Hyphen = "-"
  Org <- MCOrg
  Numeral <- MCNumeral
  Texts <- MCTexts
  Reserved <- MCReserved
  Domains = {"in", "out"}
  People = {ann}
  Requests = {r1, r2}
  MaxLength = 6
  MaxAttempts = 5
  MaxServed = 3
SYMMETRY Symmetry
SPECIFICATION Spec
INVARIANT TypeOK
INVARIANT RefusedOnlyWhenCrowded
INVARIANT TrailingHyphenOnlyAtTheEdge
INVARIANT RestrictionHasDomains
INVARIANT TeamOfMembers
PROPERTY OutsidersOnlyBySkew
CHECK_DEADLOCK FALSE
