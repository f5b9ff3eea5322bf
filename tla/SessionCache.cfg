CONSTANTS
  Sessions = {s1, s2}
  Resolvers = {r1, r2}
  Workers = {w1}
  CacheTTL = 2
  MaxProfile = 1
  Faults = TRUE
SPECIFICATION FairSpec
INVARIANT TypeOK
PROPERTY GoneForGood
PROPERTY RevocationTakesEffect
PROPERTY ProfileConverges
