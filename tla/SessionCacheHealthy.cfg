CONSTANTS
  Sessions = {s1, s2}
  Resolvers = {r1}
  Workers = {w1}
  CacheTTL = 2
  MaxProfile = 0
  Faults = FALSE
SPECIFICATION Spec
PROPERTY LogoutIsInstant
CHECK_DEADLOCK FALSE
