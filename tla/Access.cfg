CONSTANTS
  Organizations = {o1, o2}
  Home = o1
  Requests = {r1}
  MaxHits = 2
  WindowTicks = 2
  MaxChanges = 1
SPECIFICATION Spec
INVARIANT TypeOK
INVARIANT WritersAreUsers
INVARIANT ActsWithAuthority
INVARIANT OneTenant
INVARIANT AllowancesBound
PROPERTY LockoutEnds
CHECK_DEADLOCK FALSE
