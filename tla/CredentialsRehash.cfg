CONSTANTS
  Sessions = {s1, s2}
  Logins = {l1, l2}
  Changes = {c1}
  Passwords = {old, new}
  Faults = FALSE
SPECIFICATION Spec
PROPERTY LoginKeepsPassword
CHECK_DEADLOCK FALSE
