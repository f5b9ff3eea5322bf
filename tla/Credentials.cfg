CONSTANTS
  Sessions = {s1, s2, s3}
  Logins = {l1, l2}
  Changes = {c1, c2}
  Passwords = {old, new}
  Faults = TRUE
SYMMETRY Symmetry
SPECIFICATION Spec
INVARIANT TypeOK
PROPERTY ChangeEvictsEarlier
PROPERTY PasswordKept
