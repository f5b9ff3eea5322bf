CONSTANTS
  Users = {alice, bob, carol}
  Requests = {r1, r2}
SYMMETRY Symmetry
SPECIFICATION Spec
INVARIANT TypeOK
INVARIANT OwnerExists
INVARIANT AuditReplaysToTable
PROPERTY RefinesAtomic
CHECK_DEADLOCK FALSE
