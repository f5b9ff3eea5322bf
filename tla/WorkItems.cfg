CONSTANTS
  People = {p}
  Items = {i1, i2}
  Requests = {r1, r2}
SYMMETRY Symmetry
SPECIFICATION Spec
INVARIANT TypeOK
PROPERTY RefinesAtomic
INVARIANT StampFollowsStatus
INVARIANT AssigneesWereMembers
