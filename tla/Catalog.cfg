CONSTANTS
  Workspaces = {w0, w1}
  Default = w0
  Teams = {t1}
  Projects = {p1, p2}
  Requests = {r1, r2}
SYMMETRY Symmetry
SPECIFICATION Spec
INVARIANT TypeOK
PROPERTY RefinesAtomic
INVARIANT LossesExplained
PROPERTY ErasesOnlyNewer
PROPERTY LosesTeamWithTeam
