CONSTANTS
  People = {p, q}
  Invitations = {i1, i2, i3}
  Requests = {r1, r2}
  MaxRemovals = 1
SYMMETRY Symmetry
SPECIFICATION Spec
INVARIANT TypeOK
INVARIANT SecondInvitationNeedsOverlap
INVARIANT RedeemedOncePerRemoval
INVARIANT AcceptedMeansJoined
PROPERTY DeadForGood
CHECK_DEADLOCK FALSE
