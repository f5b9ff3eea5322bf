CONSTANTS
  Users = {ann, bob}
  Nobody = nobody
  Mutations = {m1, m2}
  MaxOperations = 2
SPECIFICATION ClientSpec
INVARIANT SettledIsCurrent
INVARIANT NoOneElsesData
PROPERTY Converges
CHECK_DEADLOCK FALSE
