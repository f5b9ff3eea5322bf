CONSTANTS
  Users = {ann, bob}
  Nobody = nobody
  Mutations = {m1, m2}
  MaxOperations = 2
SPECIFICATION ClientSpec
INVARIANT OwnChangesShow
CHECK_DEADLOCK FALSE
