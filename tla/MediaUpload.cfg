SPECIFICATION Spec
CONSTANTS
  c1 = c1 c2 = c2 m1 = m1 n1 = n1 n2 = n2 k1 = k1 w1 = w1 a1 = a1 NULL = NULL
  Clients = {c1, c2}
  Members = {m1}
  NewUsers = {n1, n2}
  Leavers = {}
  Keys = {k1}
  Holders = {"profile"}
  MaxImages = 2
  Faults = {"storageError", "dbError", "commitReplyLost", "redisError", "crash"}
  MaxFaults = 1
  Instances = {w1}
  Admins = {}
  BatchSize = 1
  Stuck = {}
SYMMETRY Symmetry
INVARIANTS TypeOK TokenClaimsOnce LeaksBoundedByFaults
