SPECIFICATION Spec
CONSTANTS
  c1 = c1 c2 = c2 m1 = m1 n1 = n1 n2 = n2 k1 = k1 w1 = w1 a1 = a1 NULL = NULL
  Clients = {c1}
  Members = {m1}
  NewUsers = {}
  Leavers = {m1}
  Keys = {k1}
  Holders = {"profile"}
  MaxImages = 2
  Faults = {"storageError", "dbError", "redisError"}
  MaxFaults = 1
  Instances = {w1}
  Admins = {a1}
  BatchSize = 1
  Stuck = {1}
INVARIANT HeldHasFile
PROPERTY OrphanIsSwept
