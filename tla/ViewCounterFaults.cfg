SPECIFICATION Spec
CONSTANTS
  p1 = p1 p2 = p2 v1 = v1 r1 = r1 r2 = r2 f1 = f1 f2 = f2
  v2 = v2
  Posts = {p1, p2}
  Viewers = {v1}
  Requests = {r1, r2}
  Flushers = {f1, f2}
  DedupOn = TRUE
  Faults = {"redisError", "redisReplyLost", "dbError", "commitReplyLost", "lockExpiry", "dedupExpiry", "crash", "cancel"}
  MaxFaults = 2
SYMMETRY Symmetry
INVARIANTS TypeOK CountedAtMostOnce ResponseCountsEachViewOnce
PROPERTY LockKept
