SPECIFICATION Spec
CONSTANTS
  k1 = k1 k2 = k2 r1 = r1 r2 = r2 r3 = r3 r4 = r4 NoKey = NoKey NoPost = NoPost
  Requests = {r1, r2, r3, r4}
  Keys = {k1, k2}
  Faults = {"redisError", "redisReplyLost", "commitReplyLost", "lockExpiry", "resultExpiry", "crash"}
  MaxFaults = 2
SYMMETRY Symmetry
INVARIANTS TypeOK InFlightBound RetryAfterAnswerReplays NoOrphanLock AnswerIsCommittedPost
