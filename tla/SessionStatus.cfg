CONSTANTS
  h1 = h1
  h2 = h2
  Handlers = {h1, h2}
  Requests = {"login", "refresh", "withdraw", "suspend", "activate"}
  MaxTokens = 2
  MaxLate = 0
  MaxChanges = 2
  Faults = {"redisError"}
  MaxFaults = 1
SPECIFICATION FairSpec
INVARIANT
  ServedWhileActive
PROPERTY
  CacheSettles
CHECK_DEADLOCK FALSE
