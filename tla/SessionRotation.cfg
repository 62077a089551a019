CONSTANTS
  h1 = h1
  h2 = h2
  Handlers = {h1, h2}
  Requests = {"login", "refresh", "logout", "password", "read"}
  MaxTokens = 3
  MaxLate = 1
  MaxChanges = 0
  Faults = {"redisError", "redisReplyLost", "crash"}
  MaxFaults = 2
SPECIFICATION Spec
SYMMETRY Symmetry
INVARIANTS
  RotatedOnce
  EndedSessionStaysEnded
  LoggedOutIsRefused
CHECK_DEADLOCK FALSE
