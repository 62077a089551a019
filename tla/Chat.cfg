SPECIFICATION Spec
CONSTANTS
  s1 = s1 s2 = s2 i1 = i1 i2 = i2 NULL = NULL Nobody = Nobody
  Instances = {i1, i2}
  Users = {1, 2, 3}
  Sockets = {s1, s2}
  Owner <- MCOwner
  Host <- MCHost
  Callers = {2}
  Peers = {1, 2}
  MaxRequests = 2
  MaxMessages = 3
  MaxSent = 2
  Nodes = {i1, i2}
  Keys = {login, feed, chat}
  FailOpenKeys = {feed}
  ChatKey = chat
  ChatNode = i1
  Window = 2
  MaxCount = 2
  MemoryKeys = 2
  CloseAfter = 2
  MaxEvictions = 1
  Watched = {login}
  Faults = {"redisError", "listenerLost", "socketError", "dbError", "crash"}
  MaxFaults = 2
  Readers = {2}
  Limits = {1, 2}
  MaxReads = 3
CHECK_DEADLOCK FALSE
INVARIANTS TypeOK DeliveredInOrder BlockedIsRefused UnreadIsFresh ScrollComplete ReachesOpenSockets
  LimitIsKept
