SPECIFICATION Spec
CONSTANTS
  i1 = i1 i2 = i2 tab1 = tab1 tab2 = tab2 tab3 = tab3 v1 = v1 v2 = v2 p1 = p1 p2 = p2 t1 = t1 t2 = t2 t3 = t3
  NULL = NULL
  Notifs = {n1}
  Workers = {w1, w2}
  MaxRetries = 1
  Nobody = Nobody
  Instances = {i1, i2}
  Recipients = {1}
  Addressee <- MCAddressee
  MaxNotes = 2
  ListSize = 1
  MaxLists = 2
  Streams = {tab1, tab2, tab3}
  StreamUser <- MCStreamUser
  StreamHost <- MCStreamHost
  QueueSize = 1
  Viewers = {v1, v2}
  Articles = {p1, p2}
  AuthorOf <- MCAuthorOf
  MinPosts = 2
  MaxPolls = 1
  MaxEdits = 2
  NoPool = NoPool NoLock = NoLock Orphan = Orphan
  Edits = {t1, t2, t3}
  Dogs = {1, 2, 3, 4, 5}
  OldDogs = {1, 2}
  NewDog <- MCNewDog
  NoDog = NoDog
  Writers = {e1, e2}
  Pages = {x, y}
  OldPages = {x}
  OldTags = {"a"}
  TagLists <- MCTagLists
  Canonical <- MCCanonical
  Blank = ""
  NoTags = NoTags
  Faults = {"brokerError", "redisError", "snsError", "dbError", "redelivery", "crash", "expiry",
            "listenerLost", "lockExpiry", "cacheExpiry", "loaderError"}
  MaxFaults = 3
CHECK_DEADLOCK FALSE
INVARIANTS NothingIsMissed PoolIsShared ListIsReplaced EditsDoNotMix
PROPERTIES DeliveryRefines DispatchedIsSent
