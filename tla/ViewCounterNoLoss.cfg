SPECIFICATION FairSpec
CONSTANTS
  p1 = p1 p2 = p2 v1 = v1 v2 = v2 r1 = r1 r2 = r2 f1 = f1 f2 = f2
  Posts = {p1, p2}
  Viewers = {v1, v2}
  Requests = {r1, r2}
  Flushers = {f1, f2}
  DedupOn = TRUE
  Faults = {"dbError", "lockExpiry"}
  MaxFaults = 2
INVARIANTS OneViewPerViewer
PROPERTIES NoViewLost FlushedEventually
