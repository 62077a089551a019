SPECIFICATION Spec
CONSTANTS
  k1 = k1 k2 = k2 r1 = r1 r2 = r2 r3 = r3 r4 = r4 NoKey = NoKey NoPost = NoPost
  Requests = {r1, r2}
  Keys = {k1}
  Faults = {}
  MaxFaults = 0
INVARIANT OnePostPerKey
