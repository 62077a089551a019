--------------------------- MODULE MCViewCounter ---------------------------
(* Instances of ViewCounter: two instances flushing, two posts or viewers.  *)
EXTENDS ViewCounter, TLC

CONSTANTS p1, p2, v1, v2, r1, r2, f1, f2

Symmetry == Permutations(Requests) \cup Permutations(Flushers)
=============================================================================
