--------------------------- MODULE MCMediaCleanup ---------------------------
(* Instances of MediaCleanup: two images, up to two concurrent requests. *)
EXTENDS MediaCleanup, TLC

CONSTANTS c1, c2, m1, n1, n2, k1, w1, a1

Symmetry == Permutations(Clients) \cup Permutations(NewUsers \ Leavers)
=============================================================================
