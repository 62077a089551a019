------------------------- MODULE MCPostIdempotency -------------------------
(* Instances of PostIdempotency: up to four attempts, two keys    .         *)
EXTENDS PostIdempotency, TLC

CONSTANTS k1, k2, r1, r2, r3, r4

Symmetry == Permutations(Requests) \cup Permutations(Keys)
=============================================================================
