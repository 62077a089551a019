--------------------------- MODULE MCPostActivity ---------------------------
(* PostActivity for TLC. *)
EXTENDS PostActivity, TLC

CONSTANTS t1, t2, t3, u1, u2, c1, c2, x1, x2, x3

Symmetry == Permutations(Txns) \cup Permutations(Users \ {Author})
              \cup Permutations(Comments) \cup Permutations(Reports)
=============================================================================
