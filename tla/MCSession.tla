----------------------------- MODULE MCSession -----------------------------
(* Session for TLC. *)
EXTENDS Session, TLC

CONSTANTS h1, h2

Symmetry == Permutations(Handlers)
============================================================================
