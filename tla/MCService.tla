----------------------------- MODULE MCService -----------------------------
(* Service on a small instance, for TLC. *)
EXTENDS Service, TLC

CONSTANTS c1, c2

Symmetry == Permutations(Callers)
=============================================================================
