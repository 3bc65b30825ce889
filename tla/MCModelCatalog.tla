--------------------------- MODULE MCModelCatalog ---------------------------
(* ModelCatalog on a small instance, for TLC. *)
EXTENDS ModelCatalog, TLC

CONSTANTS r1, r2, s1, s2

Symmetry == Permutations(Readers) \cup Permutations(Slots)
=============================================================================
