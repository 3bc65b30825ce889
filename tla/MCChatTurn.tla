----------------------------- MODULE MCChatTurn -----------------------------
(* ChatTurn on a small instance, for TLC. *)
EXTENDS ChatTurn, TLC

CONSTANTS s1, s2, t1, t2

Symmetry == Permutations(Slots) \cup Permutations(Texts)
=============================================================================
