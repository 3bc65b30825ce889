-------------------------- MODULE MCAccountRouter --------------------------
(* AccountRouter on a small instance, for TLC. *)
EXTENDS AccountRouter, TLC

CONSTANTS t1, t2, a1, a2

\* A refusal that names nothing usable, one below the minimum, one above the
\* maximum, and one that names an hour of the clock.
MCResets == {[at |-> 0, within |-> 0], [at |-> 0, within |-> 1],
             [at |-> 0, within |-> 9], [at |-> 4, within |-> 0]}

Symmetry == Permutations(Tasks) \cup Permutations(Accounts)
=============================================================================
