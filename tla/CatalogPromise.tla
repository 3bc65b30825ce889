--------------------------- MODULE CatalogPromise ---------------------------
(***************************************************************************)
(* What the model catalog of praxis-relay promises its readers: the backend *)
(* answer it serves, under the slot whose credentials fetched it.           *)
(*                                                                         *)
(* A deliberate switch relabels that answer the moment it is committed, and *)
(* a credential change retires it the moment the credentials are gone, also *)
(* while a fetch is under way: what such a fetch brings is judged by what   *)
(* happened since it began.                                                 *)
(***************************************************************************)
EXTENDS Naturals

CONSTANTS Slots, NoSlot

VARIABLES
    held,    \* the sign-in whose credentials each slot holds; 0 for none
    answer,  \* the answer being served, or NoAnswer
    asking,  \* the backend is being asked
    moved,   \* the slot last switched to since, or NoSlot
    changed  \* the slots whose credentials changed since

vars == <<held, answer, asking, moved, changed>>

NoAnswer == [slot |-> NoSlot, grant |-> 0, superseded |-> FALSE]

Init ==
    /\ held \in [Slots -> Nat]
    /\ answer = NoAnswer
    /\ asking = FALSE
    /\ moved = NoSlot
    /\ changed = {}

\* An answer of another slot goes on serving as the last good one, and is that
\* slot's answer again should a switch come back to it.
Switch(s) ==
    /\ answer' = IF answer = NoAnswer THEN NoAnswer
                 ELSE [answer EXCEPT !.superseded = answer.slot # s]
    /\ moved' = IF asking THEN s ELSE NoSlot
    /\ UNCHANGED <<held, asking, changed>>

\* An answer goes with the credentials that fetched it.
ChangeCredentials(s) ==
    /\ held' = [held EXCEPT ![s] = held'[s]]
    /\ held'[s] \in Nat
    /\ answer' = IF answer.slot = s THEN NoAnswer ELSE answer
    /\ changed' = IF asking THEN changed \cup {s} ELSE {}
    /\ UNCHANGED <<asking, moved>>

Ask ==
    /\ ~asking
    /\ asking' = TRUE
    /\ UNCHANGED <<held, answer, moved, changed>>

Stop == asking' = FALSE /\ moved' = NoSlot /\ changed' = {} /\ UNCHANGED held

\* The backend answered slot s.
Receive(s) ==
    /\ asking
    /\ answer' = IF s \in changed THEN NoAnswer
                 ELSE [slot |-> s, grant |-> held[s],
                       superseded |-> moved \notin {NoSlot, s}]
    /\ Stop

\* It did not: the last good answer keeps serving.
GiveUp == asking /\ answer' = answer /\ Stop

Next == \/ \E s \in Slots : Switch(s) \/ ChangeCredentials(s) \/ Receive(s)
        \/ Ask \/ GiveUp

Spec == Init /\ [][Next]_vars
=============================================================================
