\* Refusals alone matter: one text, one line of each stream.
CONSTANTS
    s1 = s1
    s2 = s2
    Slots = {s1, s2}
    NoSlot = NoSlot
    t1 = t1
    t2 = t2
    Texts = {t1}
    NoText = NoText
    TierAsked = FALSE
    Namings = {"off"}
    Capacity = 1
    MaxLines = 1

SPECIFICATION Spec
INVARIANT LoginAsksForBoth
\* A turn whose client has gone is over: nothing is left to do.
CHECK_DEADLOCK FALSE
