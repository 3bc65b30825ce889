\* One turn, at most three lines of each stream, the channel at its bound of two.
CONSTANTS
    s1 = s1
    s2 = s2
    Slots = {s1, s2}
    NoSlot = NoSlot
    t1 = t1
    t2 = t2
    Texts = {t1, t2}
    NoText = NoText
    TierAsked = FALSE
    Namings = {"off", "field", "finish_reason"}
    Capacity = 2
    MaxLines = 3
SPECIFICATION Spec
SYMMETRY Symmetry
INVARIANTS RequestsAreBounded ToldOnce CollectedIsWhole AnswerIsWhole BlameIsTrue
PROPERTY NoReplay
\* A turn whose client has gone is over: nothing is left to do.
CHECK_DEADLOCK FALSE
