--------------------------- MODULE UsageDocument ---------------------------
(***************************************************************************)
(* What the relay makes of the vendor's words about a subscription: the    *)
(* usage document that a poll fetches (normalize_usage and what reads it,  *)
(* src/core/limits.rs) and the refusal of a chat request                   *)
(* (quota_reset_from_body, src/core/chat_completions.rs).  Both end in the *)
(* time for which the router parks the slot.                               *)
(*                                                                         *)
(* A poll may read a document that was cached for up to a minute.  Times   *)
(* are seconds since the vendor's answer.                                  *)
(***************************************************************************)
EXTENDS Integers, Sequences, FiniteSets

CONSTANTS
    Windows,    \* the windows a document may show, Absent among them
    Refusals,   \* the bodies of refusals: up to three scopes, from outside in
    Unknown,    \* a field that was left out, or is of the wrong type
    Absent,     \* a window or a scope that is not there
    Ages        \* the age of a document when it is read

VARIABLES
    stage,  \* empty, fetched, read or refused
    raw,    \* the windows, and the verdict, as the vendor wrote them
    doc,    \* the document as the relay keeps it
    age,    \* seconds since the vendor's answer
    parked, \* the seconds for which the slot is parked; Unknown: the default
    told    \* the fields of the refusal, or the windows in the headers

vars == <<stage, raw, doc, age, parked, told>>

Known(value) == value # Unknown

Values == Int \cup {Unknown}
Window == [used : Values, at : Values, within : Values]
Scope == [at : Values, within : Values]

\* QuotaReset::seconds_after
SecondsAfter(reset, now) ==
    IF Known(reset.within) /\ reset.within > 0 THEN reset.within
    ELSE IF Known(reset.at) /\ reset.at > now THEN reset.at - now ELSE Unknown

-----------------------------------------------------------------------------
(* The usage document.  It has two windows, "first" and "second".            *)

NoWindow == [used |-> Unknown, remaining |-> Unknown, at |-> Unknown, within |-> Unknown]

\* normalized_window: what is not known stays so.
NormalizedWindow(window) ==
    IF window = Absent THEN NoWindow
    ELSE [used |-> window.used, at |-> window.at, within |-> window.within,
          remaining |-> CASE ~Known(window.used)  -> Unknown
                          [] window.used > 100    -> 0
                          [] window.used < 0      -> 100
                          [] OTHER                -> 100 - window.used]

\* normalize_usage, normalized_rate_limit
Normalized(usage) ==
    [allowed |-> usage.allowed, reached |-> usage.reached,
     windows |-> [i \in 1..2 |-> NormalizedWindow(usage.windows[i])]]

\* subscription_exhausted
Exhausted(usage) == usage.reached = "true" \/ usage.allowed = "false"

Full(window) == Known(window.used) /\ window.used >= 100

\* Mutant of ExhaustedWindowReset: the first full window is blamed.
FirstWindowReset(usage, now) ==
    LET full == {i \in 1..2 : Full(usage.windows[i])}
    IN  IF full = {} THEN Unknown
        ELSE SecondsAfter(usage.windows[CHOOSE i \in full : \A j \in full : i <= j], now)

\* exhausted_window_reset: a full window without a usable reset leaves the
\* whole matter open; the router asks the reset for its seconds.
ExhaustedWindowReset(usage, now) ==
    LET full == {i \in 1..2 : Full(usage.windows[i])}
        Seconds(i) == SecondsAfter(usage.windows[i], now)
    IN  IF full = {} \/ \E i \in full : ~Known(Seconds(i)) THEN Unknown
        ELSE Seconds(CHOOSE i \in full : \A j \in full : Seconds(i) >= Seconds(j))

\* mirror_window, apply_response_headers: only what is known becomes a header.
Headers(usage) ==
    {h \in (1..2) \X {"used", "at"} : Known(usage.windows[h[1]][h[2]])}

-----------------------------------------------------------------------------
(* The body of a refusal: the object itself, its error, its detail.          *)

\* The field in the first scope that names one not below `least`.
First(scopes, field, least) ==
    LET named == {i \in 1..Len(scopes) : /\ scopes[i] # Absent
                                         /\ Known(scopes[i][field])
                                         /\ scopes[i][field] >= least}
    IN  IF named = {} THEN Unknown
        ELSE scopes[CHOOSE i \in named : \A j \in named : i <= j][field]

\* quota_reset_from_body
ResetOfBody(scopes) == [at     |-> First(scopes, "at", 1),
                        within |-> First(scopes, "within", 0)]

-----------------------------------------------------------------------------
Nothing == [allowed |-> Unknown, reached |-> Unknown,
            windows |-> [i \in 1..2 |-> Absent]]

Init == /\ stage = "empty" /\ raw = Nothing /\ doc = Normalized(Nothing)
        /\ age = 0 /\ parked = Unknown /\ told = {}

\* fetch_usage
Fetch ==
    /\ stage = "empty"
    /\ \E w, v \in Windows, allowed, reached \in {Unknown, "true", "false"} :
         raw' = [allowed |-> allowed, reached |-> reached, windows |-> <<w, v>>]
    /\ doc' = Normalized(raw')
    /\ stage' = "fetched"
    /\ UNCHANGED <<age, parked, told>>

\* A poll takes the document, perhaps from the cache.
Read ==
    /\ stage = "fetched"
    /\ age' \in Ages
    /\ parked' = IF Exhausted(doc) THEN ExhaustedWindowReset(doc, age') ELSE Unknown
    /\ told' = Headers(doc)
    /\ stage' = "read"
    /\ UNCHANGED <<raw, doc>>

\* A chat request is refused with a body.
Refused ==
    /\ stage = "empty"
    /\ \E body \in Refusals :
         /\ raw' = body
         /\ told' = ResetOfBody(body)
         /\ parked' = SecondsAfter(told', 0)
    /\ stage' = "refused"
    /\ UNCHANGED <<doc, age>>

Next == Fetch \/ Read \/ Refused

Spec == Init /\ [][Next]_vars

-----------------------------------------------------------------------------
(* Properties.                                                               *)

\* When a window opens again, by the vendor's own clock where it gave that.
Opens(window) == IF Known(window.within) /\ window.within > 0
                 THEN window.within ELSE window.at

\* "The subscription opens when the last full window resets": a slot with a full
\* window is parked at least until the last of these opens, and no later than the
\* age of the document after it; or, where the vendor left a reset out, for the default
\* time.  A refusal parks for a time that it names, and for no other.
ParkedUntilItOpens ==
    /\ stage = "read" /\ Known(parked) =>
         LET full == {w \in {raw.windows[1], raw.windows[2]} \ {Absent} : Full(w)} IN
         /\ Exhausted(raw) /\ full # {}
         /\ \A w \in full : Known(Opens(w)) /\ Opens(w) <= age + parked
         /\ \E w \in full : parked <= Opens(w)
    /\ stage = "refused" =>
         LET Named(field) == {raw[i][field] : i \in {j \in DOMAIN raw : raw[j] # Absent}}
                             \ {Unknown}
             positive == {n \in Named("within") \cup Named("at") : n > 0}
         IN  /\ Known(parked) => parked \in positive
             /\ positive = {} => ~Known(parked)
=============================================================================
