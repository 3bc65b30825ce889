----------------------------- MODULE AnswerText -----------------------------
(***************************************************************************)
(* What becomes of the model's words on the way to the client:             *)
(* message_item_text and clean_model_text of src/core/chat_completions.rs. *)
(* Citations become links, the vendor's tags leave the addresses, the      *)
(* parentheses of an address are encoded, raw citation markers are taken   *)
(* out and the spaces around them are tidied.                              *)
(*                                                                         *)
(* A character is a word (all of it is one here), white space, a stop, a   *)
(* bracket, or: "OPEN", "CLOSE" and "MARK", of the private use area, "TAG",*)
(* utm_source=openai, "%", an encoded parenthesis, and "URL", an address.  *)
(***************************************************************************)
EXTENDS Naturals, SequencesExt

CONSTANTS
    Words,   \* the words, in the order in which the model says them
    Pieces,  \* what it may say at a time; "word" stands for the next word
    Reach,   \* how far a marker may extend: 200 characters
    MaxSpan, \* bound on what a citation spans
    MaxSpans \* bound on the citations

VARIABLES
    text, said, \* what the model said, and the number of words in it
    spans,      \* the citations: where each starts and ends
    shown       \* what the client is shown

vars == <<text, said, spans, shown>>

IsWord(c) == c \in ToSet(Words)
Markers == {"OPEN", "CLOSE", "MARK"}
White == {" ", "\n"}

\* The characters that are no words.
Signs == Markers \cup White \cup
         {".", "?", "&", "%", "(", ")", "[", "]", "TAG", "URL", "host"}

\* The text without the characters of a set at its ends.
Trim(s, set) ==
    LET kept == {i \in DOMAIN s : s[i] \notin set}
    IN  IF kept = {} THEN <<>>
        ELSE SubSeq(s, CHOOSE i \in kept : \A j \in kept : i <= j,
                       CHOOSE i \in kept : \A j \in kept : i >= j)

-----------------------------------------------------------------------------
(* Citations.                                                                *)

\* "](": the vendor has made a link of it already.
IsLink(s) == \E i \in 1..(Len(s) - 1) : s[i] = "]" /\ s[i + 1] = "("

Label(s) ==
    LET inner == Trim(Trim(Trim(s, White), {"(", ")", "[", "]"}), White)
    IN  IF inner = <<>> THEN <<"host">>
        ELSE [i \in DOMAIN inner |-> CASE inner[i] = "[" -> "("
                                       [] inner[i] = "]" -> ")"
                                       [] OTHER -> inner[i]]

Address == <<"URL", "(", "URL", ")">>

Linked(s) == IF IsLink(s) THEN s
             ELSE <<"[">> \o Label(s) \o <<"]", "(">> \o Address \o <<")">>

\* Of the citations that start at a place, the first that does not overlap what has
\* been replaced behind it (from the floor on).
Replaced(r, place, citations) ==
    LET fit == {k \in DOMAIN citations :
                    citations[k].start = place /\ citations[k].end <= r.floor}
        span == citations[CHOOSE k \in fit : \A l \in fit : k <= l]
    IN  IF fit = {} THEN r
        ELSE [text |-> SubSeq(r.text, 1, place)
                       \o Linked(SubSeq(r.text, place + 1, span.end))
                       \o SubSeq(r.text, span.end + 1, Len(r.text)),
              floor |-> place]

\* The citations by their starts, from the end, so that no replacement moves what is
\* still to be replaced.  Of those with one start only the first that fits can be
\* replaced: the others end behind it.
Cited(s, citations) ==
    LET C[n \in 0..Len(s)] ==
            IF n = 0 THEN [text |-> s, floor |-> Len(s)]
            ELSE Replaced(C[n - 1], Len(s) - n, citations)
    IN  C[Len(s)].text

-----------------------------------------------------------------------------
(* Markers, tags and parentheses.                                            *)

\* Mutant of Ends: a marker extends to whatever closes it.
EndsAnywhere(s, i) == {j \in (i + 1)..Len(s) : s[j] = "CLOSE"}

\* Where the marker that opens at i may close.
Ends(s, i) ==
    {j \in (i + 1)..Len(s) : s[j] = "CLOSE" /\ j <= i + Reach}

\* strip_cite_markers at the place n: what is within a marker, up to "until", goes
\* with it; one that is not closed near by is only a character.
Strip(s, r, n) ==
    IF n <= r.until THEN r
    ELSE IF s[n] = "OPEN" /\ Ends(s, n) # {}
         THEN [out |-> r.out,
               until |-> CHOOSE j \in Ends(s, n) : \A k \in Ends(s, n) : j <= k]
    ELSE IF s[n] \in Markers THEN r
    ELSE [out |-> Append(r.out, s[n]), until |-> r.until]

Stripped(s) ==
    LET S[n \in 0..Len(s)] == IF n = 0 THEN [out |-> <<>>, until |-> 0]
                              ELSE Strip(s, S[n - 1], n)
    IN  S[Len(s)].out

\* strip_utm at the place n: a tag goes with the "?" or "&" before it; but the "?"
\* stays for the parameter after it.  A tag that is part of no address stays.
Untag(s, r, n) ==
    IF r.skip THEN [out |-> r.out, skip |-> FALSE]
    ELSE IF s[n] # "TAG" \/ r.out = <<>> \/ Last(r.out) \notin {"?", "&"}
         THEN [out |-> Append(r.out, s[n]), skip |-> FALSE]
    ELSE IF Last(r.out) = "?" /\ n < Len(s) /\ s[n + 1] = "&"
         THEN [out |-> r.out, skip |-> TRUE]
    ELSE [out |-> Front(r.out), skip |-> FALSE]

Untagged(s) ==
    LET U[n \in 0..Len(s)] == IF n = 0 THEN [out |-> <<>>, skip |-> FALSE]
                              ELSE Untag(s, U[n - 1], n)
    IN  U[Len(s)].out

\* encode_link_parens at a character: an address ends at the parenthesis that matches
\* its first, or at white space.
Encode(r, c) ==
    IF r.depth = 0
    THEN [out |-> Append(r.out, c),
          depth |-> IF c = "(" /\ r.out # <<>> /\ Last(r.out) = "]" THEN 1 ELSE 0]
    ELSE CASE c \in White -> [out |-> Append(r.out, c), depth |-> 0]
           [] c = "(" -> [out |-> Append(r.out, "%"), depth |-> r.depth + 1]
           [] c = ")" -> [out |-> Append(r.out, IF r.depth = 1 THEN ")" ELSE "%"),
                          depth |-> r.depth - 1]
           [] OTHER -> [out |-> Append(r.out, c), depth |-> r.depth]

Encoded(s) ==
    LET E[n \in 0..Len(s)] == IF n = 0 THEN [out |-> <<>>, depth |-> 0]
                              ELSE Encode(E[n - 1], s[n])
    IN  E[Len(s)].out

\* The text without what stands at some places.
Without(s, places) ==
    LET W[n \in 0..Len(s)] == IF n = 0 THEN <<>>
                              ELSE IF n \in places THEN W[n - 1]
                              ELSE Append(W[n - 1], s[n])
    IN  W[Len(s)]

\* tidy_after_markers
Tidied(s) ==
    LET Then(t, i) == IF i < Len(t) THEN t[i + 1] ELSE ""
        single == Without(s, {i \in DOMAIN s : s[i] = " " /\ Then(s, i) = " "})
        tight == Without(single, {i \in DOMAIN single :
                                      /\ single[i] = " "
                                      /\ \/ Then(single, i) \in {".", "\n"}
                                         \/ i > 1 /\ single[i - 1] = "\n"})
        full == {i \in DOMAIN tight : tight[i] \notin White}
    IN  IF full = {} THEN <<>>
        ELSE SubSeq(tight, 1, CHOOSE i \in full : \A j \in full : i >= j)

\* clean_model_text
Clean(s, citations) ==
    LET joined == Cited(s, citations)
        cleaned == Encoded(Untagged(Stripped(joined)))
    IN  IF \E i \in DOMAIN joined : joined[i] \in Markers THEN Tidied(cleaned)
        ELSE cleaned

-----------------------------------------------------------------------------
Init == text = <<>> /\ said = 0 /\ spans = <<>> /\ shown = <<>>

\* The model says a little more.
Say ==
    /\ spans = <<>> /\ shown = <<>> /\ said < Len(Words)
    /\ \E piece \in Pieces :
         text' = text \o [i \in DOMAIN piece |-> IF piece[i] = "word" THEN Words[said + 1]
                                                 ELSE piece[i]]
    /\ said' = said + 1
    /\ UNCHANGED <<spans, shown>>

\* The vendor adds a citation, which may overlap another.
Cite ==
    /\ shown = <<>> /\ Len(spans) < MaxSpans
    /\ \E start \in 0..Len(text), length \in 1..MaxSpan :
         /\ start + length <= Len(text)
         /\ spans' = Append(spans, [start |-> start, end |-> start + length])
    /\ UNCHANGED <<text, said, shown>>

\* message_item_text: the item is done, and shown unless nothing is left of it.
Show ==
    /\ shown = <<>>
    /\ shown' = LET clean == Clean(text, spans)
                IN  IF Trim(clean, White) = <<>> THEN <<>> ELSE clean
    /\ UNCHANGED <<text, said, spans>>

Next == Say \/ Cite \/ Show

Spec == Init /\ [][Next]_vars

-----------------------------------------------------------------------------
(* Properties.                                                               *)

\* "An unclosed block must not eat the answer": whatever is cited, marked or
\* tagged, the client is shown the words of the model, each once and in their
\* order, but for those within a marker, and no raw marker.  And where nothing had to be
\* tidied, the first parenthesis after the start of a link is the one that closes it,
\* since a parser of markdown takes it for that.
AnswerIsReadable ==
    shown # <<>> =>
        LET Earlier(v, w) == \E a, b \in DOMAIN Words :
                a < b /\ Words[a] = v /\ Words[b] = w
            Within(i) == \E a, b \in DOMAIN text :
                /\ text[a] = "OPEN" /\ text[b] = "CLOSE" /\ a < i /\ i < b
                /\ spans = <<>> => b <= a + Reach
        IN  /\ \A i, j \in DOMAIN shown :
                 i < j /\ IsWord(shown[i]) /\ IsWord(shown[j]) => Earlier(shown[i], shown[j])
            /\ \A i \in DOMAIN text :
                 IsWord(text[i]) /\ ~Within(i) => text[i] \in ToSet(shown)
            /\ ToSet(shown) \cap Markers = {}
            /\ ToSet(text) \cap Markers = {} =>
                 \A i, j \in DOMAIN shown :
                     1 < i /\ i < j /\ shown[i - 1] = "]" /\ shown[i] = "(" /\ shown[j] = "("
                     => \E k \in (i + 1)..(j - 1) : shown[k] \in {")"} \cup White
=============================================================================
