----------------------------- MODULE StreamText -----------------------------
(***************************************************************************)
(* From the bytes of an event stream to its lines (decode_stream_chunk and *)
(* the line buffer of src/core/chat_completions.rs).  The network cuts the *)
(* bytes into chunks wherever it likes: within a character, or between a   *)
(* carriage return and its newline.                                        *)
(*                                                                         *)
(* A byte is "a", a character of its own; "\n" or "\r"; "2", "3" or "4",   *)
(* the first of a character of so many bytes; "c", one that continues a    *)
(* character; or "x", one that UTF-8 does not have.                        *)
(***************************************************************************)
EXTENDS Naturals, Sequences

CONSTANTS
    StreamBytes, \* the bytes of the vendor
    MaxBytes,    \* bound on the stream
    MaxChunk     \* bound on a chunk

VARIABLES
    sent,   \* history: all bytes so far
    carry,  \* utf8_carry
    buffer, \* the text of the line that is not complete
    lines   \* the lines that were taken out of it

vars == <<sent, carry, buffer, lines>>

Replaced == "U+FFFD"

\* How many bytes must follow the first of a character, and how many do.
Needs(byte) ==
    CASE byte = "2" -> 1 [] byte = "3" -> 2 [] byte = "4" -> 3 [] OTHER -> 0
Follow(bytes) ==
    LET need == Needs(bytes[1])
        Has(k) == 1 + k <= Len(bytes) /\ \A j \in 1..k : bytes[1 + j] = "c"
    IN  CHOOSE k \in 0..need : Has(k) /\ \A m \in (k + 1)..need : ~Has(m)

\* Nothing is left, or the start of a character whose end may be in the next chunk.
Held(bytes) ==
    \/ bytes = <<>>
    \/ Follow(bytes) < Needs(bytes[1]) /\ Len(bytes) = 1 + Follow(bytes)

\* The next character is written as its first byte, and what can be none is replaced.
Char(bytes) ==
    IF bytes[1] \in {"c", "x"} \/ Follow(bytes) < Needs(bytes[1]) THEN Replaced
    ELSE bytes[1]
Decoded(r) ==
    [text |-> Append(r.text, Char(r.rest)),
     rest |-> SubSeq(r.rest, 2 + Follow(r.rest), Len(r.rest))]

\* Mutant of Decode: each chunk is decoded by itself, lossily.
DecodeLossy(bytes) ==
    LET D[n \in 0..Len(bytes)] ==
            IF n = 0 THEN [text |-> <<>>, rest |-> bytes]
            ELSE LET r == D[n - 1] IN IF r.rest = <<>> THEN r ELSE Decoded(r)
    IN  [text |-> D[Len(bytes)].text, carry |-> <<>>]

\* decode_stream_chunk: its loop ends, at the latest, after as many rounds as there
\* are bytes.
Decode(bytes) ==
    LET D[n \in 0..Len(bytes)] ==
            IF n = 0 THEN [text |-> <<>>, rest |-> bytes]
            ELSE LET r == D[n - 1] IN IF Held(r.rest) THEN r ELSE Decoded(r)
    IN  [text |-> D[Len(bytes)].text, carry |-> D[Len(bytes)].rest]

\* A line without the carriage returns at its end.
Trimmed(line) ==
    LET keep == {i \in 0..Len(line) :
                     \A j \in (i + 1)..Len(line) : line[j] = "\r"}
    IN  SubSeq(line, 1, CHOOSE i \in keep : \A j \in keep : i <= j)

\* A character more: the lines that are complete, but for empty ones, and the rest.
Taken(r, char) ==
    IF char # "\n" THEN [lines |-> r.lines, rest |-> Append(r.rest, char)]
    ELSE [lines |-> IF Trimmed(r.rest) = <<>> THEN r.lines
                    ELSE Append(r.lines, Trimmed(r.rest)),
          rest |-> <<>>]

\* The lines of a text, and what is left of it.
Split(text) ==
    LET S[i \in 0..Len(text)] ==
            IF i = 0 THEN [lines |-> <<>>, rest |-> <<>>]
            ELSE Taken(S[i - 1], text[i])
    IN  S[Len(text)]

-----------------------------------------------------------------------------
Init == sent = <<>> /\ carry = <<>> /\ buffer = <<>> /\ lines = <<>>

\* A chunk arrives: it is decoded behind what was held back, and the lines that
\* it completes are taken out of the buffer.
Receive ==
    \E chunk \in UNION {[1..n -> StreamBytes] : n \in 1..MaxChunk} :
        LET decoded == Decode(carry \o chunk)
            split == Split(buffer \o decoded.text)
        IN  /\ Len(sent) + Len(chunk) <= MaxBytes
            /\ sent' = sent \o chunk
            /\ carry' = decoded.carry
            /\ buffer' = split.rest
            /\ lines' = lines \o split.lines

Next == Receive

Spec == Init /\ [][Next]_vars

-----------------------------------------------------------------------------
(* Properties.                                                               *)

\* Where the network cuts the stream is immaterial: the lines, and the rest, are
\* those of all its bytes at once, and no more than three bytes are held back.
ChunksAreImmaterial ==
    LET whole == Decode(sent) IN
    /\ Len(carry) <= 3 /\ carry = whole.carry
    /\ lines = Split(whole.text).lines
    /\ buffer = Split(whole.text).rest
=============================================================================
