---------------------------- MODULE Conversions ----------------------------
(***************************************************************************)
(* The modules of what is converted on its way: a conversation to the      *)
(* payload, the bytes of the answer to lines, its text to what the client  *)
(* is shown, and the vendor's document to the list of models.              *)
(***************************************************************************)
EXTENDS Integers, Sequences

CONSTANTS
    Absent, None,
    \* Conversation
    Openings, Messages, Environments, Patches, Efforts, MaxMessages,
    MaxSettingsEdits,
    \* StreamText and AnswerText
    StreamBytes, MaxBytes, MaxChunk,
    Pieces, Words, Reach, MaxSpan, MaxSpans,
    \* ModelList
    Documents, Extras, Fallback, MaxInt

VARIABLES
    environment, settings, instructionsFile, config, edits, client,
    messages, payload, reshaped, \* Conversation
    sent, carry, buffer, lines, \* StreamText
    text, said, spans, shown, \* AnswerText
    entry, document, extra, listed, from \* ModelList

talkVars == <<environment, settings, instructionsFile, config, edits, client,
              messages, payload, reshaped>>
streamVars == <<sent, carry, buffer, lines>>
answerVars == <<text, said, spans, shown>>
listVars == <<entry, document, extra, listed, from>>

Talk == INSTANCE Conversation WITH
    MaxEdits <- MaxSettingsEdits, file <- instructionsFile
Stream == INSTANCE StreamText
Answer == INSTANCE AnswerText
List == INSTANCE ModelList WITH shown <- listed

\* What the proofs assume of a conversation: the calls of a message are a list.
ASSUME ConversationAssumption ==
    \A m \in Messages : m.calls \in Seq(Talk!ToSet(m.calls))

\* Of the lists of models: a priority is a number, and the built-in list has no
\* model twice.
ASSUME ListAssumption ==
    /\ MaxInt \in Nat /\ Absent \notin Int
    /\ \A d \in Documents :
         /\ d \in Seq(List!ToSet(d))
         /\ \A i \in DOMAIN d : d[i].priority \in Int \cup {Absent}
    /\ \A e \in Extras : e \in Seq(List!ToSet(e)) /\ Absent \notin List!ToSet(e)
    /\ Fallback \in Seq(List!ToSet(Fallback))
    /\ \A i, j \in DOMAIN Fallback : Fallback[i] = Fallback[j] => i = j

\* Of what the model says: no word is said twice at a time, and none looks like a
\* sign.
ASSUME AnswerAssumption ==
    /\ MaxSpan \in Nat
    /\ Words \in Seq(Answer!ToSet(Words))
    /\ \A i, j \in DOMAIN Words : Words[i] = Words[j] => i = j
    /\ Answer!ToSet(Words) \cap Answer!Signs = {}
    /\ \A p \in Pieces :
         /\ p \in Seq(Answer!Signs \cup {"word"})
         /\ \A i, j \in DOMAIN p : p[i] = "word" /\ p[j] = "word" => i = j
=============================================================================
