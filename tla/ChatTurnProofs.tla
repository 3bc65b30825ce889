-------------------------- MODULE ChatTurnProofs --------------------------
(* Proofs about ChatTurn, for any slots, texts, capacity and bounds. *)
EXTENDS ChatTurn, TLAPS, FiniteSetTheorems

-----------------------------------------------------------------------------
(* Events and turns.                                                         *)

LEMMA ChunkTyped == Chunk \in Event
  BY DEF Chunk, Event, Tiers

\* A terminal is an event a client takes for a failure, whatever the naming and
\* with whatever tier it is sent.
LEMMA TerminalFails ==
    ASSUME NEW code \in Codes, NEW force \in BOOLEAN, NEW tier \in Tiers
    PROVE  /\ Terminal(code, force) \in Event
           /\ Fails(Terminal(code, force))
           /\ [Terminal(code, force) EXCEPT !.tier = tier] \in Event
           /\ Fails([Terminal(code, force) EXCEPT !.tier = tier])
  <1> DEFINE finish == IF naming = "finish_reason" THEN code ELSE "error"
             structured == force \/ naming # "off"
             e == Terminal(code, force)
  <1>1. finish \in {"error"} \cup Codes /\ structured \in BOOLEAN
    BY DEF Codes
  <1>2. finish \notin {"none", "stop", "tool_calls"}
    BY DEF Codes, Quota, NeedsLogin, Unavailable, Torn, UpstreamError
  <1>3. e = [Chunk EXCEPT !.code = code, !.finish = finish,
                          !.structured = structured]
    BY Zenon DEF Terminal
  <1> HIDE DEF finish, structured, e
  <1>4. e \in Event /\ e.finish = finish
    BY <1>1, <1>3, ChunkTyped DEF Event
  <1>5. [e EXCEPT !.tier = tier] \in Event /\ [e EXCEPT !.tier = tier].finish = finish
    BY <1>4 DEF Event
  <1> QED
    BY <1>2, <1>4, <1>5 DEF Fails, e

LEMMA BlameTyped ==
    ASSUME NEW attempts, NEW refusal
    PROVE  Blame(attempts, refusal) \in Codes
  BY DEF Blame, Codes

LEMMA SendTyped ==
    ASSUME NEW t \in Turn, Send(t)
    PROVE  turn' \in Turn
  <1> DEFINE a == t.attempt + 1
  <1>1. a \in Nat
    BY DEF Turn
  <1>2. turn' = [t EXCEPT !.pc = "sending", !.attempt = a]
    BY DEF Send
  <1> HIDE DEF a
  <1> QED
    BY <1>1, <1>2 DEF Turn

LEMMA OfferTyped ==
    ASSUME NEW t \in Turn, NEW e \in Event, NEW next \in {"streaming", "done"},
           Offer(t, e, next)
    PROVE  turn' \in Turn
  BY DEF Offer, Turn

\* A refusal that blames the account is added to the account_attempts.
LEMMA AttemptsTyped ==
    ASSUME turn \in Turn, turn.slot \in Slots, NEW refusal \in {"quota", "auth"}
    PROVE  [turn EXCEPT !.account_attempts = Append(@, Blames[refusal])] \in Turn
  <1> DEFINE attempts == Append(turn.account_attempts, Blames[refusal])
  <1>1. Blames[refusal] \in Slots \X {Quota, NeedsLogin}
    BY DEF Blames
  <1>2. attempts \in Seq(Slots \X {Quota, NeedsLogin})
    BY <1>1 DEF Turn
  <1> HIDE DEF attempts
  <1>3. [turn EXCEPT !.account_attempts = attempts] \in Turn
    BY <1>2 DEF Turn
  <1> QED
    BY <1>3, Zenon DEF attempts

-----------------------------------------------------------------------------
(* What the actions are made of.                                             *)

\* A failure is offered: the turn is as good as over.
LEMMA OfferFailure ==
    ASSUME TurnInv, turn.pc \notin {"emitting", "done"},
           NEW e \in Event, Fails(e), Offer(turn, e, "done"),
           stream' \in Stream, stream'.saw_completed <=> stream.saw_completed,
           UNCHANGED channel
    PROVE  turn' \in Turn /\ Leased' /\ Counted' /\ Unheard' /\ Verdict'
  <1> USE DEF TurnInv, TypeOK, Offer
  <1>1. turn' \in Turn
    BY OfferTyped
  <1>2. Leased'
    BY DEF Leased, Turn
  <1>3. Counted'
    BY DEF Counted, Turn
  <1>4. Unheard'
    BY DEF Unheard, Turn
  <1>5. Verdict'
    BY DEF Verdict, Turn, channel
  <1> QED
    BY <1>1, <1>2, <1>3, <1>4, <1>5

\* The replay, after a failure before anything useful was sent.
LEMMA Replay ==
    ASSUME TurnInv, turn.pc \in {"sending", "streaming"},
           ~turn.stream_retry_done,
           Send([turn EXCEPT !.stream_retry_done = TRUE]),
           stream' \in Stream,
           stream'.saw_completed <=> stream.saw_completed,
           turn.pc = "streaming" => ~stream.meaningful_event_sent,
           stream'.actual_service_tier # "named",
           UNCHANGED channel
    PROVE  turn' \in Turn /\ Leased' /\ Counted' /\ Unheard' /\ Verdict'
  <1> USE DEF TurnInv, TypeOK
  <1>1. turn' \in Turn
    BY SendTyped DEF Turn
  <1>2. Leased'
    BY DEF Leased, Turn, Send
  <1>3. Counted'
    BY DEF Counted, Turn, Send
  <1>4. Unheard'
    BY DEF Unheard, Turn, Send, channel
  <1>5. Verdict'
    BY DEF Verdict, Turn, Send, channel
  <1> QED
    BY <1>1, <1>2, <1>3, <1>4, <1>5

\* The end of a stream that was not completed.
LEMMA FailKeeps ==
    ASSUME TurnInv, At("streaming"), NEW tier \in Tiers, Fail(tier),
           stream' \in Stream, stream'.actual_service_tier = tier,
           stream'.saw_completed <=> stream.saw_completed,
           UNCHANGED channel
    PROVE  turn' \in Turn /\ Leased' /\ Counted' /\ Unheard' /\ Verdict'
  <1> DEFINE e == [Terminal(Torn, TRUE) EXCEPT !.tier = tier]
  <1>1. CASE /\ ~stream.meaningful_event_sent /\ ~turn.stream_retry_done
             /\ tier # "named"
    <2>1. Send([turn EXCEPT !.stream_retry_done = TRUE])
      BY <1>1, Zenon DEF Fail
    <2> QED
      BY <1>1, <2>1, Replay DEF At
  <1>2. CASE Offer(turn, e, "done")
    <2>1. e \in Event /\ Fails(e)
      BY TerminalFails DEF Codes
    <2> HIDE DEF e
    <2> QED
      BY <1>2, <2>1, OfferFailure DEF At
  <1> QED
    BY <1>1, <1>2, Zenon DEF Fail

\* What the backend said is passed on: a step that leaves nothing to pass on, or
\* an event that finishes the turn only if the response is completed.
LEMMA ForwardKeeps ==
    ASSUME TurnInv, At("streaming"), NEW e \in Event, ~Fails(e),
           e.text # NoText /\ e.finish = "none" => e.tier = "unsaid",
           NEW completed \in BOOLEAN, completed => e.finish # "none",
           Forward(e, completed)
    PROVE  /\ turn' \in Turn /\ stream' \in Stream
           /\ Leased' /\ Counted' /\ Unheard' /\ Verdict'
  <1> DEFINE repeated == e.text # NoText /\ e.text = stream.last_sent_content
             tier == IF e.tier = "unsaid" THEN stream.actual_service_tier
                     ELSE e.tier
             text == IF repeated THEN NoText ELSE e.text
             index == IF e.tool THEN stream.tool_call_index + 1
                      ELSE stream.tool_call_index
             last == IF text = NoText THEN stream.last_sent_content ELSE text
             lines == stream.lines + 1
             f == [e EXCEPT !.tier = tier, !.text = text]
             next == IF completed THEN "done" ELSE "streaming"
  <1>1. stream \in Stream
    BY DEF TurnInv, TypeOK
  <1>2. tier \in Tiers /\ text \in Texts \cup {NoText} /\ index \in Nat
        /\ last \in Texts \cup {NoText} /\ lines \in Nat
    BY <1>1 DEF Stream, Event
  <1>3. stream' = [stream EXCEPT !.saw_completed = completed,
                                 !.actual_service_tier = tier,
                                 !.tool_call_index = index,
                                 !.last_sent_content = last, !.lines = lines]
    BY Zenon DEF Forward
  <1>4. /\ IF repeated /\ e.finish = "none" THEN UNCHANGED turn
           ELSE Offer(turn, f, next)
        /\ UNCHANGED channel
    BY Zenon DEF Forward
  <1>5. f \in Event /\ f.tier = tier /\ f.finish = e.finish
        /\ (f.error <=> e.error) /\ (f.structured <=> e.structured)
    <2> HIDE DEF tier, text
    <2> QED
      BY <1>2 DEF Event
  <1>6. ~Fails(f)
    BY <1>5, Zenon DEF Fails
  <1>7. next \in {"streaming", "done"}
    OBVIOUS
  <1> HIDE DEF tier, text, index, last, lines, f
  <1>8. /\ stream' \in Stream
        /\ stream'.saw_completed <=> completed
        /\ stream'.actual_service_tier = tier
        /\ stream'.meaningful_event_sent <=> stream.meaningful_event_sent
    BY <1>1, <1>2, <1>3 DEF Stream
  <1>9. CASE repeated /\ e.finish = "none"
    <2>1. UNCHANGED <<turn, channel>> /\ ~completed
      BY <1>4, <1>9
    <2>2. tier = stream.actual_service_tier
      BY <1>9 DEF tier
    <2>3. Unheard'
      BY <1>8, <2>1, <2>2 DEF TurnInv, Unheard, channel
    <2>4. Verdict'
      BY <1>8, <2>1, <2>2, Zenon DEF TurnInv, Verdict, channel, At
    <2>5. turn' \in Turn /\ Leased' /\ Counted'
      BY <2>1 DEF TurnInv, TypeOK, Leased, Counted
    <2> QED
      BY <1>8, <2>3, <2>4, <2>5
  <1>10. CASE ~(repeated /\ e.finish = "none")
    <2>1. Offer(turn, f, next) /\ UNCHANGED channel
      BY <1>4, <1>10
    <2>2. turn' \in Turn
      BY <1>5, <1>7, <2>1, OfferTyped DEF TurnInv, TypeOK
    <2>3. Leased'
      BY <2>1 DEF TurnInv, TypeOK, Leased, Turn, Offer, At
    <2>4. Counted'
      BY <2>1, <1>7 DEF TurnInv, TypeOK, Counted, Turn, Offer, At
    <2>5. Unheard'
      BY <2>1, <1>5, <1>8 DEF TurnInv, TypeOK, Unheard, Turn, Offer, At, channel, Useful
    <2>6. Verdict'
      BY <2>1, <1>5, <1>6, <1>8 DEF TurnInv, TypeOK, Verdict, Turn, Offer, At, channel
    <2> QED
      BY <1>8, <2>2, <2>3, <2>4, <2>5, <2>6
  <1> QED
    BY <1>9, <1>10

-----------------------------------------------------------------------------
(* The actions preserve the invariant.                                       *)

LEMMA AccountsKeep ==
    ASSUME TurnInv,
           LeaseFails \/ MoveFails \/ \E s \in Slots : Lease(s) \/ Move(s)
    PROVE  TurnInv'
  <1>1. CASE LeaseFails
    <2> DEFINE e == [Chunk EXCEPT !.error = TRUE]
    <2>1. e \in Event /\ Fails(e)
      <3>1. e \in Event
        BY ChunkTyped DEF Event
      <3>2. e.error
        BY ChunkTyped DEF Event
      <3> HIDE DEF e
      <3> QED
        BY <3>1, <3>2, Zenon DEF Fails
    <2>2. Offer(turn, e, "done") /\ At("leasing")
          /\ UNCHANGED <<naming, stream, channel, history>>
      BY <1>1 DEF LeaseFails
    <2> HIDE DEF e
    <2>3. turn' \in Turn /\ Leased' /\ Counted' /\ Unheard' /\ Verdict'
      BY <2>1, <2>2, OfferFailure DEF TurnInv, TypeOK, At
    <2> QED
      BY <2>2, <2>3 DEF TurnInv, TypeOK, channel, history
  <1>2. CASE MoveFails
    <2> DEFINE code == Blame(turn.account_attempts, turn.refusal)
               e == Terminal(code, FALSE)
    <2>1. e \in Event /\ Fails(e)
      <3>1. code \in Codes
        BY BlameTyped
      <3> HIDE DEF code
      <3> QED
        BY <3>1, TerminalFails DEF Tiers
    <2>2. Offer(turn, e, "done") /\ At("moving")
          /\ UNCHANGED <<naming, stream, channel, history>>
      BY <1>2 DEF MoveFails
    <2> HIDE DEF e
    <2>3. turn' \in Turn /\ Leased' /\ Counted' /\ Unheard' /\ Verdict'
      BY <2>1, <2>2, OfferFailure DEF TurnInv, TypeOK, At
    <2> QED
      BY <2>2, <2>3 DEF TurnInv, TypeOK, channel, history
  <1>3. ASSUME NEW s \in Slots, Lease(s) PROVE TurnInv'
    <2>1. turn' \in Turn
      BY <1>3, SendTyped DEF Lease, TurnInv, TypeOK, Turn
    <2>2. TypeOK'
      BY <1>3, <2>1 DEF Lease, TurnInv, TypeOK, channel, history
    <2>3. Leased'
      BY <1>3 DEF Lease, Send, TurnInv, TypeOK, Leased, Turn
    <2>6. Counted'
      <3>1. /\ turn.pc = "leasing" /\ turn'.pc = "sending"
            /\ turn'.attempt = turn.attempt + 1 /\ turn'.moves = turn.moves
            /\ turn'.retried <=> turn.retried
            /\ turn'.account_failover_done <=> turn.account_failover_done
            /\ turn'.stream_retry_done <=> turn.stream_retry_done
        BY <1>3 DEF Lease, Send, At, TurnInv, TypeOK, Turn
      <3> QED
        BY <3>1 DEF TurnInv, TypeOK, Counted, Turn
    <2>4. Unheard'
      BY <1>3 DEF Lease, Send, At, TurnInv, TypeOK, Unheard, Turn, channel
    <2>5. Verdict'
      BY <1>3 DEF Lease, Send, At, TurnInv, TypeOK, Verdict, Turn, channel
    <2> QED
      BY <2>2, <2>3, <2>4, <2>5, <2>6 DEF TurnInv
  <1>4. ASSUME NEW s \in Slots, Move(s) PROVE TurnInv'
    <2>1. turn' \in Turn
      BY <1>4, SendTyped DEF Move, TurnInv, TypeOK, Turn
    <2>2. TypeOK'
      BY <1>4, <2>1 DEF Move, TurnInv, TypeOK, channel, history
    <2>3. Leased'
      BY <1>4 DEF Move, Send, TurnInv, TypeOK, Leased, Turn
    <2>6. Counted'
      <3>1. /\ turn.pc = "moving" /\ turn'.pc = "sending"
            /\ turn'.attempt = turn.attempt + 1 /\ turn'.moves = turn.moves
            /\ turn'.retried <=> turn.retried
            /\ turn'.account_failover_done
            /\ turn'.stream_retry_done <=> turn.stream_retry_done
        BY <1>4 DEF Move, Send, At, TurnInv, TypeOK, Turn
      <3> QED
        BY <3>1 DEF TurnInv, TypeOK, Counted, Turn
    <2>4. Unheard'
      BY <1>4 DEF Move, Send, At, TurnInv, TypeOK, Unheard, Turn, channel
    <2>5. Verdict'
      BY <1>4 DEF Move, Send, At, TurnInv, TypeOK, Verdict, Turn, channel
    <2> QED
      BY <2>2, <2>3, <2>4, <2>5, <2>6 DEF TurnInv
  <1> QED
    BY <1>1, <1>2, <1>3, <1>4

LEMMA HeadKeeps ==
    ASSUME TurnInv,
           TransportFails \/ Accept \/ \E refusal \in Refusals : Refuse(refusal)
    PROVE  TurnInv'
  <1>1. CASE TransportFails
    <2> DEFINE e == Terminal(Torn, TRUE)
    <2>1. At("sending") /\ UNCHANGED <<naming, stream, channel, history>>
      BY <1>1, Zenon DEF TransportFails
    <2>2. CASE /\ ~turn.stream_retry_done
               /\ Send([turn EXCEPT !.stream_retry_done = TRUE])
      <3>1. stream.actual_service_tier # "named"
        BY <2>1 DEF TurnInv, Unheard, At
      <3>2. turn' \in Turn /\ Leased' /\ Counted' /\ Unheard' /\ Verdict'
        BY <2>1, <2>2, <3>1, Replay DEF TurnInv, TypeOK, At
      <3> QED
        BY <2>1, <3>2 DEF TurnInv, TypeOK, channel, history
    <2>3. CASE Offer(turn, e, "done")
      <3>1. e \in Event /\ Fails(e)
        BY TerminalFails DEF Codes, Tiers
      <3> HIDE DEF e
      <3>2. turn' \in Turn /\ Leased' /\ Counted' /\ Unheard' /\ Verdict'
        BY <2>1, <2>3, <3>1, OfferFailure DEF TurnInv, TypeOK, At
      <3> QED
        BY <2>1, <3>2 DEF TurnInv, TypeOK, channel, history
    <2> QED
      BY <1>1, <2>2, <2>3, Zenon DEF TransportFails
  <1>2. CASE Accept
    <2>1. TypeOK'
      BY <1>2 DEF Accept, NewStream, TurnInv, TypeOK, Turn, Stream, Tiers, At, channel
    <2>2. Leased' /\ Counted'
      BY <1>2 DEF Accept, At, TurnInv, TypeOK, Leased, Counted, Turn
    <2>3. Unheard'
      BY <1>2 DEF Accept, At, NewStream, TurnInv, TypeOK, Unheard, Turn, channel
    <2>4. Verdict'
      BY <1>2 DEF Accept, At, NewStream, TurnInv, TypeOK, Verdict, Turn, channel
    <2> QED
      BY <2>1, <2>2, <2>3, <2>4 DEF TurnInv
  <1>3. ASSUME NEW refusal \in Refusals, Refuse(refusal) PROVE TurnInv'
    <2>1. TypeOK'
      BY <1>3 DEF Refuse, TurnInv, TypeOK, Turn, At, channel, history
    <2>2. Leased' /\ Counted'
      BY <1>3 DEF Refuse, At, TurnInv, TypeOK, Leased, Counted, Turn
    <2>3. Unheard'
      BY <1>3 DEF Refuse, At, TurnInv, TypeOK, Unheard, Turn, channel
    <2>4. Verdict'
      BY <1>3 DEF Refuse, At, TurnInv, TypeOK, Verdict, Turn, channel
    <2> QED
      BY <2>1, <2>2, <2>3, <2>4 DEF TurnInv
  <1> QED
    BY <1>1, <1>2, <1>3

LEMMA DecideKeeps ==
    ASSUME TurnInv, Decide
    PROVE  TurnInv'
  <1> DEFINE blamed == turn.refusal \in {"quota", "auth"}
             t == IF blamed
                  THEN [turn EXCEPT !.account_attempts =
                                        Append(@, Blames[turn.refusal])]
                  ELSE turn
             code == Blame(t.account_attempts, t.refusal)
             e == Terminal(code, FALSE)
  <1>1. At("refused") /\ UNCHANGED <<naming, stream, channel, said>>
    BY Zenon DEF Decide
  <1>2. \/ /\ blamed /\ ~turn.account_failover_done
           /\ turn' = [t EXCEPT !.pc = "moving", !.moves = @ + 1]
        \/ ~turn.retried /\ Send([t EXCEPT !.retried = TRUE])
        \/ Offer(t, e, "done")
    BY Zenon DEF Decide
  <1>3. refused' = IF blamed THEN refused \cup {Blames[turn.refusal]} ELSE refused
    BY Zenon DEF Decide
  <1>4. turn \in Turn /\ turn.slot \in Slots
    BY <1>1 DEF TurnInv, TypeOK, Leased, At
  <1>5. t \in Turn
    BY <1>4, AttemptsTyped
  <1>6. /\ t.pc = turn.pc /\ t.slot = turn.slot /\ t.attempt = turn.attempt
        /\ t.moves = turn.moves /\ (t.retried <=> turn.retried)
        /\ (t.account_failover_done <=> turn.account_failover_done)
        /\ (t.stream_retry_done <=> turn.stream_retry_done)
    BY <1>4 DEF Turn
  <1>7. refused' \subseteq Slots \X {Quota, NeedsLogin}
    BY <1>3, <1>4 DEF Blames, TurnInv, TypeOK
  <1> HIDE DEF t, blamed
  <1>8. e \in Event /\ Fails(e)
    <2>1. code \in Codes
      BY BlameTyped
    <2> HIDE DEF code
    <2> QED
      BY <2>1, TerminalFails DEF Tiers
  <1> HIDE DEF e
  <1>9. turn' \in Turn
    <2>1. CASE turn' = [t EXCEPT !.pc = "moving", !.moves = @ + 1]
      <3> DEFINE moves == t.moves + 1
      <3>1. moves \in Nat /\ turn' = [t EXCEPT !.pc = "moving", !.moves = moves]
        BY <1>5, <2>1 DEF Turn
      <3> HIDE DEF moves
      <3> QED
        BY <1>5, <3>1 DEF Turn
    <2>2. CASE Send([t EXCEPT !.retried = TRUE])
      <3>1. [t EXCEPT !.retried = TRUE] \in Turn
        BY <1>5 DEF Turn
      <3> QED
        BY <2>2, <3>1, SendTyped
    <2>3. CASE Offer(t, e, "done")
      BY <1>5, <1>8, <2>3, OfferTyped
    <2> QED
      BY <1>2, <2>1, <2>2, <2>3
  <1>10. \/ turn'.pc \in {"moving", "sending"} /\ turn'.slot = turn.slot
         \/ turn'.pc = "emitting" /\ turn'.next = "done" /\ turn'.event = e
    BY <1>2, <1>5, <1>6 DEF Send, Offer, Turn
  <1>11. TypeOK'
    BY <1>1, <1>7, <1>9 DEF TurnInv, TypeOK, channel
  <1>12. Leased'
    BY <1>4, <1>10 DEF Leased
  <1>13. Counted'
    <2>1. /\ turn'.retried <=> t.retried \/ turn'.pc = "sending"
          /\ turn'.account_failover_done <=> t.account_failover_done
          /\ turn'.stream_retry_done <=> t.stream_retry_done
      BY <1>2, <1>5 DEF Send, Offer, Turn
    <2>2. \/ /\ ~turn.account_failover_done /\ turn'.pc = "moving"
             /\ turn'.attempt = t.attempt /\ turn'.moves = t.moves + 1
          \/ /\ ~turn.retried /\ turn'.pc = "sending"
             /\ turn'.attempt = t.attempt + 1 /\ turn'.moves = t.moves
          \/ /\ turn'.pc = "emitting" /\ turn'.next = "done"
             /\ turn'.attempt = t.attempt /\ turn'.moves = t.moves
      BY <1>2, <1>5, <1>6 DEF blamed, Send, Offer, Turn
    <2> QED
      BY <1>1, <1>4, <1>6, <2>1, <2>2 DEF TurnInv, TypeOK, Counted, Turn, At
  <1>14. Unheard'
    BY <1>1, <1>10 DEF TurnInv, Unheard, At, channel
  <1>15. Verdict'
    BY <1>1, <1>8, <1>10 DEF TurnInv, Verdict, At, channel
  <1> QED
    BY <1>11, <1>12, <1>13, <1>14, <1>15 DEF TurnInv

LEMMA StreamKeeps ==
    ASSUME TurnInv,
           \/ Silent \/ FunctionCall \/ Finish
           \/ \E tier \in Tiers : Envelope(tier)
           \/ \E text \in Texts : Message(text)
           \/ \E text \in Texts \cup {NoText}, usage \in BOOLEAN, tier \in Tiers :
                Completed(text, usage, tier)
    PROVE  TurnInv'
  <1>1. CASE Silent
    <2>1. stream' = [stream EXCEPT !.lines = @ + 1]
          /\ UNCHANGED <<naming, turn, channel, history>>
      BY <1>1 DEF Silent
    <2>2. stream' \in Stream
      <3> DEFINE lines == stream.lines + 1
      <3>1. lines \in Nat /\ stream' = [stream EXCEPT !.lines = lines]
        BY <2>1 DEF TurnInv, TypeOK, Stream
      <3> HIDE DEF lines
      <3> QED
        BY <3>1 DEF TurnInv, TypeOK, Stream
    <2>3. /\ stream'.saw_completed <=> stream.saw_completed
          /\ stream'.meaningful_event_sent <=> stream.meaningful_event_sent
          /\ stream'.actual_service_tier = stream.actual_service_tier
      BY <2>1 DEF TurnInv, TypeOK, Stream
    <2>4. TypeOK' /\ Leased' /\ Counted'
      BY <2>1, <2>2 DEF TurnInv, TypeOK, Leased, Counted, channel, history
    <2>5. Unheard'
      BY <2>1, <2>3, Zenon DEF TurnInv, Unheard, channel
    <2>6. Verdict'
      BY <2>1, <2>3, Zenon DEF TurnInv, Verdict, channel
    <2> QED
      BY <2>4, <2>5, <2>6 DEF TurnInv
  <1>2. ASSUME At("streaming"), NEW e \in Event, ~Fails(e),
               e.text # NoText /\ e.finish = "none" => e.tier = "unsaid",
               NEW completed \in BOOLEAN, completed => e.finish # "none",
               Forward(e, completed),
               said' \subseteq Texts \cup {"function_call"}
        PROVE  TurnInv'
    <2>1. /\ turn' \in Turn /\ stream' \in Stream
          /\ Leased' /\ Counted' /\ Unheard' /\ Verdict'
      BY <1>2, ForwardKeeps
    <2>2. UNCHANGED <<naming, channel, refused>>
      BY <1>2, Zenon DEF Forward
    <2> QED
      BY <1>2, <2>1, <2>2 DEF TurnInv, TypeOK, channel
  <1>3. said \subseteq Texts \cup {"function_call"}
    BY DEF TurnInv, TypeOK
  <1>4. CASE FunctionCall
    <2> DEFINE e == [Chunk EXCEPT !.tool = TRUE]
    <2>1. e \in Event /\ e.text = NoText /\ ~Fails(e)
      BY DEF Chunk, Event, Tiers, Fails
    <2>2. Forward(e, FALSE) /\ At("streaming") /\ said' = said \cup {"function_call"}
      BY <1>4 DEF FunctionCall, Read
    <2> HIDE DEF e
    <2> QED
      BY <1>2, <1>3, <2>1, <2>2
  <1>5. CASE Finish
    <2> DEFINE e == [Chunk EXCEPT !.finish = "stop"]
    <2>1. e \in Event /\ e.text = NoText /\ ~Fails(e)
      BY DEF Chunk, Event, Tiers, Fails
    <2>2. Forward(e, FALSE) /\ At("streaming") /\ said' = said
      BY <1>5 DEF Finish, Read
    <2> HIDE DEF e
    <2> QED
      BY <1>2, <1>3, <2>1, <2>2
  <1>6. ASSUME NEW tier \in Tiers, Envelope(tier) PROVE TurnInv'
    <2> DEFINE e == [Chunk EXCEPT !.tier = tier]
    <2>1. e \in Event /\ e.text = NoText /\ ~Fails(e)
      BY DEF Chunk, Event, Fails
    <2>2. Forward(e, FALSE) /\ At("streaming") /\ said' = said
      BY <1>6 DEF Envelope, Read
    <2> HIDE DEF e
    <2> QED
      BY <1>2, <1>3, <2>1, <2>2
  <1>7. ASSUME NEW text \in Texts, Message(text) PROVE TurnInv'
    <2> DEFINE e == [Chunk EXCEPT !.text = text]
    <2>1. e \in Event /\ e.tier = "unsaid" /\ ~Fails(e)
      BY DEF Chunk, Event, Tiers, Fails
    <2>2. Forward(e, FALSE) /\ At("streaming") /\ said' = said \cup {text}
      BY <1>7 DEF Message, Read
    <2> HIDE DEF e
    <2> QED
      BY <1>2, <1>3, <2>1, <2>2
  <1>8. ASSUME NEW text \in Texts \cup {NoText}, NEW usage \in BOOLEAN,
               NEW tier \in Tiers, Completed(text, usage, tier)
        PROVE  TurnInv'
    <2>1. PICK finish \in {"stop", "tool_calls"} :
            Forward([Chunk EXCEPT !.text = text, !.usage = usage, !.tier = tier,
                                  !.finish = finish], TRUE)
      BY <1>8, Zenon DEF Completed
    <2> DEFINE e == [Chunk EXCEPT !.text = text, !.usage = usage, !.tier = tier,
                                  !.finish = finish]
    <2>2. e \in Event /\ e.finish # "none" /\ ~Fails(e)
      BY DEF Chunk, Event, Tiers, Fails
    <2>3. At("streaming") /\ said' = said \cup ({text} \ {NoText})
      BY <1>8, Zenon DEF Completed, Read
    <2>4. Forward(e, TRUE)
      BY <2>1
    <2>5. said' \subseteq Texts \cup {"function_call"}
      BY <1>3, <2>3
    <2> HIDE DEF e
    <2> QED
      BY <1>2, <2>2, <2>3, <2>4, <2>5
  <1> QED
    BY <1>1, <1>4, <1>5, <1>6, <1>7, <1>8

LEMMA EndKeeps ==
    ASSUME TurnInv,
           StreamEnds \/ \E tier \in Tiers : Failed(tier)
    PROVE  TurnInv'
  <1>1. stream \in Stream /\ stream.actual_service_tier \in Tiers
    BY DEF TurnInv, TypeOK, Stream
  <1>2. CASE StreamEnds
    <2>1. At("streaming") /\ Fail(stream.actual_service_tier)
          /\ UNCHANGED <<naming, stream, channel, history>>
      BY <1>2 DEF StreamEnds
    <2>2. turn' \in Turn /\ Leased' /\ Counted' /\ Unheard' /\ Verdict'
      BY <1>1, <2>1, FailKeeps
    <2> QED
      BY <1>1, <2>1, <2>2 DEF TurnInv, TypeOK, channel, history
  <1>3. ASSUME NEW tier \in Tiers, Failed(tier) PROVE TurnInv'
    <2> DEFINE named == IF tier = "unsaid" THEN stream.actual_service_tier ELSE tier
               lines == stream.lines + 1
    <2>1. named \in Tiers /\ lines \in Nat
      BY <1>1 DEF Stream
    <2>2. /\ stream' = [stream EXCEPT !.lines = lines,
                                      !.actual_service_tier = named]
          /\ Fail(stream'.actual_service_tier)
          /\ At("streaming") /\ UNCHANGED <<naming, channel, history>>
      BY <1>3, Zenon DEF Failed, Read
    <2> HIDE DEF named, lines
    <2>3. /\ stream' \in Stream /\ stream'.actual_service_tier = named
          /\ stream'.saw_completed <=> stream.saw_completed
      BY <1>1, <2>1, <2>2 DEF Stream
    <2>4. Fail(named)
      BY <2>2, <2>3
    <2>5. turn' \in Turn /\ Leased' /\ Counted' /\ Unheard' /\ Verdict'
      BY <2>1, <2>2, <2>3, <2>4, FailKeeps
    <2> QED
      BY <2>2, <2>3, <2>5 DEF TurnInv, TypeOK, channel, history
  <1> QED
    BY <1>2, <1>3

LEMMA DeliverKeeps ==
    ASSUME TurnInv, Deliver
    PROVE  TurnInv'
  <1> DEFINE heard == stream.meaningful_event_sent \/ Useful(turn.event)
             e == turn.event
  <1>1. /\ turn \in Turn /\ stream \in Stream /\ sent \in Seq(Event)
        /\ e \in Event /\ turn.next \in {"streaming", "done"}
    BY DEF TurnInv, TypeOK, Turn
  <1>2. /\ turn.pc = "emitting" /\ client = "open"
        /\ Len(sent) - taken < Capacity
        /\ sent' = Append(sent, e)
        /\ turn' = [turn EXCEPT !.pc = turn.next, !.event = Chunk]
        /\ stream' = [stream EXCEPT !.meaningful_event_sent = heard]
        /\ UNCHANGED <<naming, taken, client, history>>
    BY Zenon DEF Deliver, At
  <1>3. heard \in BOOLEAN
    OBVIOUS
  <1> HIDE DEF heard
  <1>4. /\ turn' \in Turn /\ turn'.pc = turn.next /\ turn'.slot = turn.slot
        /\ turn'.attempt = turn.attempt /\ turn'.moves = turn.moves
        /\ turn'.retried <=> turn.retried
        /\ turn'.account_failover_done <=> turn.account_failover_done
        /\ turn'.stream_retry_done <=> turn.stream_retry_done
    BY <1>1, <1>2, ChunkTyped DEF Turn
  <1>5. /\ stream' \in Stream
        /\ stream'.saw_completed <=> stream.saw_completed
        /\ stream'.meaningful_event_sent <=> heard
        /\ stream'.actual_service_tier = stream.actual_service_tier
    BY <1>1, <1>2, <1>3 DEF Stream
  <1>6. /\ sent' \in Seq(Event) /\ Len(sent') = Len(sent) + 1
        /\ Len(sent) \in Nat /\ sent'[Len(sent')] = e
        /\ DOMAIN sent' = 1 .. Len(sent')
        /\ \A i \in DOMAIN sent' : \/ i \in DOMAIN sent /\ sent'[i] = sent[i]
                                   \/ i = Len(sent') /\ sent'[i] = e
    BY <1>1, <1>2
  <1>7. TypeOK'
    <2>1. taken' \in 0 .. Len(sent')
      BY <1>2, <1>6 DEF TurnInv, TypeOK
    <2>2. Len(sent') - taken' <= Capacity
      BY <1>2, <1>6, BoundsAssumption DEF TurnInv, TypeOK
    <2> QED
      BY <1>2, <1>4, <1>5, <1>6, <2>1, <2>2 DEF TurnInv, TypeOK, history
  <1>8. Leased' /\ Counted'
    <2>1. Counted'
      BY <1>1, <1>2, <1>4 DEF TurnInv, TypeOK, Counted, Turn
    <2>2. turn.next = "streaming" => turn.slot \in Slots
      BY <1>2 DEF TurnInv, Leased
    <2> QED
      BY <1>1, <1>4, <2>1, <2>2 DEF Leased
  <1>9. Unheard'
    <2>1. SUFFICES ASSUME turn.next = "streaming", ~heard
                   PROVE  /\ \A i \in DOMAIN sent' : ~Useful(sent'[i])
                          /\ stream'.actual_service_tier # "named"
      BY <1>1, <1>4, <1>5 DEF Unheard
    <2>2. ~stream.meaningful_event_sent /\ ~Useful(e)
      BY <2>1 DEF heard
    <2>3. \A i \in DOMAIN sent : ~Useful(sent[i])
      BY <1>2, <2>1, <2>2 DEF TurnInv, Unheard
    <2>4. stream.actual_service_tier # "named"
      BY <1>2, <2>1, <2>2 DEF TurnInv, Unheard
    <2> QED
      BY <1>5, <1>6, <2>2, <2>3, <2>4
  <1>10. Verdict'
    <2>1. \A i \in DOMAIN sent : ~Fails(sent[i])
      BY <1>2 DEF TurnInv, Verdict
    <2>2. CASE turn.next = "streaming"
      <3>1. ~Fails(e) /\ ~stream.saw_completed
        BY <1>2, <2>2 DEF TurnInv, Verdict
      <3>2. \A i \in DOMAIN sent' : ~Fails(sent'[i])
        BY <1>6, <2>1, <3>1
      <3> QED
        BY <1>4, <1>5, <2>2, <3>1, <3>2 DEF Verdict
    <2>3. CASE turn.next = "done"
      <3>1. IF stream.saw_completed THEN ~Fails(e) /\ e.finish # "none"
            ELSE Fails(e)
        BY <1>2, <2>3 DEF TurnInv, Verdict
      <3>2. \A i \in DOMAIN sent' : Fails(sent'[i]) => i = Len(sent')
        BY <1>6, <2>1
      <3>3. sent' # <<>>
        BY <1>1, <1>2
      <3>4. turn'.pc = "done"
        BY <1>4, <2>3
      <3>5. Fails(sent'[Len(sent')]) <=> ~stream'.saw_completed
        BY <1>5, <1>6, <3>1
      <3>6. stream'.saw_completed => sent'[Len(sent')].finish # "none"
        BY <1>5, <1>6, <3>1
      <3> QED
        BY <3>2, <3>3, <3>4, <3>5, <3>6 DEF Verdict
    <2> QED
      BY <1>1, <2>2, <2>3
  <1> QED
    BY <1>7, <1>8, <1>9, <1>10 DEF TurnInv

LEMMA ClientKeeps ==
    ASSUME TurnInv, Take \/ Leave \/ Abandon
    PROVE  TurnInv'
  <1>1. CASE Take
    <2>1. TypeOK'
      BY <1>1, BoundsAssumption DEF Take, TurnInv, TypeOK, history
    <2>2. Leased' /\ Counted'
      BY <1>1 DEF Take, TurnInv, Leased, Counted
    <2>3. Unheard' /\ Verdict'
      BY <1>1 DEF Take, TurnInv, Unheard, Verdict
    <2> QED
      BY <2>1, <2>2, <2>3 DEF TurnInv
  <1>2. CASE Leave
    <2>1. TypeOK'
      BY <1>2 DEF Leave, TurnInv, TypeOK, history
    <2>2. Leased' /\ Counted' /\ Unheard'
      BY <1>2 DEF Leave, TurnInv, Leased, Counted, Unheard
    <2>3. Verdict'
      BY <1>2 DEF Leave, TurnInv, Verdict
    <2> QED
      BY <2>1, <2>2, <2>3 DEF TurnInv
  <1>3. CASE Abandon
    <2>1. turn' \in Turn /\ turn'.pc = "done"
      BY <1>3 DEF Abandon, TurnInv, TypeOK, Turn
    <2>2. TypeOK' /\ Leased'
      BY <1>3, <2>1 DEF Abandon, TurnInv, TypeOK, Leased, channel, history
    <2>3. Counted'
      BY <1>3 DEF Abandon, TurnInv, TypeOK, Counted, Turn
    <2>4. Unheard'
      BY <2>1 DEF Unheard
    <2>5. Verdict'
      <3>1. client' = "gone" /\ sent' = sent /\ turn.pc # "done"
        BY <1>3 DEF Abandon, channel
      <3>2. \A i \in DOMAIN sent : ~Fails(sent[i])
        BY <3>1 DEF TurnInv, Verdict
      <3> QED
        BY <2>1, <3>1, <3>2 DEF Verdict
    <2> QED
      BY <2>2, <2>3, <2>4, <2>5 DEF TurnInv
  <1> QED
    BY <1>1, <1>2, <1>3

-----------------------------------------------------------------------------
(* The theorems.                                                             *)

LEMMA InitEstablishes ==
    ASSUME Init
    PROVE  TurnInv
  <1> USE DEF Init
  <1>1. turn \in Turn
    BY ChunkTyped DEF Turn, Refusals
  <1>2. TypeOK
    BY <1>1, BoundsAssumption DEF TypeOK, Stream, NewStream, Tiers
  <1>3. Leased /\ Counted /\ Unheard
    BY DEF Leased, Counted, Unheard, NewStream
  <1>4. Verdict
    BY DEF Verdict, NewStream
  <1> QED
    BY <1>2, <1>3, <1>4 DEF TurnInv

LEMMA NextKeeps ==
    ASSUME TurnInv, [Next]_vars
    PROVE  TurnInv'
  <1>1. CASE UNCHANGED vars
    BY <1>1 DEF vars, TurnInv, TypeOK, Leased, Counted, Unheard, Verdict
  <1>2. CASE Next
    BY <1>2, AccountsKeep, HeadKeeps, DecideKeeps, StreamKeeps, EndKeeps,
       DeliverKeeps, ClientKeeps DEF Next
  <1> QED
    BY <1>1, <1>2

\* The inductive invariant of the turn: the type; that requests are made with a
\* leased slot; the requests and moves already spent against the flags that pay
\* for them; that a stream whose flag says nothing useful went out let nothing
\* out; and which event carries the verdict.
THEOREM TurnInvariant == Spec => []TurnInv
  <1>1. Init => TurnInv
    BY InitEstablishes
  <1>2. TurnInv /\ [Next]_vars => TurnInv'
    BY NextKeeps
  <1> QED
    BY <1>1, <1>2, PTL DEF Spec

\* Every variable keeps its type, and no more than Capacity events wait in the
\* channel.
THEOREM TurnTypeCorrect == Spec => []TypeOK
  <1>1. TurnInv => TypeOK
    BY DEF TurnInv
  <1> QED
    BY <1>1, TurnInvariant, PTL

\* The failover, the conservative retry and the replay never add up to more than
\* four requests and one move, whatever their order.
THEOREM RequestsBounded == Spec => []RequestsAreBounded
  <1>1. TurnInv => RequestsAreBounded
    BY DEF TurnInv, TypeOK, Counted, Turn, RequestsAreBounded
  <1> QED
    BY <1>1, TurnInvariant, PTL

\* A failure is the last thing a client is sent, and a turn whose client stays
\* does not end in silence.
THEOREM FailureToldOnce == Spec => []ToldOnce
  <1>1. TurnInv => ToldOnce
    <2> SUFFICES ASSUME TurnInv PROVE ToldOnce
      OBVIOUS
    <2>1. sent \in Seq(Event)
      BY DEF TurnInv, TypeOK
    <2>2. \A i \in DOMAIN sent : Fails(sent[i]) => i = Len(sent)
      BY DEF TurnInv, Verdict
    <2>3. turn.pc = "done" /\ client = "open" => Len(sent) > 0
      BY <2>1 DEF TurnInv, Verdict
    <2> QED
      BY <2>2, <2>3 DEF ToldOnce
  <1> QED
    BY <1>1, TurnInvariant, PTL

\* chat_response::collect makes an answer of exactly the completed responses,
\* under every naming of the terminals.
THEOREM DocumentIsWhole == Spec => []CollectedIsWhole
  <1>1. TurnInv => CollectedIsWhole
    <2> SUFFICES ASSUME TurnInv, turn.pc = "done", client = "open"
                 PROVE  Collected <=> stream.saw_completed
      BY DEF CollectedIsWhole
    <2>1. Len(sent) \in DOMAIN sent
      BY DEF TurnInv, TypeOK, Verdict
    <2>2. \A i \in DOMAIN sent : Fails(sent[i]) => i = Len(sent)
      BY DEF TurnInv, Verdict
    <2>3. Fails(sent[Len(sent)]) <=> ~stream.saw_completed
      BY DEF TurnInv, Verdict
    <2>4. stream.saw_completed => sent[Len(sent)].finish # "none"
      BY DEF TurnInv, Verdict
    <2> QED
      BY <2>1, <2>2, <2>3, <2>4 DEF Collected
  <1> QED
    BY <1>1, TurnInvariant, PTL

\* Where requests leave from.
LEMMA RequestsLeave ==
    ASSUME TurnInv, Next, turn'.attempt # turn.attempt
    PROVE  \/ turn.pc \in {"leasing", "sending", "refused", "moving"}
           \/ turn.pc = "streaming" /\ ~stream.meaningful_event_sent
  <1>1. turn \in Turn
    BY DEF TurnInv, TypeOK
  <1>2. ASSUME NEW e, NEW next, Offer(turn, e, next)
        PROVE  turn'.attempt = turn.attempt
    BY <1>1, <1>2 DEF Offer, Turn
  <1>3. ASSUME NEW e, NEW completed, Forward(e, completed)
        PROVE  turn'.attempt = turn.attempt
    <2>1. \/ UNCHANGED turn
          \/ \E f, next : Offer(turn, f, next)
      BY <1>3, Zenon DEF Forward
    <2> QED
      BY <1>2, <2>1
  <1>4. ASSUME At("streaming"), NEW tier, Fail(tier)
        PROVE  turn.pc = "streaming" /\ ~stream.meaningful_event_sent
    <2>1. ~stream.meaningful_event_sent \/ \E e : Offer(turn, e, "done")
      BY <1>4, Zenon DEF Fail
    <2> QED
      BY <1>2, <1>4, <2>1 DEF At
  <1>5. ASSUME NEW s \in Slots, Lease(s) \/ Move(s)
        PROVE  turn.pc \in {"leasing", "moving"}
    BY <1>5 DEF Lease, Move, At
  <1>6. CASE LeaseFails \/ MoveFails \/ TransportFails \/ Accept \/ Decide
             \/ \E refusal \in Refusals : Refuse(refusal)
    <2>1. At("leasing") \/ At("moving") \/ At("sending") \/ At("refused")
      BY <1>6, Zenon DEF LeaseFails, MoveFails, TransportFails, Accept, Decide,
         Refuse
    <2> QED
      BY <2>1 DEF At
  <1>7. CASE Silent \/ Take \/ Leave
    BY <1>7 DEF Silent, Take, Leave
  <1>8. CASE Deliver \/ Abandon
    <2>1. turn'.attempt = turn.attempt
      BY <1>1, <1>8 DEF Deliver, Abandon, Turn
    <2> QED
      BY <2>1
  <1>9. CASE FunctionCall \/ Finish \/ \E tier \in Tiers : Envelope(tier)
    BY <1>3, <1>9, Zenon DEF FunctionCall, Finish, Envelope
  <1>10. CASE \E text \in Texts : Message(text)
    BY <1>3, <1>10, Zenon DEF Message
  <1>11. CASE \E text \in Texts \cup {NoText}, usage \in BOOLEAN, tier \in Tiers :
                Completed(text, usage, tier)
    BY <1>3, <1>11, Zenon DEF Completed
  <1>12. CASE StreamEnds \/ \E tier \in Tiers : Failed(tier)
    BY <1>4, <1>12, Zenon DEF StreamEnds, Failed, Read
  <1> QED
    BY <1>5, <1>6, <1>7, <1>8, <1>9, <1>10, <1>11, <1>12 DEF Next

\* No request leaves the relay once the client heard something it could act
\* upon.
THEOREM NeverReplayed == Spec => NoReplay
  <1>1. TurnInv /\ [Next]_vars =>
          [turn'.attempt # turn.attempt =>
             /\ \A i \in DOMAIN sent : ~Useful(sent[i])
             /\ stream.actual_service_tier # "named"]_vars
    BY RequestsLeave, Zenon DEF TurnInv, Unheard
  <1> QED
    BY <1>1, TurnInvariant, PTL DEF Spec, NoReplay

-----------------------------------------------------------------------------
(* Blame.                                                                    *)

\* Of the two codes that blame an account, a set with more than one has both, and
\* one with no more than one has only its member.
LEMMA OneOrBoth ==
    ASSUME NEW codes \in SUBSET {Quota, NeedsLogin}
    PROVE  /\ Cardinality(codes) > 1 => codes = {Quota, NeedsLogin}
           /\ \A code \in codes : Cardinality(codes) <= 1 => codes = {code}
  <1>1. Quota # NeedsLogin
    BY DEF Quota, NeedsLogin
  <1>2. \/ codes = {} \/ codes = {Quota} \/ codes = {NeedsLogin}
        \/ codes = {Quota, NeedsLogin}
    OBVIOUS
  <1>3. /\ Cardinality({}) = 0
        /\ Cardinality({Quota}) = 1 /\ Cardinality({NeedsLogin}) = 1
    BY FS_EmptySet, FS_Singleton
  <1>4. Cardinality({Quota, NeedsLogin}) = 2
    <2>1. IsFiniteSet({Quota}) /\ NeedsLogin \notin {Quota}
      BY <1>1, FS_Singleton
    <2>2. Cardinality({Quota} \cup {NeedsLogin}) = Cardinality({Quota}) + 1
      BY <2>1, FS_AddElement
    <2>3. {Quota} \cup {NeedsLogin} = {Quota, NeedsLogin}
      OBVIOUS
    <2> QED
      BY <1>3, <2>2, <2>3
  <1> QED
    BY <1>2, <1>3, <1>4

\* The name that stream_chat_completions gives a refusal is honest, if the refusal
\* itself is among the attempts where it blames the account, and two attempts are
\* of two slots.
LEMMA BlameIsHonest ==
    ASSUME NEW attempts \in Seq(Slots \X {Quota, NeedsLogin}),
           Len(attempts) <= 2,
           Len(attempts) = 2 => attempts[1][1] # attempts[2][1],
           NEW refusal,
           refusal = "quota" => \E i \in DOMAIN attempts : attempts[i][2] = Quota,
           refusal = "auth" => \E i \in DOMAIN attempts : attempts[i][2] = NeedsLogin,
           NEW completed \in BOOLEAN
    PROVE  Honest(Blame(attempts, refusal), {attempts[i] : i \in DOMAIN attempts},
                  completed)
  <1> DEFINE codes == {attempts[i][2] : i \in DOMAIN attempts}
             refusals == {attempts[i] : i \in DOMAIN attempts}
             code == Blame(attempts, refusal)
  <1>1. \A i \in DOMAIN attempts : attempts[i] \in Slots \X {Quota, NeedsLogin}
    OBVIOUS
  <1>2. codes \in SUBSET {Quota, NeedsLogin}
    BY <1>1
  <1>3. codes = {r[2] : r \in refusals}
    OBVIOUS
  <1>4. /\ code = Unavailable => Cardinality(codes) > 1
        /\ code = Quota => Cardinality(codes) <= 1 /\ refusal = "quota"
        /\ code = NeedsLogin => Cardinality(codes) <= 1 /\ refusal = "auth"
        /\ code # Torn
    BY DEF Blame, Quota, NeedsLogin, Unavailable, Torn, UpstreamError
  <1>5. refusal = "quota" => Quota \in codes
    OBVIOUS
  <1>6. refusal = "auth" => NeedsLogin \in codes
    OBVIOUS
  <1>7. \A r, q \in refusals : r[2] # q[2] => r[1] # q[1]
    <2> SUFFICES ASSUME NEW i \in DOMAIN attempts, NEW j \in DOMAIN attempts,
                        attempts[i][2] # attempts[j][2]
                 PROVE  attempts[i][1] # attempts[j][1]
      OBVIOUS
    <2>1. i # j /\ i \in 1..2 /\ j \in 1..2 /\ Len(attempts) = 2
      OBVIOUS
    <2> QED
      BY <2>1
  <1> HIDE DEF codes, refusals, code
  <1>8. codes = {Quota, NeedsLogin} \/ code # Unavailable
    BY <1>2, <1>4, OneOrBoth
  <1>9. code \in {Quota, NeedsLogin} => codes = {code}
    BY <1>2, <1>4, <1>5, <1>6, OneOrBoth
  <1>10. Honest(code, refusals, completed)
    BY <1>3, <1>4, <1>7, <1>8, <1>9, Zenon DEF Honest
  <1> QED
    BY <1>10 DEF code, refusals

LEMMA NoCodeIsHonest ==
    ASSUME NEW refusals, NEW completed
    PROVE  Honest("none", refusals, completed)
  BY DEF Honest, Quota, NeedsLogin, Unavailable, Torn

LEMMA TerminalCode ==
    ASSUME NEW code \in Codes, NEW force \in BOOLEAN, NEW tier \in Tiers
    PROVE  /\ Terminal(code, force).code = code
           /\ [Terminal(code, force) EXCEPT !.tier = tier].code = code
  <1>1. Terminal(code, force) \in Event
    BY TerminalFails
  <1>2. Terminal(code, force).code = code
    BY DEF Terminal, Chunk
  <1> QED
    BY <1>1, <1>2 DEF Event

\* What Send and Offer leave of the turn.
LEMMA SendSays ==
    ASSUME NEW t \in Turn, Send(t)
    PROVE  /\ turn'.pc = "sending" /\ turn'.slot = t.slot
           /\ turn'.account_attempts = t.account_attempts
           /\ turn'.account_failover_done <=> t.account_failover_done
  BY DEF Send, Turn

LEMMA OfferSays ==
    ASSUME NEW t \in Turn, NEW e, NEW next, Offer(t, e, next)
    PROVE  /\ turn'.pc = "emitting" /\ turn'.event = e /\ turn'.next = next
           /\ turn'.slot = t.slot
           /\ turn'.account_attempts = t.account_attempts
           /\ turn'.account_failover_done <=> t.account_failover_done
  BY DEF Offer, Turn

-----------------------------------------------------------------------------
\* A step that blames nobody: it asks, waits, reads on, or offers an event whose
\* code, if it has one, is honest.
LEMMA NobodyBlamed ==
    ASSUME BlameInv, turn.pc \notin {"moving", "emitting", "done"},
           turn'.account_attempts = turn.account_attempts,
           turn'.slot = turn.slot,
           turn'.account_failover_done <=> turn.account_failover_done,
           sent' = sent, refused' = refused,
           \/ turn'.pc = turn.pc
           \/ turn'.pc \in {"sending", "streaming", "refused"}
           \/ /\ turn'.pc = "emitting"
              /\ \/ turn'.event.code = "none"
                 \/ /\ turn'.next = "done"
                    /\ Honest(turn'.event.code, refused, stream'.saw_completed)
    PROVE  Remembered' /\ Blamed'
  <1>1. GoesOn
    BY DEF GoesOn
  <1>2. Remembered'
    BY <1>1, Zenon DEF BlameInv, Remembered, GoesOn
  <1>3. sent \in Seq(Event) /\ Offered = sent
    BY DEF BlameInv, TurnInv, TypeOK, Offered
  <1>4. \A i \in DOMAIN sent : sent[i].code = "none"
    BY <1>1, <1>3 DEF BlameInv, Blamed
  <1>5. Blamed'
    <2>1. CASE turn'.pc # "emitting"
      <3>1. Offered' = sent
        BY <2>1 DEF Offered
      <3> QED
        BY <1>4, <3>1, NoCodeIsHonest DEF Blamed
    <2>2. CASE turn'.pc = "emitting"
      <3>1. Offered' = Append(sent, turn'.event)
        BY <2>2 DEF Offered
      <3>2. \A i \in DOMAIN Offered' :
              Offered'[i].code \in {"none", turn'.event.code}
        BY <1>3, <1>4, <3>1
      <3>3. Honest(turn'.event.code, refused, stream'.saw_completed)
        BY <2>2, NoCodeIsHonest
      <3>4. GoesOn' => turn'.event.code = "none"
        BY <2>2 DEF GoesOn
      <3>5. \A i \in DOMAIN Offered' :
              Honest(Offered'[i].code, refused, stream'.saw_completed)
        BY <3>2, <3>3, NoCodeIsHonest
      <3> QED
        BY <3>2, <3>4, <3>5 DEF Blamed
    <2> QED
      BY <2>1, <2>2
  <1> QED
    BY <1>2, <1>5

\* A forwarded event has the code of the backend's, if the turn offers it at all.
LEMMA ForwardSays ==
    ASSUME TurnInv, At("streaming"), NEW e \in Event, NEW completed \in BOOLEAN,
           Forward(e, completed)
    PROVE  /\ UNCHANGED <<refused, sent>>
           /\ \/ UNCHANGED turn
              \/ \E f \in Event :
                   f.code = e.code
                   /\ Offer(turn, f, IF completed THEN "done" ELSE "streaming")
  <1> DEFINE tier == IF e.tier = "unsaid" THEN stream.actual_service_tier
                     ELSE e.tier
             text == IF e.text # NoText /\ e.text = stream.last_sent_content
                     THEN NoText ELSE e.text
             f == [e EXCEPT !.tier = tier, !.text = text]
  <1>1. tier \in Tiers /\ text \in Texts \cup {NoText}
    BY DEF TurnInv, TypeOK, Stream, Event
  <1>2. /\ UNCHANGED <<refused, channel>>
        /\ \/ UNCHANGED turn
           \/ Offer(turn, f, IF completed THEN "done" ELSE "streaming")
    BY Zenon DEF Forward
  <1> HIDE DEF tier, text
  <1>3. f \in Event /\ f.code = e.code
    BY <1>1 DEF Event
  <1> QED
    BY <1>2, <1>3 DEF channel

-----------------------------------------------------------------------------
(* The actions keep the codes honest.                                        *)

LEMMA BlameAccounts ==
    ASSUME BlameInv,
           LeaseFails \/ MoveFails \/ \E s \in Slots : Lease(s) \/ Move(s)
    PROVE  Remembered' /\ Blamed'
  <1>1. /\ turn \in Turn /\ sent \in Seq(Event) /\ stream.saw_completed \in BOOLEAN
        /\ turn.account_attempts \in Seq(Slots \X {Quota, NeedsLogin})
    BY DEF BlameInv, TurnInv, TypeOK, Turn, Stream
  <1>2. CASE LeaseFails
    <2> DEFINE e == [Chunk EXCEPT !.error = TRUE]
    <2>1. e.code = "none"
      BY DEF Chunk
    <2>2. Offer(turn, e, "done") /\ At("leasing")
          /\ UNCHANGED <<naming, stream, channel, history>>
      BY <1>2 DEF LeaseFails
    <2> HIDE DEF e
    <2> QED
      BY <1>1, <2>1, <2>2, OfferSays, NobodyBlamed DEF At, channel, history
  <1>3. CASE MoveFails
    <2> DEFINE attempts == turn.account_attempts
               code == Blame(attempts, turn.refusal)
               e == Terminal(code, FALSE)
    <2>1. Offer(turn, e, "done") /\ turn.pc = "moving"
          /\ UNCHANGED <<stream, sent, refused>>
      BY <1>3 DEF MoveFails, At, channel, history
    <2>2. /\ refused = {attempts[i] : i \in DOMAIN attempts}
          /\ turn.refusal \in {"quota", "auth"}
          /\ attempts = <<Blames[turn.refusal]>>
      BY <2>1, Zenon DEF BlameInv, Remembered
    <2>3. /\ turn.refusal = "quota" => attempts[1][2] = Quota
          /\ turn.refusal = "auth" => attempts[1][2] = NeedsLogin
          /\ DOMAIN attempts = 1..1 /\ Len(attempts) = 1
      BY <2>2 DEF Blames
    <2> HIDE DEF attempts
    <2>4. Honest(code, refused, stream.saw_completed)
      BY <1>1, <2>2, <2>3, BlameIsHonest DEF attempts
    <2>5. code \in Codes
      BY BlameTyped
    <2> HIDE DEF code
    <2>6. e.code = code
      BY <2>5, TerminalCode DEF Tiers
    <2> HIDE DEF e
    <2>7. /\ turn'.pc = "emitting" /\ turn'.event = e /\ turn'.next = "done"
          /\ turn'.account_attempts = attempts
      BY <1>1, <2>1, OfferSays DEF attempts
    <2>8. Remembered'
      BY <1>1, <2>1, <2>2, <2>3, <2>7 DEF Remembered, GoesOn
    <2>9. ~GoesOn'
      BY <2>7 DEF GoesOn
    <2>10. \A i \in DOMAIN sent : sent[i].code = "none"
      BY <1>1, <2>1 DEF BlameInv, Blamed, GoesOn, Offered
    <2>11. Offered' = Append(sent, e)
      BY <2>1, <2>7 DEF Offered
    <2>12. \A i \in DOMAIN Offered' : Offered'[i].code \in {"none", code}
      BY <1>1, <2>6, <2>10, <2>11
    <2> QED
      BY <2>1, <2>4, <2>8, <2>9, <2>12, NoCodeIsHonest DEF Blamed
  <1>4. ASSUME NEW s \in Slots, Lease(s) \/ Move(s) PROVE Remembered' /\ Blamed'
    <2>1. /\ turn.pc \in {"leasing", "moving"} /\ UNCHANGED <<stream, sent, refused>>
          /\ turn'.pc = "sending" /\ turn'.slot = s
          /\ turn'.account_attempts = turn.account_attempts
      BY <1>1, <1>4 DEF Lease, Move, Send, Turn, At, channel, history
    <2>2. Remembered'
      <3>1. CASE Lease(s)
        <4>1. turn.pc = "leasing"
              /\ (turn'.account_failover_done <=> turn.account_failover_done)
          BY <1>1, <3>1 DEF Lease, Send, Turn, At
        <4> QED
          BY <2>1, <4>1, Zenon DEF BlameInv, Remembered, GoesOn
      <3>2. CASE Move(s)
        <4>1. turn.pc = "moving" /\ s # turn.slot /\ turn'.account_failover_done
          BY <1>1, <3>2 DEF Move, Send, Turn, At
        <4>2. /\ turn.account_attempts = <<Blames[turn.refusal]>>
              /\ turn.refusal \in {"quota", "auth"}
              /\ refused = {turn.account_attempts[i] :
                              i \in DOMAIN turn.account_attempts}
          BY <4>1, Zenon DEF BlameInv, Remembered
        <4>3. /\ Len(turn.account_attempts) = 1
              /\ turn.account_attempts[1][1] = turn.slot
          BY <4>2 DEF Blames
        <4> QED
          BY <2>1, <4>1, <4>2, <4>3 DEF Remembered
      <3> QED
        BY <1>4, <3>1, <3>2
    <2>3. \A i \in DOMAIN sent : sent[i].code = "none"
      BY <1>1, <2>1 DEF BlameInv, Blamed, GoesOn, Offered
    <2>4. Offered' = sent
      BY <2>1 DEF Offered
    <2> QED
      BY <2>2, <2>3, <2>4, NoCodeIsHonest DEF Blamed
  <1> QED
    BY <1>2, <1>3, <1>4

LEMMA BlameHead ==
    ASSUME BlameInv,
           TransportFails \/ Accept \/ \E refusal \in Refusals : Refuse(refusal)
    PROVE  Remembered' /\ Blamed'
  <1>1. turn \in Turn /\ turn.pc = "sending" /\ UNCHANGED <<sent, refused>>
    <2>1. At("sending") /\ UNCHANGED <<channel, refused>>
      BY Zenon DEF TransportFails, Accept, Refuse, history
    <2> QED
      BY <2>1 DEF At, channel, BlameInv, TurnInv, TypeOK
  <1>2. CASE TransportFails
    <2> DEFINE e == Terminal(Torn, TRUE)
               t == [turn EXCEPT !.stream_retry_done = TRUE]
    <2>1. UNCHANGED stream /\ (Send(t) \/ Offer(turn, e, "done"))
      BY <1>2, Zenon DEF TransportFails
    <2>2. /\ t \in Turn /\ t.slot = turn.slot
          /\ t.account_attempts = turn.account_attempts
          /\ t.account_failover_done <=> turn.account_failover_done
      BY <1>1 DEF Turn
    <2>3. e.code = Torn
      BY TerminalCode DEF Codes, Tiers
    <2>4. ~stream.saw_completed
      BY <1>1 DEF BlameInv, TurnInv, Verdict
    <2>5. Honest(e.code, refused, stream'.saw_completed)
      BY <2>1, <2>3, <2>4
         DEF Honest, Quota, NeedsLogin, Unavailable, Torn
    <2> HIDE DEF e, t
    <2>6. CASE Send(t)
      BY <1>1, <2>1, <2>2, <2>6, SendSays, NobodyBlamed
    <2>7. CASE Offer(turn, e, "done")
      BY <1>1, <2>1, <2>5, <2>7, OfferSays, NobodyBlamed
    <2> QED
      BY <2>1, <2>6, <2>7
  <1>3. CASE Accept \/ \E refusal \in Refusals : Refuse(refusal)
    <2>1. /\ turn'.pc \in {"streaming", "refused"} /\ turn'.slot = turn.slot
          /\ turn'.account_attempts = turn.account_attempts
          /\ turn'.account_failover_done <=> turn.account_failover_done
      BY <1>1, <1>3 DEF Accept, Refuse, Turn
    <2> QED
      BY <1>1, <2>1, NobodyBlamed
  <1> QED
    BY <1>2, <1>3

LEMMA BlameDecide ==
    ASSUME BlameInv, Decide
    PROVE  Remembered' /\ Blamed'
  <1> DEFINE blamed == turn.refusal \in {"quota", "auth"}
             blame == Blames[turn.refusal]
             old == turn.account_attempts
             t == IF blamed
                  THEN [turn EXCEPT !.account_attempts = Append(@, blame)]
                  ELSE turn
             attempts == IF blamed THEN Append(old, blame) ELSE old
             code == Blame(t.account_attempts, t.refusal)
             e == Terminal(code, FALSE)
  <1>1. /\ turn.pc = "refused" /\ UNCHANGED <<stream, sent>>
        /\ refused' = IF blamed THEN refused \cup {blame} ELSE refused
    BY Zenon DEF Decide, At, channel
  <1>2. \/ blamed /\ ~turn.account_failover_done
           /\ turn' = [t EXCEPT !.pc = "moving", !.moves = @ + 1]
        \/ ~blamed /\ Send([t EXCEPT !.retried = TRUE])
        \/ (blamed => turn.account_failover_done) /\ Offer(t, e, "done")
    <2>1. turn.refusal = "shape" => ~blamed
      OBVIOUS
    <2> QED
      BY <2>1, Zenon DEF Decide
  <1>3. /\ turn \in Turn /\ turn.slot \in Slots /\ sent \in Seq(Event)
        /\ stream.saw_completed \in BOOLEAN
        /\ old \in Seq(Slots \X {Quota, NeedsLogin}) /\ turn.refusal \in Refusals
    BY <1>1 DEF BlameInv, TurnInv, TypeOK, Leased, Turn, Stream
  <1>4. blamed => /\ blame \in Slots \X {Quota, NeedsLogin}
                  /\ blame[1] = turn.slot
                  /\ blame[2] = IF turn.refusal = "quota" THEN Quota ELSE NeedsLogin
    BY <1>3 DEF Blames
  <1>5. t \in Turn
    BY <1>3, AttemptsTyped
  <1>6. /\ t.slot = turn.slot /\ t.refusal = turn.refusal
        /\ t.account_attempts = attempts
        /\ t.account_failover_done <=> turn.account_failover_done
    BY <1>3 DEF Turn
  <1>7. /\ refused = {old[i] : i \in DOMAIN old}
        /\ IF turn.account_failover_done
           THEN Len(old) = 1 /\ old[1][1] # turn.slot ELSE old = <<>>
    BY <1>1, Zenon DEF BlameInv, Remembered, GoesOn
  <1>8. /\ attempts \in Seq(Slots \X {Quota, NeedsLogin})
        /\ refused' = {attempts[i] : i \in DOMAIN attempts}
    <2>1. CASE ~blamed
      BY <1>1, <1>3, <1>7, <2>1
    <2>2. CASE blamed
      <3>1. attempts \in Seq(Slots \X {Quota, NeedsLogin})
        BY <1>3, <1>4, <2>2
      <3> HIDE DEF blame
      <3>2. /\ DOMAIN attempts = (DOMAIN old) \cup {Len(old) + 1}
            /\ \A i \in DOMAIN old : attempts[i] = old[i]
            /\ attempts[Len(old) + 1] = blame
        BY <1>3, <2>2
      <3>3. {attempts[i] : i \in DOMAIN attempts}
              = {old[i] : i \in DOMAIN old} \cup {blame}
        <4> HIDE DEF attempts, old
        <4> QED
          BY <3>2
      <3> QED
        BY <1>1, <1>7, <2>2, <3>1, <3>3
    <2> QED
      BY <2>1, <2>2
  <1>9. /\ Len(attempts) <= 2
        /\ Len(attempts) = 2 => attempts[1][1] # attempts[2][1]
        /\ ~blamed => attempts = old
        /\ blamed /\ ~turn.account_failover_done => attempts = <<blame>>
        /\ blamed => \E i \in DOMAIN attempts : attempts[i] = blame
    <2> HIDE DEF old, blame
    <2>0. Len(old) = 1 \/ (old = <<>> /\ Len(old) = 0)
      BY <1>7
    <2>1. CASE ~blamed
      <3>1. attempts = old
        BY <2>1
      <3> HIDE DEF attempts, blamed
      <3> QED
        BY <2>0, <2>1, <3>1
    <2>2. CASE blamed /\ ~turn.account_failover_done
      <3>0. old = <<>>
        BY <1>7, <2>2, Zenon
      <3>1. attempts = <<blame>>
        BY <2>2, <3>0
      <3> QED
        BY <2>2, <3>1
    <2>3. CASE blamed /\ turn.account_failover_done
      <3>0. Len(old) = 1 /\ old[1][1] # turn.slot
        BY <1>7, <2>3, Zenon
      <3>1. attempts = Append(old, blame)
        BY <2>3
      <3> HIDE DEF attempts
      <3>2. Len(attempts) = 2 /\ attempts[1] = old[1] /\ attempts[2] = blame
            /\ 2 \in DOMAIN attempts
        BY <1>3, <1>4, <2>3, <3>0, <3>1
      <3> QED
        BY <1>4, <2>3, <3>0, <3>2
    <2> QED
      BY <2>1, <2>2, <2>3
  <1>10. /\ turn.refusal = "quota" => \E i \in DOMAIN attempts : attempts[i][2] = Quota
         /\ turn.refusal = "auth" =>
              \E i \in DOMAIN attempts : attempts[i][2] = NeedsLogin
    BY <1>4, <1>9
  <1> HIDE DEF attempts, t, old
  <1>11. Honest(code, refused', stream.saw_completed)
    BY <1>3, <1>6, <1>8, <1>9, <1>10, BlameIsHonest
  <1>12. code \in Codes
    BY BlameTyped
  <1> HIDE DEF code
  <1>13. e.code = code
    BY <1>12, TerminalCode DEF Tiers
  <1> HIDE DEF e
  <1>14. \A i \in DOMAIN sent : sent[i].code = "none"
    BY <1>1, <1>3 DEF BlameInv, Blamed, GoesOn, Offered
  <1>15. CASE /\ blamed /\ ~turn.account_failover_done
              /\ turn' = [t EXCEPT !.pc = "moving", !.moves = @ + 1]
    <2>1. /\ turn'.pc = "moving" /\ turn'.account_attempts = attempts
          /\ turn'.refusal = turn.refusal /\ turn'.slot = turn.slot
      BY <1>5, <1>6, <1>15 DEF Turn
    <2>2. turn'.account_attempts = <<(Blames[turn.refusal])'>>
      BY <1>9, <1>15, <2>1 DEF Blames
    <2>3. Remembered'
      BY <1>8, <1>9, <1>15, <2>1, <2>2, Zenon DEF Remembered, Blames, blamed
    <2>4. Offered' = sent
      BY <1>1, <2>1 DEF Offered
    <2> QED
      BY <1>14, <2>3, <2>4, NoCodeIsHonest DEF Blamed
  <1>16. CASE ~blamed /\ Send([t EXCEPT !.retried = TRUE])
    <2>1. /\ [t EXCEPT !.retried = TRUE] \in Turn
          /\ [t EXCEPT !.retried = TRUE].slot = turn.slot
          /\ [t EXCEPT !.retried = TRUE].account_attempts = attempts
          /\ [t EXCEPT !.retried = TRUE].account_failover_done
               <=> turn.account_failover_done
      BY <1>5, <1>6 DEF Turn
    <2>2. /\ turn'.pc = "sending" /\ turn'.slot = turn.slot
          /\ turn'.account_attempts = old
          /\ turn'.account_failover_done <=> turn.account_failover_done
      BY <1>9, <1>16, <2>1, SendSays
    <2> QED
      BY <1>1, <1>16, <2>2, NobodyBlamed DEF old
  <1>17. CASE Offer(t, e, "done")
    <2>1. /\ turn'.pc = "emitting" /\ turn'.event = e /\ turn'.next = "done"
          /\ turn'.account_attempts = attempts
      BY <1>5, <1>6, <1>17, OfferSays
    <2>2. Remembered' /\ ~GoesOn'
      BY <1>8, <1>9, <2>1 DEF Remembered, GoesOn
    <2>3. Offered' = Append(sent, e)
      BY <1>1, <2>1 DEF Offered
    <2>4. \A i \in DOMAIN Offered' : Offered'[i].code \in {"none", code}
      BY <1>3, <1>13, <1>14, <2>3
    <2> QED
      BY <1>1, <1>11, <2>2, <2>4, NoCodeIsHonest DEF Blamed
  <1> QED
    BY <1>2, <1>15, <1>16, <1>17

LEMMA BlameStream ==
    ASSUME BlameInv,
           \/ Silent \/ FunctionCall \/ Finish
           \/ \E tier \in Tiers : Envelope(tier)
           \/ \E text \in Texts : Message(text)
           \/ \E text \in Texts \cup {NoText}, usage \in BOOLEAN, tier \in Tiers :
                Completed(text, usage, tier)
    PROVE  Remembered' /\ Blamed'
  <1>1. turn \in Turn /\ TurnInv
    BY DEF BlameInv, TurnInv, TypeOK
  <1>2. ASSUME At("streaming"), NEW e, e.code = "none" /\ e \in Event,
               NEW completed \in BOOLEAN, Forward(e, completed)
        PROVE  Remembered' /\ Blamed'
    <2>1. UNCHANGED <<refused, sent>> /\ turn.pc = "streaming"
      BY <1>1, <1>2, ForwardSays DEF At
    <2>2. CASE UNCHANGED turn
      BY <2>1, <2>2, NobodyBlamed
    <2>3. CASE \E f \in Event :
                 f.code = e.code
                 /\ Offer(turn, f, IF completed THEN "done" ELSE "streaming")
      <3>1. PICK f \in Event :
              f.code = e.code
              /\ Offer(turn, f, IF completed THEN "done" ELSE "streaming")
        BY <2>3
      <3> QED
        BY <1>1, <1>2, <2>1, <3>1, OfferSays, NobodyBlamed
    <2> QED
      BY <1>1, <1>2, <2>2, <2>3, ForwardSays
  <1>3. CASE Silent
    BY <1>3, NobodyBlamed DEF Silent, Read, At, channel, history
  <1>4. CASE FunctionCall
    <2> DEFINE e == [Chunk EXCEPT !.tool = TRUE]
    <2>1. e \in Event /\ e.code = "none"
      BY DEF Chunk, Event, Tiers
    <2>2. Forward(e, FALSE) /\ At("streaming")
      BY <1>4 DEF FunctionCall, Read
    <2> HIDE DEF e
    <2> QED
      BY <1>2, <2>1, <2>2
  <1>5. CASE Finish
    <2> DEFINE e == [Chunk EXCEPT !.finish = "stop"]
    <2>1. e \in Event /\ e.code = "none"
      BY DEF Chunk, Event, Tiers
    <2>2. Forward(e, FALSE) /\ At("streaming")
      BY <1>5 DEF Finish, Read
    <2> HIDE DEF e
    <2> QED
      BY <1>2, <2>1, <2>2
  <1>6. ASSUME NEW tier \in Tiers, Envelope(tier) PROVE Remembered' /\ Blamed'
    <2> DEFINE e == [Chunk EXCEPT !.tier = tier]
    <2>1. e \in Event /\ e.code = "none"
      BY DEF Chunk, Event
    <2>2. Forward(e, FALSE) /\ At("streaming")
      BY <1>6 DEF Envelope, Read
    <2> HIDE DEF e
    <2> QED
      BY <1>2, <2>1, <2>2
  <1>7. ASSUME NEW text \in Texts, Message(text) PROVE Remembered' /\ Blamed'
    <2> DEFINE e == [Chunk EXCEPT !.text = text]
    <2>1. e \in Event /\ e.code = "none"
      BY DEF Chunk, Event, Tiers
    <2>2. Forward(e, FALSE) /\ At("streaming")
      BY <1>7 DEF Message, Read
    <2> HIDE DEF e
    <2> QED
      BY <1>2, <2>1, <2>2
  <1>8. ASSUME NEW text \in Texts \cup {NoText}, NEW usage \in BOOLEAN,
               NEW tier \in Tiers, Completed(text, usage, tier)
        PROVE  Remembered' /\ Blamed'
    <2>1. PICK finish \in {"stop", "tool_calls"} :
            Forward([Chunk EXCEPT !.text = text, !.usage = usage, !.tier = tier,
                                  !.finish = finish], TRUE)
      BY <1>8, Zenon DEF Completed
    <2> DEFINE e == [Chunk EXCEPT !.text = text, !.usage = usage, !.tier = tier,
                                  !.finish = finish]
    <2>2. e \in Event /\ e.code = "none"
      BY DEF Chunk, Event
    <2>3. At("streaming") /\ Forward(e, TRUE)
      BY <1>8, <2>1, Zenon DEF Completed, Read
    <2> HIDE DEF e
    <2> QED
      BY <1>2, <2>2, <2>3
  <1> QED
    BY <1>3, <1>4, <1>5, <1>6, <1>7, <1>8

LEMMA BlameEnd ==
    ASSUME BlameInv,
           StreamEnds \/ \E tier \in Tiers : Failed(tier)
    PROVE  Remembered' /\ Blamed'
  <1>1. turn \in Turn /\ stream \in Stream
    BY DEF BlameInv, TurnInv, TypeOK
  <1>2. ASSUME At("streaming"), NEW tier \in Tiers, Fail(tier),
               stream'.saw_completed <=> stream.saw_completed,
               UNCHANGED <<channel, history>>
        PROVE  Remembered' /\ Blamed'
    <2> DEFINE e == [Terminal(Torn, TRUE) EXCEPT !.tier = tier]
               t == [turn EXCEPT !.stream_retry_done = TRUE]
    <2>1. turn.pc = "streaming" /\ UNCHANGED <<sent, refused>>
      BY <1>2 DEF At, channel, history
    <2>2. Send(t) \/ Offer(turn, e, "done")
      BY <1>2, Zenon DEF Fail
    <2>3. /\ t \in Turn /\ t.slot = turn.slot
          /\ t.account_attempts = turn.account_attempts
          /\ t.account_failover_done <=> turn.account_failover_done
      BY <1>1 DEF Turn
    <2>4. e.code = Torn
      BY TerminalCode DEF Codes
    <2>5. ~stream.saw_completed
      BY <2>1 DEF BlameInv, TurnInv, Verdict
    <2>6. Honest(e.code, refused, stream'.saw_completed)
      BY <1>2, <2>4, <2>5 DEF Honest, Quota, NeedsLogin, Unavailable, Torn
    <2> HIDE DEF e, t
    <2>7. CASE Send(t)
      BY <2>1, <2>3, <2>7, SendSays, NobodyBlamed
    <2>8. CASE Offer(turn, e, "done")
      BY <1>1, <2>1, <2>6, <2>8, OfferSays, NobodyBlamed
    <2> QED
      BY <2>2, <2>7, <2>8
  <1>3. CASE StreamEnds
    <2>1. stream.actual_service_tier \in Tiers
      BY <1>1 DEF Stream
    <2> QED
      BY <1>2, <1>3, <2>1 DEF StreamEnds
  <1>4. ASSUME NEW tier \in Tiers, Failed(tier) PROVE Remembered' /\ Blamed'
    <2> DEFINE named == IF tier = "unsaid" THEN stream.actual_service_tier ELSE tier
               lines == stream.lines + 1
    <2>1. named \in Tiers
      BY <1>1 DEF Stream
    <2>2. /\ stream' = [stream EXCEPT !.lines = lines,
                                      !.actual_service_tier = named]
          /\ Fail(stream'.actual_service_tier)
          /\ At("streaming") /\ UNCHANGED <<channel, history>>
      BY <1>4, Zenon DEF Failed, Read
    <2> HIDE DEF named, lines
    <2>3. /\ stream'.actual_service_tier = named
          /\ stream'.saw_completed <=> stream.saw_completed
      BY <1>1, <2>2 DEF Stream
    <2> QED
      BY <1>2, <2>1, <2>2, <2>3
  <1> QED
    BY <1>3, <1>4

LEMMA BlameChannel ==
    ASSUME BlameInv, Deliver \/ Take \/ Leave \/ Abandon
    PROVE  Remembered' /\ Blamed'
  <1>1. turn \in Turn /\ stream \in Stream /\ sent \in Seq(Event)
    BY DEF BlameInv, TurnInv, TypeOK
  <1>2. CASE Deliver
    <2> DEFINE heard == stream.meaningful_event_sent \/ Useful(turn.event)
    <2>1. /\ turn.pc = "emitting" /\ sent' = Append(sent, turn.event)
          /\ turn' = [turn EXCEPT !.pc = turn.next, !.event = Chunk]
          /\ stream' = [stream EXCEPT !.meaningful_event_sent = heard]
          /\ refused' = refused
      BY <1>2, Zenon DEF Deliver, At, history
    <2> HIDE DEF heard
    <2>2. /\ turn'.pc = turn.next /\ turn.next \in {"streaming", "done"}
          /\ turn'.slot = turn.slot
          /\ turn'.account_attempts = turn.account_attempts
          /\ turn'.account_failover_done <=> turn.account_failover_done
          /\ stream'.saw_completed = stream.saw_completed
      BY <1>1, <2>1 DEF Turn, Stream
    <2>3. Offered' = Offered
      BY <2>1, <2>2 DEF Offered
    <2>4. GoesOn' <=> GoesOn
      BY <2>1, <2>2 DEF GoesOn
    <2>5. /\ turn'.pc # "moving" /\ turn'.pc # "leasing"
          /\ turn.pc # "moving" /\ turn.pc # "leasing"
      BY <2>1, <2>2
    <2>6. Remembered'
      BY <2>1, <2>2, <2>4, <2>5, ZenonT(40) DEF BlameInv, Remembered
    <2> QED
      BY <2>1, <2>2, <2>3, <2>4, <2>6 DEF BlameInv, Blamed
  <1>3. CASE Take \/ Leave
    <2>1. /\ turn' = turn /\ stream' = stream
          /\ sent' = sent /\ refused' = refused
      BY <1>3 DEF Take, Leave, history
    <2>2. Offered' = Offered /\ (GoesOn' <=> GoesOn)
      BY <2>1 DEF Offered, GoesOn
    <2>3. Remembered'
      BY <2>1, <2>2, Zenon DEF BlameInv, Remembered, Blames
    <2> QED
      BY <2>1, <2>2, <2>3 DEF BlameInv, Blamed
  <1>4. CASE Abandon
    <2>1. UNCHANGED <<stream, sent, refused>> /\ turn'.pc = "done"
          /\ turn'.account_attempts = turn.account_attempts
      BY <1>1, <1>4 DEF Abandon, Turn, channel, history
    <2>2. Remembered' /\ ~GoesOn'
      BY <2>1, Zenon DEF BlameInv, Remembered, GoesOn
    <2>3. Offered' = sent
      BY <2>1 DEF Offered
    <2>4. \A i \in DOMAIN sent : i \in DOMAIN Offered /\ Offered[i] = sent[i]
      BY <1>1 DEF Offered
    <2> QED
      BY <2>1, <2>2, <2>3, <2>4 DEF BlameInv, Blamed
  <1> QED
    BY <1>2, <1>3, <1>4

\* The codes are honest: account_attempts remembers exactly the refusals that blame
\* an account, of two slots if there are two, so the name that a terminal gives them
\* is true of them all.
THEOREM BlameInvariant == Spec => []BlameInv
  <1>1. Init => Remembered /\ Blamed
    BY NoCodeIsHonest DEF Init, Remembered, Blamed, Offered, GoesOn
  <1>2. BlameInv /\ [Next]_vars => Remembered' /\ Blamed'
    <2> SUFFICES ASSUME BlameInv, [Next]_vars PROVE Remembered' /\ Blamed'
      OBVIOUS
    <2>1. CASE UNCHANGED vars
      <3>1. /\ turn' = turn /\ stream' = stream
            /\ sent' = sent /\ refused' = refused
        BY <2>1 DEF vars
      <3>2. Offered' = Offered /\ (GoesOn' <=> GoesOn)
        BY <3>1 DEF Offered, GoesOn
      <3>3. Remembered'
        BY <3>1, <3>2, Zenon DEF BlameInv, Remembered, Blames
      <3> QED
        BY <3>1, <3>2, <3>3 DEF BlameInv, Blamed
    <2>2. CASE Next
      BY <2>2, BlameAccounts, BlameHead, BlameDecide, BlameStream, BlameEnd,
         BlameChannel DEF Next
    <2> QED
      BY <2>1, <2>2
  <1>3. Init => BlameInv
    BY <1>1, InitEstablishes DEF BlameInv
  <1>4. BlameInv /\ [Next]_vars => BlameInv'
    BY <1>2, NextKeeps DEF BlameInv
  <1> QED
    BY <1>3, <1>4, PTL DEF Spec

\* A terminal that blames the accounts tells what each of them answered.
THEOREM BlameTold == Spec => []BlameIsTrue
  <1>1. BlameInv => BlameIsTrue
    <2> SUFFICES ASSUME BlameInv PROVE BlameIsTrue
      OBVIOUS
    <2>1. \A i \in DOMAIN sent : i \in DOMAIN Offered /\ Offered[i] = sent[i]
      BY DEF BlameInv, TurnInv, TypeOK, Offered
    <2>2. \A i \in DOMAIN sent : Honest(sent[i].code, refused, stream.saw_completed)
      BY <2>1 DEF BlameInv, Blamed
    <2> QED
      BY <2>2, Zenon DEF BlameIsTrue, Honest
  <1> QED
    BY <1>1, BlameInvariant, PTL

-----------------------------------------------------------------------------
(* The whole answer.                                                         *)

\* What one more event adds to the texts and to the calls.
LEMMA OneMoreEvent ==
    ASSUME NEW events \in Seq(Event), NEW e \in Event
    PROVE  /\ TextsOf(Append(events, e)) = TextsOf(events) \cup ({e.text} \ {NoText})
           /\ Cardinality(ToolsOf(events)) \in Nat
           /\ Cardinality(ToolsOf(Append(events, e)))
                = Cardinality(ToolsOf(events)) + (IF e.tool THEN 1 ELSE 0)
  <1> DEFINE more == Append(events, e)
             n == Len(events) + 1
  <1>1. /\ n \in Nat /\ n \notin DOMAIN events
        /\ DOMAIN more = DOMAIN events \cup {n}
        /\ \A i \in DOMAIN events : more[i] = events[i]
        /\ more[n] = e
        /\ DOMAIN events = 1..(n - 1)
    OBVIOUS
  <1> HIDE DEF more, n
  <1>2. TextsOf(more) = TextsOf(events) \cup ({e.text} \ {NoText})
    BY <1>1 DEF TextsOf
  <1>3. ToolsOf(more) = IF e.tool THEN ToolsOf(events) \cup {n} ELSE ToolsOf(events)
    <2>1. \A i : i \in ToolsOf(more) <=> i \in ToolsOf(events) \/ (i = n /\ e.tool)
      BY <1>1, Zenon DEF ToolsOf
    <2> QED
      BY <2>1
  <1>4. /\ IsFiniteSet(ToolsOf(events)) /\ Cardinality(ToolsOf(events)) \in Nat
        /\ n \notin ToolsOf(events)
    <2>1. IsFiniteSet(1..(n - 1))
      BY <1>1, FS_Interval
    <2>2. ToolsOf(events) \subseteq 1..(n - 1)
      BY <1>1 DEF ToolsOf
    <2> QED
      BY <1>1, <2>1, <2>2, FS_Subset, FS_CardinalityType
  <1>5. e.tool => Cardinality(ToolsOf(more)) = Cardinality(ToolsOf(events)) + 1
    BY <1>3, <1>4, FS_AddElement
  <1>6. ~e.tool => Cardinality(ToolsOf(more)) = Cardinality(ToolsOf(events))
    BY <1>3
  <1> QED
    BY <1>2, <1>4, <1>5, <1>6 DEF more

\* Events that say nothing of use hold no text and no call.
LEMMA NothingUseful ==
    ASSUME NEW events \in Seq(Event), \A i \in DOMAIN events : ~Useful(events[i])
    PROVE  TextsOf(events) = {} /\ Cardinality(ToolsOf(events)) = 0
  <1>1. TextsOf(events) = {}
    BY DEF TextsOf, Useful
  <1>2. ToolsOf(events) = {}
    BY DEF ToolsOf, Useful
  <1> QED
    BY <1>1, <1>2, FS_EmptySet

\* What the backend says is added to what was handed over, unless it is a text that
\* was handed over before.
LEMMA ForwardWhole ==
    ASSUME TurnInv, Whole, At("streaming"), NEW e \in Event,
           NEW completed \in BOOLEAN, Forward(e, completed),
           e.text # NoText => ~e.tool,
           completed => e.finish # "none",
           completed /\ (stream.tool_call_index > 0 \/ e.tool)
             => e.finish = "tool_calls",
           said' = said \cup ({e.text} \ {NoText})
                        \cup (IF e.tool THEN {"function_call"} ELSE {})
    PROVE  Whole'
  <1> DEFINE repeated == e.text # NoText /\ e.text = stream.last_sent_content
             tier == IF e.tier = "unsaid" THEN stream.actual_service_tier
                     ELSE e.tier
             text == IF repeated THEN NoText ELSE e.text
             index == IF e.tool THEN stream.tool_call_index + 1
                      ELSE stream.tool_call_index
             last == IF text = NoText THEN stream.last_sent_content ELSE text
             lines == stream.lines + 1
             f == [e EXCEPT !.tier = tier, !.text = text]
             next == IF completed THEN "done" ELSE "streaming"
  <1>1. /\ stream \in Stream /\ turn \in Turn /\ sent \in Seq(Event)
        /\ turn.pc = "streaming"
        /\ stream.tool_call_index \in Nat
    BY DEF TurnInv, TypeOK, Stream, At
  <1>2. tier \in Tiers /\ text \in Texts \cup {NoText} /\ index \in Nat
        /\ last \in Texts \cup {NoText}
    BY <1>1 DEF Stream, Event
  <1>3. /\ TextsOf(sent) = said \ {"function_call"}
        /\ stream.last_sent_content \in TextsOf(sent) \cup {NoText}
        /\ Cardinality(ToolsOf(sent)) = stream.tool_call_index
        /\ stream.tool_call_index > 0 <=> "function_call" \in said
    BY <1>1 DEF Whole, Offered
  <1>4. /\ stream' = [stream EXCEPT !.saw_completed = completed,
                                    !.actual_service_tier = tier,
                                    !.tool_call_index = index,
                                    !.last_sent_content = last, !.lines = lines]
        /\ IF repeated /\ e.finish = "none" THEN turn' = turn
           ELSE Offer(turn, f, next)
        /\ UNCHANGED channel
    BY Zenon DEF Forward
  <1>5. sent' = sent
    BY <1>4 DEF channel
  <1>6. f \in Event /\ f.text = text /\ f.finish = e.finish /\ (f.tool <=> e.tool)
    <2> HIDE DEF tier, text
    <2> QED
      BY <1>2 DEF Event
  <1>7. e.text # "function_call" \/ e.text = NoText
    BY TextsAssumption DEF Event
  <1>8. repeated => ~e.tool /\ e.text \in said /\ e.text # NoText
    BY <1>3
  <1>9. e.tool \in BOOLEAN
    BY DEF Event
  <1>10. /\ TextsOf(sent) \cup ({text} \ {NoText}) = said' \ {"function_call"}
         /\ last \in TextsOf(sent) \cup ({text} \ {NoText}) \cup {NoText}
         /\ Cardinality(ToolsOf(sent)) + (IF e.tool THEN 1 ELSE 0) = index
         /\ index > 0 <=> "function_call" \in said'
    <2>1. TextsOf(sent) \cup ({text} \ {NoText}) = said' \ {"function_call"}
      BY <1>3, <1>7, <1>8
    <2>2. last \in TextsOf(sent) \cup ({text} \ {NoText}) \cup {NoText}
      BY <1>3
    <2>3. Cardinality(ToolsOf(sent)) + (IF e.tool THEN 1 ELSE 0) = index
      BY <1>3, <1>1
    <2>4. index > 0 <=> "function_call" \in said'
      <3>1. CASE e.tool
        BY <1>1, <3>1
      <3>2. CASE ~e.tool
        <4>1. "function_call" \in said' <=> "function_call" \in said
          BY <1>7, <3>2
        <4> QED
          BY <1>3, <3>2, <4>1
      <3> QED
        BY <3>1, <3>2
    <2> QED
      BY <2>1, <2>2, <2>3, <2>4
  <1> HIDE DEF tier, text, last, lines, f
  <1>11. /\ stream'.tool_call_index = index /\ stream'.last_sent_content = last
         /\ stream'.saw_completed <=> completed
    BY <1>1, <1>4 DEF Stream
  <1>12. CASE repeated /\ e.finish = "none"
    <2>1. Offered' = sent /\ text = NoText /\ ~completed /\ ~e.tool
      BY <1>1, <1>4, <1>5, <1>8, <1>12 DEF Offered, text
    <2> QED
      BY <1>1, <1>10, <1>11, <2>1, <1>3 DEF Whole
  <1>13. CASE ~(repeated /\ e.finish = "none")
    <2>1. turn'.pc = "emitting" /\ turn'.event = f
      BY <1>1, <1>4, <1>13, OfferSays
    <2>2. Offered' = Append(sent, f)
      BY <1>5, <2>1 DEF Offered
    <2>3. /\ TextsOf(Offered') = TextsOf(sent) \cup ({text} \ {NoText})
          /\ Cardinality(ToolsOf(Offered'))
               = Cardinality(ToolsOf(sent)) + (IF e.tool THEN 1 ELSE 0)
      BY <1>1, <1>6, <2>2, OneMoreEvent
    <2>4. Offered'[Len(Offered')].finish = e.finish
      BY <1>1, <1>6, <2>2
    <2>5. completed /\ index > 0 => e.finish = "tool_calls"
      OBVIOUS
    <2> HIDE DEF index
    <2>6. Cardinality(ToolsOf(Offered')) = index
      BY <1>10, <2>3, Zenon
    <2>7. /\ TextsOf(Offered') = said' \ {"function_call"}
          /\ last \in TextsOf(Offered') \cup {NoText}
      BY <1>10, <2>3, Zenon
    <2>8. index > 0 <=> "function_call" \in said'
      BY <1>10
    <2> QED
      BY <1>11, <2>4, <2>5, <2>6, <2>7, <2>8 DEF Whole
  <1> QED
    BY <1>12, <1>13

LEMMA StreamWhole ==
    ASSUME TurnInv, Whole,
           \/ Silent \/ FunctionCall \/ Finish
           \/ \E tier \in Tiers : Envelope(tier)
           \/ \E text \in Texts : Message(text)
           \/ \E text \in Texts \cup {NoText}, usage \in BOOLEAN, tier \in Tiers :
                Completed(text, usage, tier)
    PROVE  Whole'
  <1>1. turn \in Turn /\ stream \in Stream
    BY DEF TurnInv, TypeOK
  <1>2. CASE Silent
    <2> DEFINE lines == stream.lines + 1
    <2>1. /\ turn' = turn /\ sent' = sent /\ said' = said /\ client' = client
          /\ stream' = [stream EXCEPT !.lines = lines]
      BY <1>2 DEF Silent, channel, history
    <2> HIDE DEF lines
    <2>2. /\ stream'.saw_completed = stream.saw_completed
          /\ stream'.tool_call_index = stream.tool_call_index
          /\ stream'.last_sent_content = stream.last_sent_content
      BY <1>1, <2>1 DEF Stream
    <2>3. Offered' = Offered
      BY <2>1 DEF Offered
    <2> QED
      BY <2>1, <2>2, <2>3, Zenon DEF Whole, Fails
  <1>3. CASE FunctionCall
    <2> DEFINE e == [Chunk EXCEPT !.tool = TRUE]
    <2>1. e \in Event /\ e.text = NoText /\ e.tool
      BY DEF Chunk, Event, Tiers
    <2>2. Forward(e, FALSE) /\ At("streaming") /\ said' = said \cup {"function_call"}
      BY <1>3 DEF FunctionCall, Read
    <2> HIDE DEF e
    <2>3. said' = said \cup ({e.text} \ {NoText})
                       \cup (IF e.tool THEN {"function_call"} ELSE {})
      BY <2>1, <2>2
    <2> QED
      BY <2>1, <2>2, <2>3, ForwardWhole
  <1>4. CASE Finish
    <2> DEFINE e == [Chunk EXCEPT !.finish = "stop"]
    <2>1. e \in Event /\ e.text = NoText /\ ~e.tool
      BY DEF Chunk, Event, Tiers
    <2>2. Forward(e, FALSE) /\ At("streaming") /\ said' = said
      BY <1>4 DEF Finish, Read
    <2> HIDE DEF e
    <2>3. said' = said \cup ({e.text} \ {NoText})
                       \cup (IF e.tool THEN {"function_call"} ELSE {})
      BY <2>1, <2>2
    <2> QED
      BY <2>1, <2>2, <2>3, ForwardWhole
  <1>5. ASSUME NEW tier \in Tiers, Envelope(tier) PROVE Whole'
    <2> DEFINE e == [Chunk EXCEPT !.tier = tier]
    <2>1. e \in Event /\ e.text = NoText /\ ~e.tool
      BY DEF Chunk, Event
    <2>2. Forward(e, FALSE) /\ At("streaming") /\ said' = said
      BY <1>5 DEF Envelope, Read
    <2> HIDE DEF e
    <2>3. said' = said \cup ({e.text} \ {NoText})
                       \cup (IF e.tool THEN {"function_call"} ELSE {})
      BY <2>1, <2>2
    <2> QED
      BY <2>1, <2>2, <2>3, ForwardWhole
  <1>6. ASSUME NEW text \in Texts, Message(text) PROVE Whole'
    <2> DEFINE e == [Chunk EXCEPT !.text = text]
    <2>1. e \in Event /\ e.text = text /\ ~e.tool
      BY DEF Chunk, Event, Tiers
    <2>2. Forward(e, FALSE) /\ At("streaming") /\ said' = said \cup {text}
      BY <1>6 DEF Message, Read
    <2> HIDE DEF e
    <2>3. said' = said \cup ({e.text} \ {NoText})
                       \cup (IF e.tool THEN {"function_call"} ELSE {})
      BY <2>1, <2>2, TextsAssumption
    <2> QED
      BY <2>1, <2>2, <2>3, ForwardWhole
  <1>7. ASSUME NEW text \in Texts \cup {NoText}, NEW usage \in BOOLEAN,
               NEW tier \in Tiers, Completed(text, usage, tier)
        PROVE  Whole'
    <2>1. PICK finish \in {"stop", "tool_calls"} :
            /\ stream.tool_call_index > 0 => finish = "tool_calls"
            /\ Forward([Chunk EXCEPT !.text = text, !.usage = usage, !.tier = tier,
                                     !.finish = finish], TRUE)
      BY <1>7, Zenon DEF Completed
    <2> DEFINE e == [Chunk EXCEPT !.text = text, !.usage = usage, !.tier = tier,
                                  !.finish = finish]
    <2>2. e \in Event /\ e.finish = finish /\ e.text = text /\ ~e.tool
      BY DEF Chunk, Event
    <2>3. At("streaming") /\ Forward(e, TRUE)
          /\ said' = said \cup ({text} \ {NoText})
      BY <1>7, <2>1, Zenon DEF Completed, Read
    <2> HIDE DEF e
    <2>4. said' = said \cup ({e.text} \ {NoText})
                       \cup (IF e.tool THEN {"function_call"} ELSE {})
      BY <2>2, <2>3
    <2> QED
      BY <2>1, <2>2, <2>3, <2>4, ForwardWhole
  <1> QED
    BY <1>2, <1>3, <1>4, <1>5, <1>6, <1>7

\* A stream begins with nothing said and nothing handed over.
LEMMA AcceptWhole ==
    ASSUME TurnInv, Accept
    PROVE  Whole'
  <1>1. /\ sent \in Seq(Event) /\ turn.pc = "sending" /\ sent' = sent
        /\ turn'.pc = "streaming" /\ said' = {} /\ stream' = NewStream
    BY DEF TurnInv, TypeOK, Turn, Accept, At, channel
  <1>2. \A i \in DOMAIN sent : ~Useful(sent[i])
    BY <1>1 DEF TurnInv, Unheard
  <1>3. TextsOf(sent) = {} /\ Cardinality(ToolsOf(sent)) = 0
    BY <1>1, <1>2, NothingUseful
  <1>4. Offered' = sent
    BY <1>1 DEF Offered
  <1> QED
    BY <1>1, <1>3, <1>4 DEF Whole, NewStream

\* Outside a stream, and where the turn fails, nothing is claimed of the answer.
LEMMA OutsideWhole ==
    ASSUME TurnInv, TurnInv',
           \/ LeaseFails \/ MoveFails \/ \E s \in Slots : Lease(s) \/ Move(s)
           \/ TransportFails \/ \E refusal \in Refusals : Refuse(refusal)
           \/ Decide \/ StreamEnds \/ \E tier \in Tiers : Failed(tier)
    PROVE  Whole'
  <1>1. turn \in Turn /\ stream \in Stream
    BY DEF TurnInv, TypeOK
  <1>2. ASSUME NEW t \in Turn, NEW e,
               Send(t) \/ Offer(t, e, "done") \/ turn'.pc \in {"refused", "moving"},
               ~stream'.saw_completed
        PROVE  Whole'
    <2>1. \/ turn'.pc \in {"sending", "refused", "moving"}
          \/ turn'.pc = "emitting" /\ turn'.next = "done"
      BY <1>2, SendSays, OfferSays
    <2>2. turn'.pc = "emitting" => Fails(turn'.event)
      BY <1>2, <2>1 DEF TurnInv, Verdict
    <2> QED
      BY <2>1, <2>2 DEF Whole, Fails
  <1>3. turn.pc \notin {"emitting", "done"} => ~stream.saw_completed
    BY DEF TurnInv, Verdict
  <1>4. CASE LeaseFails \/ MoveFails
    <2>1. /\ turn.pc \in {"leasing", "moving"} /\ stream' = stream
          /\ \E e : Offer(turn, e, "done")
      BY <1>4, Zenon DEF LeaseFails, MoveFails, At
    <2> QED
      BY <1>1, <1>2, <1>3, <2>1
  <1>5. ASSUME NEW s \in Slots, Lease(s) \/ Move(s) PROVE Whole'
    <2>1. /\ [turn EXCEPT !.slot = s] \in Turn
          /\ [turn EXCEPT !.slot = s, !.account_failover_done = TRUE] \in Turn
      BY <1>1 DEF Turn
    <2>2. /\ turn.pc \in {"leasing", "moving"} /\ stream' = stream
          /\ \E t \in Turn : Send(t)
      BY <1>5, <2>1 DEF Lease, Move, At
    <2> QED
      BY <1>2, <1>3, <2>2
  <1>6. CASE TransportFails \/ \E refusal \in Refusals : Refuse(refusal)
    <2>1. [turn EXCEPT !.stream_retry_done = TRUE] \in Turn
      BY <1>1 DEF Turn
    <2>2. turn.pc = "sending" /\ stream' = stream
      BY <1>6, Zenon DEF TransportFails, Refuse, At
    <2>3. \/ \E t \in Turn : Send(t) \/ \E e : Offer(t, e, "done")
          \/ turn'.pc = "refused"
      <3>1. CASE TransportFails
        BY <1>1, <2>1, <3>1, Zenon DEF TransportFails
      <3>2. CASE \E refusal \in Refusals : Refuse(refusal)
        BY <1>1, <3>2 DEF Refuse, Turn
      <3> QED
        BY <1>6, <3>1, <3>2
    <2> QED
      BY <1>1, <1>2, <1>3, <2>2, <2>3
  <1>7. CASE Decide
    <2> DEFINE blamed == turn.refusal \in {"quota", "auth"}
               t == IF blamed
                    THEN [turn EXCEPT !.account_attempts =
                                          Append(@, Blames[turn.refusal])]
                    ELSE turn
               e == Terminal(Blame(t.account_attempts, t.refusal), FALSE)
    <2>1. turn.pc = "refused" /\ stream' = stream
      BY <1>7, Zenon DEF Decide, At
    <2>2. \/ turn' = [t EXCEPT !.pc = "moving", !.moves = @ + 1]
          \/ Send([t EXCEPT !.retried = TRUE])
          \/ Offer(t, e, "done")
      BY <1>7, Zenon DEF Decide
    <2>3. t \in Turn
      BY <1>1, <2>1, AttemptsTyped DEF TurnInv, Leased
    <2> HIDE DEF t, e
    <2>4. [t EXCEPT !.retried = TRUE] \in Turn
      BY <2>3 DEF Turn
    <2>5. turn' = [t EXCEPT !.pc = "moving", !.moves = @ + 1] => turn'.pc = "moving"
      BY <2>3 DEF Turn
    <2> QED
      BY <1>2, <1>3, <2>1, <2>2, <2>3, <2>4, <2>5
  <1>8. CASE StreamEnds \/ \E tier \in Tiers : Failed(tier)
    <2>1. [turn EXCEPT !.stream_retry_done = TRUE] \in Turn
      BY <1>1 DEF Turn
    <2>2. turn.pc = "streaming" /\ \E tier : Fail(tier)
      BY <1>8, Zenon DEF StreamEnds, Failed, Read, At
    <2>3. \E t \in Turn : \E e : Send(t) \/ Offer(t, e, "done")
      BY <1>1, <2>1, <2>2, Zenon DEF Fail
    <2>4. stream'.saw_completed <=> stream.saw_completed
      <3>1. CASE StreamEnds
        BY <3>1 DEF StreamEnds
      <3>2. CASE \E tier \in Tiers : Failed(tier)
        <4>1. PICK lines, tier :
                stream' = [stream EXCEPT !.lines = lines, !.actual_service_tier = tier]
          BY <3>2, Zenon DEF Failed
        <4> QED
          BY <1>1, <4>1 DEF Stream
      <3> QED
        BY <1>8, <3>1, <3>2
    <2> QED
      BY <1>2, <1>3, <2>2, <2>3, <2>4
  <1> QED
    BY <1>4, <1>5, <1>6, <1>7, <1>8

LEMMA ChannelWhole ==
    ASSUME TurnInv, Whole, Deliver \/ Take \/ Leave \/ Abandon
    PROVE  Whole'
  <1>1. turn \in Turn /\ stream \in Stream
    BY DEF TurnInv, TypeOK
  <1>2. CASE Deliver
    <2> DEFINE heard == stream.meaningful_event_sent \/ Useful(turn.event)
    <2>1. /\ turn.pc = "emitting" /\ sent' = Append(sent, turn.event)
          /\ turn' = [turn EXCEPT !.pc = turn.next, !.event = Chunk]
          /\ stream' = [stream EXCEPT !.meaningful_event_sent = heard]
          /\ said' = said
      BY <1>2, Zenon DEF Deliver, At, history
    <2> HIDE DEF heard
    <2>2. /\ turn'.pc = turn.next /\ turn.next \in {"streaming", "done"}
          /\ stream'.saw_completed = stream.saw_completed
          /\ stream'.tool_call_index = stream.tool_call_index
          /\ stream'.last_sent_content = stream.last_sent_content
      BY <1>1, <2>1 DEF Turn, Stream
    <2>3. Offered' = Offered
      BY <2>1, <2>2 DEF Offered
    <2>4. turn.next = "streaming" \/ stream.saw_completed => ~Fails(turn.event)
      BY <2>1, <2>2, Zenon DEF TurnInv, Verdict
    <2> QED
      BY <2>1, <2>2, <2>3, <2>4 DEF Whole
  <1>3. CASE Take \/ Leave
    <2>1. /\ turn' = turn /\ stream' = stream /\ sent' = sent /\ said' = said
          /\ client' = "open" => client = "open"
      BY <1>3 DEF Take, Leave, history
    <2>2. Offered' = Offered
      BY <2>1 DEF Offered
    <2> QED
      BY <2>1, <2>2, Zenon DEF Whole, Fails
  <1>4. CASE Abandon
    <2>1. turn'.pc = "done" /\ client' = "gone"
      BY <1>1, <1>4 DEF Abandon, Turn, channel
    <2> QED
      BY <2>1 DEF Whole
  <1> QED
    BY <1>2, <1>3, <1>4

\* What the backend has said in the stream that is read is what was handed over of
\* it, each text once and each call once.
THEOREM AnswerInvariant == Spec => []AnswerInv
  <1>1. Init => AnswerInv
    <2>1. Init => Whole
      BY DEF Init, Whole
    <2> QED
      BY <2>1, InitEstablishes DEF AnswerInv
  <1>2. AnswerInv /\ [Next]_vars => AnswerInv'
    <2> SUFFICES ASSUME AnswerInv, [Next]_vars PROVE AnswerInv'
      OBVIOUS
    <2>1. TurnInv'
      BY NextKeeps DEF AnswerInv
    <2>2. CASE UNCHANGED vars
      <3>1. /\ turn' = turn /\ stream' = stream /\ sent' = sent /\ said' = said
            /\ client' = client
        BY <2>2 DEF vars
      <3>2. Offered' = Offered
        BY <3>1 DEF Offered
      <3> QED
        BY <2>1, <3>1, <3>2, Zenon DEF AnswerInv, Whole, Fails
    <2>3. CASE Next
      BY <2>1, <2>3, StreamWhole, AcceptWhole, OutsideWhole, ChannelWhole
         DEF AnswerInv, Next
    <2> QED
      BY <2>2, <2>3
  <1> QED
    BY <1>1, <1>2, PTL DEF Spec

\* A completed answer holds everything the backend said in the stream it completed,
\* and says that tools are to be called exactly if it holds calls.
THEOREM AnswerToldWhole == Spec => []AnswerIsWhole
  <1>1. AnswerInv => AnswerIsWhole
    <2> SUFFICES ASSUME AnswerInv, turn.pc = "done", client = "open",
                        stream.saw_completed
                 PROVE  /\ TextsOf(sent) = said \ {"function_call"}
                        /\ Cardinality(ToolsOf(sent)) = stream.tool_call_index
                        /\ ToolsOf(sent) # {} <=> "function_call" \in said
                        /\ ToolsOf(sent) # {} =>
                             sent[Len(sent)].finish = "tool_calls"
      BY Zenon DEF AnswerIsWhole, TextsOf, ToolsOf
    <2>1. Offered = sent /\ sent \in Seq(Event) /\ stream.tool_call_index \in Nat
      BY DEF Offered, AnswerInv, TurnInv, TypeOK, Stream
    <2>2. /\ TextsOf(sent) = said \ {"function_call"}
          /\ Cardinality(ToolsOf(sent)) = stream.tool_call_index
          /\ stream.tool_call_index > 0 <=> "function_call" \in said
          /\ stream.tool_call_index > 0 => sent[Len(sent)].finish = "tool_calls"
      BY <2>1 DEF AnswerInv, Whole
    <2>3. ToolsOf(sent) # {} <=> stream.tool_call_index > 0
      <3>1. IsFiniteSet(1..Len(sent))
        BY <2>1, FS_Interval
      <3>2. ToolsOf(sent) \subseteq 1..Len(sent)
        BY <2>1 DEF ToolsOf
      <3>3. IsFiniteSet(ToolsOf(sent))
        BY <3>1, <3>2, FS_Subset
      <3> QED
        BY <2>1, <2>2, <3>3, FS_EmptySet
    <2> QED
      BY <2>2, <2>3
  <1> QED
    BY <1>1, AnswerInvariant, PTL
=============================================================================
