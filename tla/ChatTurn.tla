------------------------------ MODULE ChatTurn ------------------------------
(***************************************************************************)
(* One chat turn of praxis-relay (stream_chat_completions in               *)
(* src/core/chat_completions.rs): the spawned task that leases an account,  *)
(* asks the backend, fails over, retries, and sends what the backend says   *)
(* through a bounded channel to a client that may leave at any moment.      *)
(*                                                                         *)
(* The account router is seen through its answers (AccountRouter models     *)
(* it), the backend through its statuses and the lines of its stream.  The  *)
(* client reads the stream as it comes, or has it collected into one        *)
(* document (chat_response.rs).                                             *)
(***************************************************************************)
EXTENDS Naturals, Sequences, FiniteSets

CONSTANTS
    Slots, NoSlot,
    Texts, NoText, \* what the model may say in one message
    TierAsked,     \* the request names a service tier
    Namings,       \* values RELAY_TYPED_TERMINAL may have
    Capacity,      \* of the channel
    MaxLines       \* bound on the lines of one stream

ASSUME SlotsAssumption == NoSlot \notin Slots
ASSUME TextsAssumption == NoText \notin Texts /\ "function_call" \notin Texts
ASSUME TierAskedAssumption == TierAsked \in BOOLEAN
ASSUME NamingsAssumption == Namings \subseteq {"off", "field", "finish_reason"}
ASSUME BoundsAssumption == Capacity \in Nat \ {0} /\ MaxLines \in Nat

VARIABLES
    naming,  \* TERMINAL_NAMING, fixed when the process starts
    turn,    \* the task
    stream,  \* what it knows of the stream it reads
    sent,    \* all that was put in the channel
    taken,   \* how much of it the client has taken
    client,  \* the receiver: open, or gone
    refused, \* history: <<slot, code>> of the refusals that blame the account
    said     \* history: what the backend said in this stream

vars == <<naming, turn, stream, sent, taken, client, refused, said>>

Quota == "subscription_window_exhausted"
NeedsLogin == "subscription_needs_login"
Unavailable == "subscriptions_unavailable"
Torn == "upstream_torn"
UpstreamError == "upstream_error"

Codes == {Quota, NeedsLogin, Unavailable, Torn, UpstreamError}

\* What an event names the service tier: nothing, null, or a tier.
Tiers == {"unsaid", "null", "named"}

\* An event on its way to the client.  `code` is a terminal's; relay_terminal
\* carries it only if `structured`.
Event == [text : Texts \cup {NoText}, tool : BOOLEAN,
          finish : {"none", "stop", "tool_calls", "error"} \cup Codes,
          usage : BOOLEAN, tier : Tiers,
          code : {"none"} \cup Codes, structured : BOOLEAN, error : BOOLEAN]

Chunk == [text |-> NoText, tool |-> FALSE, finish |-> "none", usage |-> FALSE,
          tier |-> "unsaid", code |-> "none", structured |-> FALSE,
          error |-> FALSE]

\* How the backend may refuse, from the status and the body.
Refusals == {"quota", "auth", "shape", "other"}

Turn == [pc : {"leasing", "sending", "refused", "moving", "streaming",
               "emitting", "done"},
         slot : Slots \cup {NoSlot},
         attempt : Nat,            \* requests made so far
         retried : BOOLEAN,
         account_failover_done : BOOLEAN,
         stream_retry_done : BOOLEAN,
         account_attempts : Seq(Slots \X {Quota, NeedsLogin}),
         moves : Nat,              \* times the router was asked to move
         refusal : Refusals,       \* while the body is read, and after
         event : Event,            \* while tx.send waits for room
         next : {"streaming", "done"}] \* what follows it

Stream == [saw_completed : BOOLEAN, meaningful_event_sent : BOOLEAN,
           tool_call_index : Nat, last_sent_content : Texts \cup {NoText},
           actual_service_tier : Tiers, lines : Nat]

NewStream == [saw_completed |-> FALSE, meaningful_event_sent |-> FALSE,
              tool_call_index |-> 0, last_sent_content |-> NoText,
              actual_service_tier |-> "unsaid", lines |-> 0]

Init ==
    /\ naming \in Namings
    /\ turn = [pc |-> "leasing", slot |-> NoSlot, attempt |-> 0,
               retried |-> FALSE, account_failover_done |-> FALSE,
               stream_retry_done |-> FALSE, account_attempts |-> <<>>,
               moves |-> 0, refusal |-> "other", event |-> Chunk,
               next |-> "done"]
    /\ stream = NewStream
    /\ sent = <<>>
    /\ taken = 0
    /\ client = "open"
    /\ refused = {}
    /\ said = {}

-----------------------------------------------------------------------------
(* What a step of the task leads to.                                         *)

\* Every await gives way to tx.closed() first, so a step needs the receiver.
At(pc) == turn.pc = pc /\ client = "open"

\* The next request goes out.
Send(t) == turn' = [t EXCEPT !.pc = "sending", !.attempt = @ + 1]

\* tx.send(e).await, and then `next`.
Offer(t, e, next) ==
    turn' = [t EXCEPT !.pc = "emitting", !.event = e, !.next = next]

\* terminal_event, or stream_torn_event if `force`.
Terminal(code, force) ==
    [Chunk EXCEPT !.code = code,
                  !.finish = IF naming = "finish_reason" THEN code ELSE "error",
                  !.structured = force \/ naming # "off"]

Useful(e) ==
    \/ e.usage
    \/ e.tier = "named"
    \/ e.finish # "none"
    \/ e.text # NoText
    \/ e.tool

\* Mutant of Fail: output already sent does not keep the turn from a replay.
FailReplays(tier) ==
    IF ~turn.stream_retry_done /\ tier # "named"
    THEN Send([turn EXCEPT !.stream_retry_done = TRUE])
    ELSE Offer(turn, [Terminal(Torn, TRUE) EXCEPT !.tier = tier], "done")

\* The stream ended before response.completed: one replay if nothing useful has
\* gone out and no tier was named, or the torn terminal.
Fail(tier) ==
    IF ~stream.meaningful_event_sent /\ ~turn.stream_retry_done /\ tier # "named"
    THEN Send([turn EXCEPT !.stream_retry_done = TRUE])
    ELSE Offer(turn, [Terminal(Torn, TRUE) EXCEPT !.tier = tier], "done")

\* The terminal of a refusal, named after every account that was to blame.
Blame(attempts, refusal) ==
    LET codes == {attempts[i][2] : i \in DOMAIN attempts} IN
    CASE Cardinality(codes) > 1 -> Unavailable
      [] Cardinality(codes) <= 1 /\ refusal = "quota" -> Quota
      [] Cardinality(codes) <= 1 /\ refusal = "auth" -> NeedsLogin
      [] OTHER -> UpstreamError

channel == <<sent, taken, client>>
history == <<refused, said>>

-----------------------------------------------------------------------------
(* Accounts.                                                                 *)

\* lease_any_for_downstream.
Lease(s) ==
    /\ At("leasing")
    /\ Send([turn EXCEPT !.slot = s])
    /\ UNCHANGED <<naming, stream, channel, history>>

LeaseFails ==
    /\ At("leasing")
    /\ Offer(turn, [Chunk EXCEPT !.error = TRUE], "done")
    /\ UNCHANGED <<naming, stream, channel, history>>

\* switch_after_quota_for_downstream: the router moved, or had moved already,
\* off the slot that was refused.
Move(s) ==
    /\ At("moving")
    /\ s # turn.slot
    /\ Send([turn EXCEPT !.slot = s, !.account_failover_done = TRUE])
    /\ UNCHANGED <<naming, stream, channel, history>>

\* No standby: neither failover nor the conservative retry applies any more.
MoveFails ==
    /\ At("moving")
    /\ Offer(turn, Terminal(Blame(turn.account_attempts, turn.refusal), FALSE),
             "done")
    /\ UNCHANGED <<naming, stream, channel, history>>

-----------------------------------------------------------------------------
(* The head of the response.                                                 *)

\* Mutant of TransportFails: the replay is not counted.
TransportReplays ==
    /\ At("sending")
    /\ IF ~turn.stream_retry_done
       THEN Send(turn)
       ELSE Offer(turn, Terminal(Torn, TRUE), "done")
    /\ UNCHANGED <<naming, stream, channel, history>>

\* Mutant of TransportFails: no return after the terminal.
TransportGoesOn ==
    /\ At("sending")
    /\ IF ~turn.stream_retry_done
       THEN Send([turn EXCEPT !.stream_retry_done = TRUE])
       ELSE Offer(turn, Terminal(Torn, TRUE), "streaming")
    /\ UNCHANGED <<naming, stream, channel, history>>

\* send() failed: no stream has begun, and it is replayed once.
TransportFails ==
    /\ At("sending")
    /\ IF ~turn.stream_retry_done
       THEN Send([turn EXCEPT !.stream_retry_done = TRUE])
       ELSE Offer(turn, Terminal(Torn, TRUE), "done")
    /\ UNCHANGED <<naming, stream, channel, history>>

Accept ==
    /\ At("sending")
    /\ turn' = [turn EXCEPT !.pc = "streaming"]
    /\ stream' = NewStream
    /\ said' = {}
    /\ UNCHANGED <<naming, channel, refused>>

Refuse(refusal) ==
    /\ At("sending")
    /\ turn' = [turn EXCEPT !.pc = "refused", !.refusal = refusal]
    /\ UNCHANGED <<naming, stream, channel, history>>

\* account_failure_attempt: only an explicit quota and a 401 blame the account.
Blames == [quota |-> <<turn.slot, Quota>>, auth |-> <<turn.slot, NeedsLogin>>]

\* Mutant of Decide: a refusal that leads to a failover is not remembered.
DecideForgets ==
    /\ At("refused")
    /\ LET blamed == turn.refusal \in {"quota", "auth"}
           t == IF blamed /\ turn.account_failover_done
                THEN [turn EXCEPT !.account_attempts =
                                      Append(@, Blames[turn.refusal])]
                ELSE turn IN
       /\ CASE blamed /\ ~turn.account_failover_done ->
                 turn' = [t EXCEPT !.pc = "moving", !.moves = @ + 1]
            [] turn.refusal = "shape" /\ ~turn.retried /\ ~TierAsked ->
                 Send([t EXCEPT !.retried = TRUE])
            [] OTHER ->
                 Offer(t, Terminal(Blame(t.account_attempts, t.refusal), FALSE),
                       "done")
       /\ refused' = IF blamed THEN refused \cup {Blames[turn.refusal]}
                     ELSE refused
    /\ UNCHANGED <<naming, stream, channel, said>>

\* The body has been read: one failover per turn, one conservative retry per
\* turn, or the terminal.
Decide ==
    /\ At("refused")
    /\ LET blamed == turn.refusal \in {"quota", "auth"}
           t == IF blamed
                THEN [turn EXCEPT !.account_attempts =
                                      Append(@, Blames[turn.refusal])]
                ELSE turn IN
       /\ CASE blamed /\ ~turn.account_failover_done ->
                 turn' = [t EXCEPT !.pc = "moving", !.moves = @ + 1]
            [] turn.refusal = "shape" /\ ~turn.retried /\ ~TierAsked ->
                 Send([t EXCEPT !.retried = TRUE])
            [] OTHER ->
                 Offer(t, Terminal(Blame(t.account_attempts, t.refusal), FALSE),
                       "done")
       /\ refused' = IF blamed THEN refused \cup {Blames[turn.refusal]}
                     ELSE refused
    /\ UNCHANGED <<naming, stream, channel, said>>

-----------------------------------------------------------------------------
(* The stream.                                                               *)

Read == At("streaming") /\ stream.lines < MaxLines

\* An event the backend sent, as parse_sse_event returns it, with the tier
\* named last.  Repeated text is suppressed, never the finish it came with.
Forward(e, completed) ==
    LET repeated == e.text # NoText /\ e.text = stream.last_sent_content
        tier == IF e.tier = "unsaid" THEN stream.actual_service_tier ELSE e.tier
        text == IF repeated THEN NoText ELSE e.text IN
    /\ stream' = [stream EXCEPT
                    !.saw_completed = completed,
                    !.actual_service_tier = tier,
                    !.tool_call_index = IF e.tool THEN @ + 1 ELSE @,
                    !.last_sent_content = IF text = NoText THEN @ ELSE text,
                    !.lines = @ + 1]
    /\ IF repeated /\ e.finish = "none" THEN UNCHANGED turn
       ELSE Offer(turn, [e EXCEPT !.tier = tier, !.text = text],
                  IF completed THEN "done" ELSE "streaming")
    /\ UNCHANGED <<naming, channel, refused>>

\* Lines that carry nothing for the client: drafts of the text, hosted search.
Silent ==
    /\ Read
    /\ stream' = [stream EXCEPT !.lines = @ + 1]
    /\ UNCHANGED <<naming, turn, channel, history>>

\* An envelope that may name the tier: response.created, response.in_progress.
\* Items of output do not.
Envelope(tier) ==
    /\ Read
    /\ Forward([Chunk EXCEPT !.tier = tier], FALSE)
    /\ UNCHANGED said

Message(text) ==
    /\ Read
    /\ Forward([Chunk EXCEPT !.text = text], FALSE)
    /\ said' = said \cup {text}

FunctionCall ==
    /\ Read
    /\ Forward([Chunk EXCEPT !.tool = TRUE], FALSE)
    /\ said' = said \cup {"function_call"}

\* A finish_reason outside response.completed; "stop" is any that ends an answer.
Finish ==
    /\ Read
    /\ Forward([Chunk EXCEPT !.finish = "stop"], FALSE)
    /\ UNCHANGED said

\* Mutant of Completed: the finish does not say that tools are to be called.
CompletedStops(text, usage, tier) ==
    /\ Read
    /\ Forward([Chunk EXCEPT !.text = text, !.usage = usage, !.tier = tier,
                             !.finish = "stop"], TRUE)
    /\ said' = said \cup {text}

\* response.completed, the last event looked at.  Its output may repeat the
\* message, and may list calls.
Completed(text, usage, tier) ==
    /\ Read
    /\ \E finish \in {"stop", "tool_calls"} :
         /\ stream.tool_call_index > 0 => finish = "tool_calls"
         /\ Forward([Chunk EXCEPT !.text = text, !.usage = usage, !.tier = tier,
                                  !.finish = finish], TRUE)
    /\ said' = said \cup ({text} \ {NoText})

\* response.failed, response.error, error.
Failed(tier) ==
    /\ Read
    /\ stream' = [stream EXCEPT !.lines = @ + 1,
                                !.actual_service_tier =
                                    IF tier = "unsaid" THEN @ ELSE tier]
    /\ Fail(stream'.actual_service_tier)
    /\ UNCHANGED <<naming, channel, history>>

\* Mutant of StreamEnds: a finish that went out is taken for the completion.
StreamEndsQuietly ==
    /\ At("streaming")
    /\ IF \E i \in DOMAIN sent : sent[i].finish # "none"
       THEN turn' = [turn EXCEPT !.pc = "done"]
       ELSE Fail(stream.actual_service_tier)
    /\ UNCHANGED <<naming, stream, channel, history>>

\* End of file, with or without a tail, a transport error, malformed JSON, or
\* [DONE]: all of them come before response.completed.
StreamEnds ==
    /\ At("streaming")
    /\ Fail(stream.actual_service_tier)
    /\ UNCHANGED <<naming, stream, channel, history>>

-----------------------------------------------------------------------------
(* The channel.                                                              *)

\* tx.send finds room.
Deliver ==
    /\ At("emitting")
    /\ Len(sent) - taken < Capacity
    /\ sent' = Append(sent, turn.event)
    /\ turn' = [turn EXCEPT !.pc = turn.next, !.event = Chunk]
    /\ stream' = [stream EXCEPT !.meaningful_event_sent =
                                    @ \/ Useful(turn.event)]
    /\ UNCHANGED <<naming, taken, client, history>>

Take ==
    /\ client = "open"
    /\ taken < Len(sent)
    /\ taken' = taken + 1
    /\ UNCHANGED <<naming, turn, stream, sent, client, history>>

\* CompletionReceiver::drop closes the channel before anything else.
Leave ==
    /\ client = "open"
    /\ client' = "gone"
    /\ UNCHANGED <<naming, turn, stream, sent, taken, history>>

\* tx.closed() wins every select, and tx.send fails.
Abandon ==
    /\ client = "gone"
    /\ turn.pc # "done"
    /\ turn' = [turn EXCEPT !.pc = "done"]
    /\ UNCHANGED <<naming, stream, channel, history>>

-----------------------------------------------------------------------------
(* The client.                                                               *)

\* What chat_response::collect takes for a failure: an error, a terminal it can
\* read, a finish that is none.
Fails(e) ==
    \/ e.error
    \/ e.structured
    \/ e.finish \notin {"none", "stop", "tool_calls"}

\* It makes a document of what is sent: an answer, or a failure.
Collected ==
    /\ \A i \in DOMAIN sent : ~Fails(sent[i])
    /\ \E i \in DOMAIN sent : sent[i].finish # "none"

-----------------------------------------------------------------------------
Next ==
    \/ \E s \in Slots : Lease(s) \/ Move(s)
    \/ LeaseFails \/ MoveFails
    \/ TransportFails \/ Accept \/ Decide
    \/ \E refusal \in Refusals : Refuse(refusal)
    \/ Silent \/ FunctionCall \/ Finish \/ StreamEnds
    \/ \E tier \in Tiers : Envelope(tier) \/ Failed(tier)
    \/ \E text \in Texts : Message(text)
    \/ \E text \in Texts \cup {NoText}, usage \in BOOLEAN, tier \in Tiers :
         Completed(text, usage, tier)
    \/ Deliver \/ Take \/ Leave \/ Abandon

Spec == Init /\ [][Next]_vars

-----------------------------------------------------------------------------
(* Properties.                                                               *)

TypeOK ==
    /\ naming \in Namings
    /\ turn \in Turn
    /\ stream \in Stream
    /\ sent \in Seq(Event)
    /\ taken \in 0 .. Len(sent)
    /\ Len(sent) - taken <= Capacity
    /\ client \in {"open", "gone"}
    /\ refused \subseteq Slots \X {Quota, NeedsLogin}
    /\ said \subseteq Texts \cup {"function_call"}

\* A turn that nothing useful came of may ask again: once after a transport
\* failure or a torn stream, once on the standby, once in the conservative
\* shape, and so never more than four times; and it asks the router to move at
\* most once, however its retries follow one another.
RequestsAreBounded == turn.attempt <= 4 /\ turn.moves <= 1

\* Nothing the client can act upon is ever asked for twice: once a text, a tool
\* call, a finish, usage or a tier went out, or the stream named a tier, no
\* request of this turn leaves the relay.
NoReplay ==
    [][turn'.attempt # turn.attempt =>
         /\ \A i \in DOMAIN sent : ~Useful(sent[i])
         /\ stream.actual_service_tier # "named"]_vars

\* A failure is the last thing sent, and a turn does not end
\* without telling the client that is still there how it went.
ToldOnce ==
    /\ \A i \in DOMAIN sent : Fails(sent[i]) => i = Len(sent)
    /\ turn.pc = "done" /\ client = "open" => Len(sent) > 0

\* The document is an answer exactly if the backend completed the response: not
\* when it broke off after a finish of its own, whatever the terminals are
\* called.
CollectedIsWhole ==
    turn.pc = "done" /\ client = "open" => (Collected <=> stream.saw_completed)

\* A completed answer holds everything the backend said in the stream it
\* completed, nothing it said in another, and finishes with the calls it made.
AnswerIsWhole ==
    turn.pc = "done" /\ client = "open" /\ stream.saw_completed =>
        LET tools == {i \in DOMAIN sent : sent[i].tool} IN
        /\ {sent[i].text : i \in DOMAIN sent} \ {NoText}
             = said \ {"function_call"}
        /\ Cardinality(tools) = stream.tool_call_index
        /\ tools # {} <=> "function_call" \in said
        /\ tools # {} => sent[Len(sent)].finish = "tool_calls"

\* A terminal that blames the accounts tells what each of them answered, also
\* when the answers were different and a failover lies between them.
BlameIsTrue ==
    \A i \in DOMAIN sent :
        LET codes == {r[2] : r \in refused} IN
        /\ sent[i].code \in {Quota, NeedsLogin} => codes = {sent[i].code}
        /\ sent[i].code = Unavailable =>
             /\ codes = {Quota, NeedsLogin}
             /\ \A r, q \in refused : r[2] # q[2] => r[1] # q[1]
        /\ sent[i].code = Torn => ~stream.saw_completed

\* What is left of the requests a turn may make and of its one move.
Counted ==
    /\ turn.attempt <= (IF turn.pc = "leasing" THEN 0 ELSE 1)
                         + (IF turn.retried THEN 1 ELSE 0)
                         + (IF turn.account_failover_done THEN 1 ELSE 0)
                         + (IF turn.stream_retry_done THEN 1 ELSE 0)
    /\ turn.moves <= 1
    /\ turn.moves = 1 =>
         \/ turn.account_failover_done
         \/ turn.pc \in {"moving", "done"}
         \/ turn.pc = "emitting" /\ turn.next = "done"
    /\ turn.pc = "moving" => ~turn.account_failover_done

\* Between two streams nothing useful has gone out; within one,
\* meaningful_event_sent says so.
Unheard ==
    /\ \/ turn.pc \in {"leasing", "sending", "refused", "moving"}
       \/ turn.pc = "streaming" /\ ~stream.meaningful_event_sent
       => /\ \A i \in DOMAIN sent : ~Useful(sent[i])
          /\ stream.actual_service_tier # "named"
    /\ turn.pc = "emitting" /\ turn.next = "streaming" =>
         /\ ~stream.meaningful_event_sent =>
              \A i \in DOMAIN sent : ~Useful(sent[i])
         /\ ~Useful(turn.event) /\ ~stream.meaningful_event_sent =>
              stream.actual_service_tier # "named"

\* Until the last event nothing sent is a failure; the last one is, unless it
\* is the finish of the completed response.
Verdict ==
    /\ turn.pc # "done" => \A i \in DOMAIN sent : ~Fails(sent[i])
    /\ turn.pc = "emitting" =>
         IF turn.next = "streaming"
         THEN ~Fails(turn.event) /\ ~stream.saw_completed
         ELSE IF stream.saw_completed
              THEN ~Fails(turn.event) /\ turn.event.finish # "none"
              ELSE Fails(turn.event)
    /\ turn.pc \notin {"emitting", "done"} => ~stream.saw_completed
    /\ turn.pc = "done" /\ client = "open" =>
         /\ sent # <<>>
         /\ \A i \in DOMAIN sent : Fails(sent[i]) => i = Len(sent)
         /\ Fails(sent[Len(sent)]) <=> ~stream.saw_completed
         /\ stream.saw_completed => sent[Len(sent)].finish # "none"
    /\ turn.pc = "done" =>
         \A i \in DOMAIN sent : Fails(sent[i]) => i = Len(sent)

\* Whatever is asked is asked with the credentials of a slot.
Leased ==
    \/ turn.pc \in {"sending", "refused", "moving", "streaming"}
    \/ turn.pc = "emitting" /\ turn.next = "streaming"
    => turn.slot \in Slots

\* The inductive invariant.
TurnInv == TypeOK /\ Leased /\ Counted /\ Unheard /\ Verdict

\* All that was handed to the channel, the event that waits for room included.
Offered == IF turn.pc = "emitting" THEN Append(sent, turn.event) ELSE sent

\* The turn goes on: it has not offered its last event.
GoesOn == \/ turn.pc \notin {"emitting", "done"}
          \/ turn.pc = "emitting" /\ turn.next = "streaming"

\* account_attempts remembers every refusal that blames an account: none before
\* the failover, then the one that led to it, of another slot than the one that is
\* asked now, and at last one of that slot.
Remembered ==
    LET attempts == turn.account_attempts IN
    /\ refused = {attempts[i] : i \in DOMAIN attempts}
    /\ GoesOn /\ turn.pc # "moving" =>
         IF turn.account_failover_done
         THEN /\ turn.pc # "leasing"
              /\ Len(attempts) = 1 /\ attempts[1][1] # turn.slot
         ELSE attempts = <<>>
    /\ turn.pc = "moving" =>
         /\ turn.refusal \in {"quota", "auth"}
         /\ attempts = <<Blames[turn.refusal]>>
    /\ Len(attempts) <= 2
    /\ Len(attempts) = 2 => attempts[1][1] # attempts[2][1]

\* A code tells what the accounts answered, and whether the stream broke off.
Honest(code, refusals, completed) ==
    LET codes == {r[2] : r \in refusals} IN
    /\ code \in {Quota, NeedsLogin} => codes = {code}
    /\ code = Unavailable =>
         /\ codes = {Quota, NeedsLogin}
         /\ \A r, q \in refusals : r[2] # q[2] => r[1] # q[1]
    /\ code = Torn => ~completed

\* No code is given before the last event, and that one is honest.
Blamed ==
    /\ \A i \in DOMAIN Offered :
         Honest(Offered[i].code, refused, stream.saw_completed)
    /\ GoesOn => \A i \in DOMAIN Offered : Offered[i].code = "none"

BlameInv == TurnInv /\ Remembered /\ Blamed

TextsOf(events) == {events[i].text : i \in DOMAIN events} \ {NoText}
ToolsOf(events) == {i \in DOMAIN events : events[i].tool}

\* Within a stream, and after it was completed, all that the backend said has been
\* handed to the channel.
Whole ==
    \/ turn.pc = "streaming"
    \/ turn.pc = "emitting" /\ ~Fails(turn.event)
    \/ turn.pc = "done" /\ client = "open" /\ stream.saw_completed
    => /\ TextsOf(Offered) = said \ {"function_call"}
       /\ stream.last_sent_content \in TextsOf(Offered) \cup {NoText}
       /\ Cardinality(ToolsOf(Offered)) = stream.tool_call_index
       /\ stream.tool_call_index > 0 <=> "function_call" \in said
       /\ stream.saw_completed /\ stream.tool_call_index > 0 =>
            Offered[Len(Offered)].finish = "tool_calls"

AnswerInv == TurnInv /\ Whole

\* "One can get here with a 401 only after the standby slot has refused too"
\* (the comment above the terminal that asks for a login).
LoginAsksForBoth ==
    \A i \in DOMAIN sent :
        sent[i].code = NeedsLogin =>
            \E r, q \in refused : r[1] # q[1] /\ r[2] = NeedsLogin /\ q[2] = NeedsLogin
=============================================================================
