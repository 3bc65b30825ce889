---------------------------- MODULE Conversation ----------------------------
(***************************************************************************)
(* What the vendor is sent for a conversation: the payload that            *)
(* stream_chat_completions builds (src/core/chat_completions.rs) from the  *)
(* client's messages, the settings and the environment                     *)
(* (src/core/config.rs, src/settings.rs).                                  *)
(*                                                                         *)
(* The vendor caches the prefix that two requests share, under their cache *)
(* key: a conversation that grows must be sent as a longer version of what *)
(* was sent before, byte by byte.  Meanwhile the operator edits the        *)
(* settings and the instructions file, and the vendor may reject a payload *)
(* that is then sent once more without its optional parts.                 *)
(***************************************************************************)
EXTENDS Naturals, Sequences, SequencesExt

CONSTANTS
    Openings,    \* what the client asks for besides its messages
    Messages,    \* what a conversation is made of
    Environments,\* the variables the process was started with
    Patches,     \* edits of the settings
    Efforts,     \* REASONING_EFFORTS
    None,        \* what is absent
    MaxMessages, \* bound on the conversation
    MaxEdits     \* bound on the operator's edits

VARIABLES
    environment,
    settings,  \* Settings.defaults
    file,      \* the operator's instructions file: whether it says anything
    config,    \* the Config of the running server
    edits,
    client,    \* the client's request, but for
    messages,  \* its messages
    payload,   \* what was sent last, or None
    reshaped   \* whether it was sent in the conservative shape

operator == <<environment, settings, file, config, edits>>
vars == <<operator, client, messages, payload, reshaped>>

-----------------------------------------------------------------------------
(* Settings.                                                                 *)

\* Settings::validate, for the defaults of chat requests.  Lengths are classes.
ValidSettings(s) ==
    /\ s.modelIsPlain
    /\ s.reasoning \in Efforts \cup {"default"}
    /\ s.mode \in {"codex", "minimal"}
    /\ s.extra # "too long"

\* Settings::patched: the fields that the patch names, all of them or none; one
\* that the settings do not have is refused.
Patched(s, patch) ==
    LET next == [f \in DOMAIN s |-> IF f \in DOMAIN patch THEN patch[f] ELSE s[f]]
    IN  IF DOMAIN patch \subseteq DOMAIN s /\ ValidSettings(next) THEN next ELSE s

Given(env, f) == env[f] # None

\* What RELAY_REASONING_EFFORT says: some of its values mean no effort.
NamedEffort(value) ==
    IF value \in {None, "", "passthrough", "default", "none"} THEN None ELSE value

\* Config::load and Settings::config: the environment outranks the settings.
ConfigOf(env, s) ==
    [effort |-> NamedEffort(IF Given(env, "effort") THEN env.effort ELSE s.reasoning),
     minimal |-> (IF Given(env, "mode") THEN env.mode ELSE s.mode) = "minimal",
     parallel |-> IF Given(env, "parallel")
                  THEN env.parallel \notin {"false", "0", "off"} ELSE s.parallel,
     user |-> (IF env.agents THEN <<"agents">> ELSE <<>>)
              \o (IF s.extra # "" THEN <<s.extra>> ELSE <<>>)]

DefaultSettings == [modelIsPlain |-> TRUE, reasoning |-> "default",
                    mode |-> "codex", extra |-> "", parallel |-> TRUE]

-----------------------------------------------------------------------------
(* The payload.                                                              *)

\* A message has a role, a text ("" if it has none), its parts, the ids of the
\* calls it makes, and the id of the call it answers.
Item(type, role, wrap, id, content) ==
    [type |-> type, role |-> role, wrap |-> wrap, id |-> id, content |-> content]

Said(role, wrap, text) == Item("message", role, wrap, None, text)

\* Mutant of Items: a message without content is left out, calls and all.
ItemsOfText(m) ==
    IF m.text = "" /\ m.role = "assistant" THEN <<>>
    ELSE <<Said(m.role, None, m.text)>>
         \o [i \in 1..Len(m.calls) |-> Item("call", None, None, m.calls[i], "")]

\* build_responses_input, for one message.
Items(m) ==
    CASE m.role = "system" -> <<Said("user", "system", m.text)>>
      [] m.role = "tool" ->
           IF m.answers # None
           THEN <<Item("output", None, None, m.answers, m.text)>>
           ELSE <<Said("assistant", "tool_response", m.text)>>
      [] m.role = "assistant" ->
           (IF m.text = "" THEN <<>> ELSE <<Said("assistant", None, m.text)>>)
           \o [i \in 1..Len(m.calls) |-> Item("call", None, None, m.calls[i], "")]
      [] m.role \in {"user", "developer"} -> <<Said(m.role, None, m.parts)>>
      [] OTHER -> <<Said("user", m.role, m.text)>>

Input(ms) == FlattenSeq([i \in 1..Len(ms) |-> Items(ms[i])])

\* Mutant of Affinity: the key is made of all that was said.
AffinityOfAll(model, ms) == <<model, ms>>

\* conversation_affinity, a hash: equal for equal models and first messages.
Affinity(model, ms) == <<model, IF ms = <<>> THEN None ELSE Head(ms)>>

\* map_tools_for_responses
MappedTool(t) ==
    IF t.type = "function"
    THEN [type |-> "function", option |-> IF t.option = None THEN "false" ELSE t.option]
    ELSE [type |-> "web_search", option |-> IF t.option = None THEN "true" ELSE t.option]

Instructions(c, custom) ==
    [base |-> IF custom THEN "operator's" ELSE IF c.minimal THEN "minimal" ELSE "codex",
     user |-> IF custom THEN <<>> ELSE c.user]

UpstreamTier(tier) == IF tier = "fast" THEN "priority" ELSE tier

WantedEffort ==
    LET effort == IF client.effort # None THEN client.effort ELSE config.effort
    IN  IF effort \in Efforts THEN effort ELSE None

\* build_responses_payload; the session is the cache key's, whatever becomes of it.
Payload(ms) ==
    LET key == IF client.key # None THEN client.key ELSE Affinity(client.model, ms)
        tools == client.tools
    IN [model |-> client.model,
        instructions |-> Instructions(config, file),
        input |-> Input(ms),
        reasoning |-> WantedEffort,
        tier |-> UpstreamTier(client.tier),
        key |-> <<key>>, session |-> <<key>>,
        tools |-> [i \in 1..Len(tools) |-> MappedTool(tools[i])],
        parallel |-> tools # <<>> /\ config.parallel]

Sent == payload # <<>>

-----------------------------------------------------------------------------
Init ==
    /\ environment \in Environments
    /\ settings = DefaultSettings /\ file \in BOOLEAN
    /\ config = ConfigOf(environment, settings)
    /\ edits = 0
    /\ client \in Openings
    /\ messages = <<>> /\ payload = <<>> /\ reshaped = FALSE

\* The conversation goes on.
Say ==
    /\ Len(messages) < MaxMessages
    /\ \E m \in Messages : messages' = Append(messages, m)
    /\ UNCHANGED <<operator, client, payload, reshaped>>

\* custom_instructions reads the file for each request anew.
Ask ==
    /\ messages # <<>>
    /\ payload' = <<Payload(messages)>>
    /\ reshaped' = FALSE
    /\ UNCHANGED <<operator, client, messages>>

\* 400, 404 or 422, for a request that names no tier: once more, without the
\* reasoning and the cache key, and with the full instructions for the minimal.
Reshape ==
    /\ Sent /\ ~reshaped /\ client.tier = None
    /\ payload' = <<[payload[1] EXCEPT
           !.reasoning = None, !.key = <<>>,
           !.instructions = IF config.minimal
                            THEN [base |-> "codex", user |-> config.user] ELSE @]>>
    /\ reshaped' = TRUE
    /\ UNCHANGED <<operator, client, messages>>

EditFile ==
    /\ edits < MaxEdits
    /\ file' = ~file
    /\ edits' = edits + 1
    /\ UNCHANGED <<environment, settings, config, client, messages, payload, reshaped>>

Configure ==
    /\ edits < MaxEdits
    /\ \E patch \in Patches : settings' = Patched(settings, patch)
    /\ edits' = edits + 1
    /\ UNCHANGED <<environment, file, config, client, messages, payload, reshaped>>

\* Relay::start gives a server the settings of its start.
Restart ==
    /\ config' = ConfigOf(environment, settings)
    /\ UNCHANGED <<environment, settings, file, edits, client, messages, payload,
                   reshaped>>

Next == Say \/ Ask \/ Reshape \/ EditFile \/ Configure \/ Restart

Spec == Init /\ [][Next]_vars

-----------------------------------------------------------------------------
(* Properties.                                                               *)

Ids(type, items) ==
    FlattenSeq([i \in 1..Len(items) |->
                    IF items[i].type = type THEN <<items[i].id>> ELSE <<>>])
CallsOf(m) == IF m.role = "assistant" THEN m.calls ELSE <<>>
AnswersOf(m) == IF m.role = "tool" /\ m.answers # None THEN <<m.answers>> ELSE <<>>

\* Nothing of a conversation is lost on its way: the calls of the assistant and the
\* answers to calls, in their order, and every text, under whatever role may say it.
HistoryIsWhole ==
    LET input == Payload(messages).input
        n == Len(messages)
    IN  /\ Ids("call", input) = FlattenSeq([i \in 1..n |-> CallsOf(messages[i])])
        /\ Ids("output", input) = FlattenSeq([i \in 1..n |-> AnswersOf(messages[i])])
        /\ \A i \in 1..n : messages[i].text # "" =>
               \E j \in 1..Len(input) :
                   input[j].content \in {messages[i].text, messages[i].parts}

\* A conversation that has grown is sent as a longer version of what was sent, in
\* the same session, and under the same key but for a retry that has none.
KeepsPrefix ==
    Sent /\ payload' # <<>> =>
        /\ IsPrefix(payload[1].input, payload'[1].input)
        /\ payload'[1].session = payload[1].session
        /\ payload'[1].tools = payload[1].tools
        /\ payload'[1].key \in {<<>>, payload'[1].session}

PrefixIsKept == [][KeepsPrefix]_vars

\* "An operator's own text outranks both built-ins" (chat_completions.rs:822),
\* as long as nobody edits it.
UsesOperatorsText ==
    file /\ file' /\ payload' # payload /\ payload' # <<>>
    /\ (Sent => payload[1].instructions.base = "operator's") =>
        payload'[1].instructions.base = "operator's"

OperatorOutranks == [][UsesOperatorsText]_vars
=============================================================================
