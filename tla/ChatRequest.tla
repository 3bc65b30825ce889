---------------------------- MODULE ChatRequest ----------------------------
(***************************************************************************)
(* From a chat request to the turn that answers it                         *)
(* (chat_completions_handler of src/lib.rs): the client key, the shape of  *)
(* the request, its model, its reasoning effort and its content.           *)
(*                                                                         *)
(* The handler reads the model catalog up to four times, and a switch, a   *)
(* sign-in or a refresh may change the catalog between any two of them.    *)
(***************************************************************************)
EXTENDS ContentRules, SequencesExt

CONSTANTS
    ChatRequests, \* what clients ask
    Catalogs,     \* what the catalog may serve: sequences of models
    ConfigModel,  \* Config.model, or "" when the operator names none
    ConfigEffort, \* Config.reasoning_effort, or NoEffort
    NoEffort,
    Discovery,    \* whether the catalog is the vendor's
    MaxChanges    \* bound on its changes

VARIABLES
    catalog, changes,
    stage,  \* where the handler stands
    asked,  \* the request, with what was filled in
    reply,
    seen,   \* the snapshot that the effort was taken from
    always  \* history: the models in the catalog ever since the request came

vars == <<catalog, changes, stage, asked, reply, seen, always>>

\* What a request is, whether or not it is valid.  Base64 comes in groups of four,
\* the last of which may be padded.
IsRequest(r) ==
    /\ {"key", "json", "model", "effort", "tools", "messages"} \subseteq DOMAIN r
    /\ r = [x \in DOMAIN r |-> r[x]]
    /\ r.json \in {"ok", "large", "broken"}
    /\ Len(r.tools) \in Nat /\ Len(r.messages) \in Nat
    /\ \A i \in 1..Len(r.messages) : Len(PartsOf(r.messages[i])) \in Nat
    /\ \A p \in ImageParts(r) :
         LET url == At(r, p).url IN
         url.scheme = "data" =>
             /\ url.encoded \in Nat /\ url.padding \in 0..2
             /\ url.decodes => url.encoded % 4 = 0

Slugs(models) == {models[i].slug : i \in 1..Len(models)}

\* Mutant of Known: a model that the backend hides is refused.
KnownIfListed(model, models) ==
    \E i \in 1..Len(models) : models[i].slug = model /\ models[i].listed

Known(model, models) == model \in Slugs(models)

\* CatalogSnapshot::find and listed_slugs
Entry(model, models) == models[CHOOSE i \in 1..Len(models) :
                                   models[i].slug = model]
FirstListed(models) ==
    LET listed == SelectSeq(models, LAMBDA m : m.listed)
    IN  IF listed = <<>> THEN "" ELSE listed[1].slug

-----------------------------------------------------------------------------
(* Reasoning efforts.                                                        *)

\* REASONING_EFFORTS
Ladder == <<"none", "minimal", "low", "medium", "high", "xhigh", "max", "ultra">>
Rung(effort) == CHOOSE i \in 1..Len(Ladder) : Ladder[i] = effort
OnLadder(effort) == effort \in ToSet(Ladder)

Lowest(rungs) == CHOOSE r \in rungs : \A q \in rungs : r <= q
Highest(rungs) == CHOOSE r \in rungs : \A q \in rungs : q <= r

\* The nearest supported rung above, else the highest.
Nearest(effort, rungs) ==
    LET above == {r \in rungs : r >= Rung(effort)}
    IN  IF above # {} THEN Lowest(above) ELSE Highest(rungs)

\* clamp_effort
ClampEffort(effort, model) ==
    LET levels == ToSet(model.efforts)
        rungs == {Rung(l) : l \in {m \in levels : OnLadder(m)}}
    IN  IF effort = NoEffort \/ levels = {} \/ effort \in levels THEN effort
        ELSE IF ~OnLadder(effort) /\ model.default \in levels THEN model.default
        ELSE IF rungs = {} THEN effort
        ELSE IF OnLadder(effort) THEN Ladder[Nearest(effort, rungs)]
        ELSE Ladder[Lowest(rungs)]

\* No effort is a value of its own, which no model lists.
NoEffortIsNone ==
    /\ NoEffort \notin ToSet(Ladder)
    /\ \A models \in Catalogs : \A i \in 1..Len(models) :
           NoEffort \notin ToSet(models[i].efforts)

-----------------------------------------------------------------------------
Init ==
    /\ catalog \in Catalogs /\ changes = 0
    /\ stage = "arrived"
    /\ asked \in ChatRequests
    /\ reply = "none"
    /\ seen = <<>>
    /\ always = Slugs(catalog)

Refuse(code) == stage' = "refused" /\ reply' = code
Goes(s) == stage' = s /\ UNCHANGED reply
World == <<catalog, changes, always>>

TierIsKnown(tier) ==
    tier \in {"absent", "fast", "auto", "default", "flex", "priority"}

\* What can be judged without the catalog.
Arrive ==
    /\ stage = "arrived"
    /\ IF asked.key \notin {"unset", "right"} THEN Refuse("invalid_api_key")
       ELSE IF asked.json = "large" THEN Refuse("request_too_large")
       ELSE IF asked.json = "broken" THEN Refuse("invalid_json")
       ELSE IF ~TierIsKnown(asked.tier) THEN Refuse("invalid_service_tier")
       ELSE Goes("named")
    /\ UNCHANGED <<World, asked, seen>>

\* A request without a model gets the operator's, or the first that is listed.
Name ==
    /\ stage = "named"
    /\ asked' = IF asked.model # "" THEN asked
                ELSE [asked EXCEPT !.model = IF ConfigModel # "" THEN ConfigModel
                                             ELSE FirstListed(catalog)]
    /\ Goes("looked")
    /\ UNCHANGED <<World, seen>>

\* is_known: a model the catalog does not know is looked for once more, after a
\* refresh that the cooldown may prevent.
Look ==
    /\ stage = "looked"
    /\ Goes(IF Known(asked.model, catalog) THEN "known"
            ELSE IF Discovery THEN "refreshed" ELSE "unknown")
    /\ UNCHANGED <<World, asked, seen>>

Refresh ==
    /\ stage = "refreshed"
    /\ Goes(IF Known(asked.model, catalog) THEN "known" ELSE "unknown")
    /\ UNCHANGED <<World, asked, seen>>

\* The refusal lists what is on offer, from a snapshot of its own.
NotFound ==
    /\ stage = "unknown"
    /\ Refuse("model_not_found")
    /\ seen' = catalog
    /\ UNCHANGED <<World, asked>>

\* The effort that the request or else the operator wants.
Wanted == IF asked.effort # NoEffort THEN asked.effort ELSE ConfigEffort

\* Mutant of Fitted: only an effort that the client asked for is clamped.
FittedIfAsked(models) ==
    IF asked.effort = NoEffort \/ ~Known(asked.model, models) THEN asked
    ELSE [asked EXCEPT !.effort =
             ClampEffort(asked.effort, Entry(asked.model, models))]

\* A model that has left the catalog by now keeps the effort it came with.
Fitted(models) ==
    IF Wanted = NoEffort \/ ~Known(asked.model, models) THEN asked
    ELSE [asked EXCEPT !.effort =
             ClampEffort(Wanted, Entry(asked.model, models))]

\* The last snapshot; no await comes after it.
Check ==
    /\ stage = "known"
    /\ asked' = Fitted(catalog)
    /\ seen' = catalog
    /\ IF ContentIsValid(asked') THEN Goes("forwarded")
       ELSE Refuse("invalid_message_content")
    /\ UNCHANGED World

\* A refresh, a switch or a sign-in changes what the catalog serves.
Change ==
    /\ changes < MaxChanges
    /\ stage \notin {"forwarded", "refused"}
    /\ catalog' \in Catalogs \ {catalog}
    /\ changes' = changes + 1
    /\ always' = always \cap Slugs(catalog')
    /\ UNCHANGED <<stage, asked, reply, seen>>

Next == Arrive \/ Name \/ Look \/ Refresh \/ NotFound \/ Check \/ Change

Spec == Init /\ [][Next]_vars

-----------------------------------------------------------------------------
(* Properties.                                                               *)

\* The effort that stream_chat_completions will send: one that is on the ladder.
Effort == IF OnLadder(Wanted) THEN Wanted ELSE NoEffort

\* "Clamp to the nearest level the model supports before anything goes upstream":
\* a model that is still in the catalog, and says which efforts it takes, is sent
\* one of these, also where the operator's default is not among them.
EffortIsSupported ==
    stage = "forwarded" /\ Known(asked.model, seen) /\ Effort # NoEffort =>
        LET levels == ToSet(Entry(asked.model, seen).efforts)
        IN  (\E l \in levels : OnLadder(l)) => Effort \in levels

\* Nothing goes to the vendor that it would refuse, or charge for, in vain: no
\* more images than allowed over all messages, none in a message of another role,
\* and no second search.
ForwardedIsWithinBounds ==
    stage = "forwarded" =>
        /\ asked.key \in {"unset", "right"} /\ asked.json = "ok"
        /\ Cardinality(ImageParts(asked)) <= MaxImages
        /\ Cardinality(Searches(asked)) <= 1
        /\ \A p \in ImageParts(asked) :
             LET url == At(asked, p).url IN
             /\ asked.messages[p[1]].role = "user"
             /\ url.scheme = "data" => Decoded(url) \in 1..MaxDataBytes

\* A model that was on offer all the time is not refused as unknown, however
\* the catalog changes between the reads.
KnownModelsAreServed ==
    reply = "model_not_found" => asked.model \notin always
=============================================================================
