------------------------------ MODULE Handlers ------------------------------
(***************************************************************************)
(* The modules of the handlers, of the conversions, of the sign-in helper  *)
(* and of the page side by side.  They share no variable: a behaviour is   *)
(* one of the part it starts in, and what the others stand for is Unused,  *)
(* or stays as it begins.                                                  *)
(***************************************************************************)
EXTENDS LimitsCache, Conversions, Integers, Sequences

CONSTANTS
    Parts,   \* the parts that run
    Unused,  \* the variables of the parts that do not
    Unknown, NoText,
    \* ContentRules
    MaxImages, MaxUrlBytes, MaxDataBytes, MaxUses, NoUses, PlainModel,
    \* Images
    Clients, ImageRequests, Bodies, MaxAnswer, MaxPicture, MaxPrompt, MaxName,
    MaxSize, MaxImageEdits, MaxMoves,
    \* ChatRequest
    ChatRequests, Catalogs, ConfigModel, ConfigEffort, NoEffort, Discovery,
    MaxCatalogChanges,
    \* UsageDocument
    Windows, Refusals, Ages,
    \* BrowserSignIn
    Candidates, Working, PythonSettings, Grants, TokenAnswers, OldFiles, MaxAge, Skew,
    MaxSignInTime,
    \* SettingsPage
    Inputs, Texts, Faulty, Clicks, Requests, MaxFieldEdits

VARIABLES
    part,
    imageSlot, moves, job, charged, \* Images
    catalog, catalogChanges, handlerStage, asked, reply, seen, always, \* ChatRequest
    usageStage, raw, doc, age, parked, told, \* UsageDocument
    signInClock, port, helper, code, staged, login, authFile, author,
    refreshing, \* BrowserSignIn
    saved, rendered, field, focus, draft, timers, queue, saveReply,
    ended, busy, click, statusPoll, fieldEdits, typed, refused, astray \* SettingsPage

imagesVars == <<imageSlot, moves, job, charged>>
requestVars == <<catalog, catalogChanges, handlerStage, asked, reply, seen,
                 always>>
usageVars == <<usageStage, raw, doc, age, parked, told>>
signInVars == <<signInClock, port, helper, code, staged, login, authFile,
                author, refreshing>>
pageVars == <<saved, rendered, field, focus, draft, timers, queue, saveReply,
              ended, busy, click, statusPoll, fieldEdits, typed, refused,
              astray>>
allVars == <<part, vars, imagesVars, requestVars, talkVars, streamVars,
             answerVars, usageVars, listVars, signInVars, pageVars>>

-----------------------------------------------------------------------------
(* The parts.                                                                *)

Images == INSTANCE Images WITH MaxEdits <- MaxImageEdits, active <- imageSlot
Request == INSTANCE ChatRequest WITH
    MaxChanges <- MaxCatalogChanges,
    changes <- catalogChanges, stage <- handlerStage
Usage == INSTANCE UsageDocument WITH stage <- usageStage
Browser == INSTANCE BrowserSignIn WITH
    MaxTime <- MaxSignInTime, clock <- signInClock, file <- authFile
Page == INSTANCE SettingsPage WITH
    Polls <- Requests, MaxEdits <- MaxFieldEdits,
    reply <- saveReply, poll <- statusPoll, edits <- fieldEdits

\* What the proofs assume of images and of chat requests.
ASSUME ImagesAssumption == MaxAnswer \in Nat
ASSUME RequestsAssumption ==
    /\ MaxImages \in Nat /\ MaxDataBytes \in Nat
    /\ \A r \in ChatRequests : Request!IsRequest(r)
    /\ Request!NoEffortIsNone

\* What they assume of the vendor's documents: a field is a number or is not known.
ASSUME UsageAssumption ==
    /\ Unknown \notin Int /\ Ages \subseteq Nat
    /\ Windows \subseteq Usage!Window \cup {Absent}
    /\ Refusals \subseteq Seq(Usage!Scope \cup {Absent})

\* The fields are a list, and what may be typed is a text.
ASSUME PageAssumption == Inputs \in Seq(Page!Names) /\ NoText \notin Texts

\* And of a sign-in: a refresh that succeeds leaves a token out or gives one, for
\* update_tokens does not look whether there is anything in it.
ASSUME SignInAssumption ==
    /\ Absent \notin Int \cup Browser!File
    /\ OldFiles \subseteq Browser!File \cup {Absent}
    /\ Grants \subseteq Browser!Grant /\ TokenAnswers \subseteq Browser!Answer
    /\ \A answer \in TokenAnswers : answer.id = "raw" =>
           {answer.access, answer.refresh} \cap {"", "blank"} = {}

-----------------------------------------------------------------------------
HandlersInit ==
    /\ part \in Parts
    /\ Init
    /\ part # "limits" =>
         held = [s \in Slots |-> NoAccount] /\ active = CHOOSE s \in Slots : TRUE
    /\ IF part = "images" THEN Images!Init
       ELSE /\ imageSlot = Unused /\ moves = Unused /\ job = Unused
            /\ charged = Unused
    /\ IF part = "request" THEN Request!Init
       ELSE /\ catalog = Unused /\ catalogChanges = Unused
            /\ handlerStage = Unused /\ asked = Unused /\ reply = Unused
            /\ seen = Unused /\ always = Unused
    /\ IF part = "conversation" THEN Talk!Init
       ELSE /\ environment = Unused /\ settings = Unused
            /\ instructionsFile = Unused /\ config = Unused
            /\ edits = Unused /\ client = Unused /\ messages = Unused
            /\ payload = Unused /\ reshaped = Unused
    /\ IF part = "stream" THEN Stream!Init
       ELSE /\ sent = Unused /\ carry = Unused /\ buffer = Unused
            /\ lines = Unused
    /\ IF part = "answer" THEN Answer!Init
       ELSE /\ text = Unused /\ said = Unused /\ spans = Unused
            /\ shown = Unused
    /\ IF part = "usage" THEN Usage!Init
       ELSE /\ usageStage = Unused /\ raw = Unused /\ doc = Unused
            /\ age = Unused /\ parked = Unused /\ told = Unused
    /\ IF part = "list" THEN List!Init
       ELSE /\ entry = Unused /\ document = Unused /\ extra = Unused
            /\ listed = Unused /\ from = Unused
    /\ IF part = "signin" THEN Browser!Init
       ELSE /\ signInClock = Unused /\ port = Unused /\ helper = Unused
            /\ code = Unused /\ staged = Unused /\ login = Unused
            /\ authFile = Unused /\ author = Unused /\ refreshing = Unused
    /\ IF part = "page" THEN Page!Init
       ELSE /\ saved = Unused /\ rendered = Unused /\ field = Unused
            /\ focus = Unused /\ draft = Unused /\ timers = Unused
            /\ queue = Unused /\ saveReply = Unused /\ ended = Unused
            /\ busy = Unused /\ click = Unused /\ statusPoll = Unused
            /\ fieldEdits = Unused /\ typed = Unused /\ refused = Unused
            /\ astray = Unused

\* Whatever does not belong to the part stays as it is.
Others(own) ==
    /\ UNCHANGED part
    /\ IF own = "limits" THEN TRUE ELSE UNCHANGED vars
    /\ IF own = "images" THEN TRUE ELSE UNCHANGED imagesVars
    /\ IF own = "request" THEN TRUE ELSE UNCHANGED requestVars
    /\ IF own = "conversation" THEN TRUE ELSE UNCHANGED talkVars
    /\ IF own = "stream" THEN TRUE ELSE UNCHANGED streamVars
    /\ IF own = "answer" THEN TRUE ELSE UNCHANGED answerVars
    /\ IF own = "usage" THEN TRUE ELSE UNCHANGED usageVars
    /\ IF own = "list" THEN TRUE ELSE UNCHANGED listVars
    /\ IF own = "signin" THEN TRUE ELSE UNCHANGED signInVars
    /\ IF own = "page" THEN TRUE ELSE UNCHANGED pageVars

HandlersNext ==
    \/ part = "limits" /\ Next /\ Others("limits")
    \/ part = "images" /\ Images!Next /\ Others("images")
    \/ part = "request" /\ Request!Next /\ Others("request")
    \/ part = "conversation" /\ Talk!Next /\ Others("conversation")
    \/ part = "stream" /\ Stream!Next /\ Others("stream")
    \/ part = "answer" /\ Answer!Next /\ Others("answer")
    \/ part = "usage" /\ Usage!Next /\ Others("usage")
    \/ part = "list" /\ List!Next /\ Others("list")
    \/ part = "signin" /\ Browser!Next /\ Others("signin")
    \/ part = "page" /\ Page!Next /\ Others("page")

HandlersSpec == HandlersInit /\ [][HandlersNext]_allVars

-----------------------------------------------------------------------------
(* Properties: those of the modules, where their part runs.  LimitsCache's     *)
(* are AnswersAreCurrent and BurstIsOneFetch.                                *)

\* What a client may be charged for agrees with what it is told (core/images.rs,
\* forward).
HonestReplies == part = "images" => Images!HonestReplies

\* A model that says which efforts it takes is sent one of these (lib.rs,
\* chat_completions_handler; catalog.rs, clamp_effort).
EffortIsSupported == part = "request" => Request!EffortIsSupported

\* Nothing is forwarded that the vendor would refuse or charge for in vain
\* (models.rs, validate_content).
ForwardedIsWithinBounds == part = "request" => Request!ForwardedIsWithinBounds

\* A model that was on offer all the time is not refused as unknown, however the
\* catalog changes between the handler's reads of it (lib.rs).
KnownModelsAreServed == part = "request" => Request!KnownModelsAreServed

\* Nothing of a conversation is lost on its way (chat_completions.rs,
\* build_responses_input).
HistoryIsWhole == part = "conversation" => Talk!HistoryIsWhole

\* A conversation that has grown is sent as a longer version of what was sent, in
\* the same session (chat_completions.rs, build_responses_payload).
PrefixIsKept == [][part = "conversation" => Talk!KeepsPrefix]_allVars

\* "An operator's own text outranks both built-ins" (chat_completions.rs:822), as
\* long as nobody edits it.
OperatorOutranks == [][part = "conversation" => Talk!UsesOperatorsText]_allVars

\* Where the network cuts the stream is immaterial (chat_completions.rs,
\* decode_stream_chunk).
ChunksAreImmaterial == part = "stream" => Stream!ChunksAreImmaterial

\* "An unclosed block must not eat the answer": the client is shown every word that
\* is not within a marker, and no raw marker (chat_completions.rs, clean_model_text).
AnswerIsReadable == part = "answer" => Answer!AnswerIsReadable

\* A slot with a full window is parked until the last of its full windows opens;
\* a refusal parks for a time it names, and no other (limits.rs, account_router.rs).
ParkedUntilItOpens == part = "usage" => Usage!ParkedUntilItOpens

\* Each model of the vendor and of the operator is served once, in the order of
\* their priorities (catalog.rs, parse_catalog, with_extras).
ServedInOrder == part = "list" => List!ServedInOrder

\* "Slugs always accepted and advertised on top of whatever the catalog says"
\* (catalog.rs:200).
ExtrasAreAdvertised == part = "list" => List!ExtrasAreAdvertised

\* A sign-in leaves a file that every later lease can use, whatever refreshes
\* rewrite it (login/lib.rs, write_auth_json, try_refresh_token).
SignedInMeansUsable == part = "signin" => Browser!SignedInMeansUsable

\* What was typed into the page is never lost, unless the page was misled by an old
\* status or by an older save of the same text (app.js, commitInput, saveSetting).
EditsAreKept == part = "page" => Page!EditsAreKept

\* An action finds the settings as they were typed before the click (app.js,
\* flushSettings).
ActionsSeeEdits == part = "page" => Page!ActionsSeeEdits
=============================================================================
