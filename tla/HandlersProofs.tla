--------------------------- MODULE HandlersProofs ---------------------------
(***************************************************************************)
(* Proofs about Handlers, for any values of its constants: each property   *)
(* that is an invariant of one part.                                       *)
(***************************************************************************)
EXTENDS Handlers, ConversionsProofs

\* The proofs about chat requests.
RequestP == INSTANCE ChatRequestProofs WITH
    MaxChanges <- MaxCatalogChanges,
    changes <- catalogChanges, stage <- handlerStage

-----------------------------------------------------------------------------
\* A behaviour is one of its part, whose steps are those of the part's module.
LEMMA OnePartRuns ==
    ASSUME [HandlersNext]_allVars
    PROVE  /\ part' = part
           /\ part = "images" => [Images!Next]_imagesVars
           /\ part = "request" => [Request!Next]_requestVars
           /\ part = "usage" => [Usage!Next]_usageVars
           /\ part = "signin" => [Browser!Next]_signInVars
           /\ part = "page" => [Page!Next]_pageVars
           /\ part = "list" => [List!Next]_listVars
           /\ part = "stream" => [Stream!Next]_streamVars
           /\ part = "conversation" => [Talk!Next]_talkVars
           /\ part = "answer" => [Answer!Next]_answerVars
  BY DEF HandlersNext, Others, allVars

-----------------------------------------------------------------------------
(* Images.                                                                   *)

\* What the relay says before it has asked the vendor anything.
EarlyReplies == {"invalid_api_key", "invalid_image_request", "subscription_needs_login"}
LateReplies == {"image_outcome_unknown", "image_response_too_large", "vendor",
         "image_upstream_error", "invalid_image_response", "pictures"}

ImageJob == [pc : {"idle", "leasing", "sending", "sent", "reading", "answered",
              "gone"},
        edit : BOOLEAN, slot : Slots \cup {"none"}, sent : Nat,
        answer : Bodies \cup {Images!NoBody}, read : Nat,
        reply : EarlyReplies \cup LateReplies \cup {"none"}]

ImageTypes ==
    /\ job \in [Clients -> ImageJob]
    /\ charged \in [Clients -> Nat]

\* What the place of a request says of the vendor: until it is sent nothing is
\* drawn, it is sent once, and an answer that is read with a picture in it is of
\* a request that was drawn.
ImageIsSound(r, drawn) ==
    /\ drawn <= r.sent /\ r.sent <= 1
    /\ r.pc \in {"idle", "leasing", "sending"} => r.sent = 0
    /\ r.pc # "answered" => r.reply = "none"
    /\ r.reply \in EarlyReplies => r.sent = 0
    /\ r.pc = "reading" \/ r.reply = "pictures" =>
         /\ r.read <= MaxAnswer
         /\ r.answer.pictures # <<>> => drawn = 1
    /\ r.pc = "reading" => r.sent = 1
    /\ r.pc = "sent" => r.sent = 1 /\ r.read = 0
    /\ r.pc \in {"idle", "leasing", "sending"} => r.read = 0
    /\ r.reply = "pictures" =>
         /\ r.read = r.answer.length
         /\ Images!ValidAnswer(r.answer)

\* The inductive invariant.
ImagesInv == ImageTypes /\ \A c \in Clients : ImageIsSound(job[c], charged[c])

LEMMA NothingIsSound ==
    /\ Images!Nothing \in ImageJob /\ ImageIsSound(Images!Nothing, 0)
    /\ \A edit \in BOOLEAN, no \in EarlyReplies :
         LET r == [Images!Nothing EXCEPT !.edit = edit, !.pc = "answered", !.reply = no]
         IN  r \in ImageJob /\ ImageIsSound(r, 0)
    /\ \A edit \in BOOLEAN :
         LET r == [Images!Nothing EXCEPT !.edit = edit, !.pc = "leasing", !.reply = "none"]
         IN  r \in ImageJob /\ ImageIsSound(r, 0)
  <1>1. /\ Images!Nothing \in ImageJob /\ Images!Nothing.pc = "idle" /\ Images!Nothing.sent = 0
        /\ Images!Nothing.read = 0 /\ Images!Nothing.reply = "none"
    BY DEF Images!Nothing, ImageJob
  <1>2. ImageIsSound(Images!Nothing, 0)
    BY <1>1 DEF ImageIsSound, EarlyReplies
  <1>3. ASSUME NEW edit \in BOOLEAN, NEW pc \in {"answered", "leasing"},
               NEW no \in EarlyReplies \cup {"none"}, pc = "answered" \/ no = "none"
        PROVE  LET r == [Images!Nothing EXCEPT !.edit = edit, !.pc = pc, !.reply = no]
               IN  r \in ImageJob /\ ImageIsSound(r, 0)
    <2> DEFINE r == [Images!Nothing EXCEPT !.edit = edit, !.pc = pc, !.reply = no]
    <2>1. r \in ImageJob /\ r.pc = pc /\ r.sent = 0 /\ r.read = 0 /\ r.reply = no
      BY <1>1 DEF ImageJob
    <2>2. ImageIsSound(r, 0)
      BY <1>3, <2>1 DEF ImageIsSound, EarlyReplies
    <2> QED
      BY <2>1, <2>2
  <1> QED
    BY <1>1, <1>2, <1>3

\* A step of one client leaves the others as they are.
LEMMA ImageAlone ==
    ASSUME ImagesInv, NEW c \in Clients, NEW r \in ImageJob, Images!Become(c, r),
           ImageIsSound(r, charged[c]), UNCHANGED charged
    PROVE  ImagesInv'
  BY DEF ImagesInv, ImageTypes, Images!Become

LEMMA ImageAskKeeps ==
    ASSUME ImagesInv, NEW c \in Clients, Images!Ask(c)
    PROVE  ImagesInv'
  <1>1. PICK req \in ImageRequests, edit \in BOOLEAN :
          Images!Become(c, [Images!Nothing EXCEPT !.edit = edit,
            !.pc = IF Images!Refusal(req, edit) = "none" THEN "leasing" ELSE "answered",
            !.reply = Images!Refusal(req, edit)])
    BY DEF Images!Ask
  <1>2. Images!Refusal(req, edit) \in EarlyReplies \cup {"none"}
    BY DEF Images!Refusal, EarlyReplies
  <1>3. charged[c] = 0
    BY DEF Images!Ask, ImagesInv, ImageTypes, ImageIsSound, ImageJob
  <1>4. UNCHANGED charged
    BY DEF Images!Ask
  <1>5. CASE Images!Refusal(req, edit) = "none"
    <2> DEFINE r == [Images!Nothing EXCEPT !.edit = edit, !.pc = "leasing", !.reply = "none"]
    <2>1. r \in ImageJob /\ ImageIsSound(r, charged[c])
      BY <1>3, NothingIsSound
    <2>2. Images!Become(c, r)
      BY <1>1, <1>5
    <2> QED
      BY <1>4, <2>1, <2>2, ImageAlone
  <1>6. CASE Images!Refusal(req, edit) \in EarlyReplies
    <2> DEFINE r == [Images!Nothing EXCEPT !.edit = edit, !.pc = "answered",
                       !.reply = Images!Refusal(req, edit)]
    <2>1. r \in ImageJob /\ ImageIsSound(r, charged[c])
      BY <1>3, <1>6, NothingIsSound
    <2>2. Images!Refusal(req, edit) # "none"
      BY <1>6 DEF EarlyReplies
    <2>3. Images!Become(c, r)
      BY <1>1, <2>2
    <2> QED
      BY <1>4, <2>1, <2>3, ImageAlone
  <1> QED
    BY <1>2, <1>5, <1>6

\* A reply that is no picture, at a place where it may be given.
LEMMA ImageReplyKeeps ==
    ASSUME ImagesInv, NEW c \in Clients, NEW say \in (EarlyReplies \cup LateReplies) \ {"pictures"},
           job[c].pc \in {"leasing", "sent", "reading"},
           say \in EarlyReplies => job[c].pc = "leasing",
           Images!Reply(c, say), UNCHANGED charged
    PROVE  ImagesInv'
  <1> DEFINE r == [job[c] EXCEPT !.pc = "answered", !.reply = say]
  <1>1. job[c] \in ImageJob /\ ImageIsSound(job[c], charged[c])
    BY DEF ImagesInv, ImageTypes
  <1>2. r \in ImageJob /\ r.pc = "answered" /\ r.reply = say /\ r.sent = job[c].sent
    BY <1>1 DEF ImageJob
  <1>3. ImageIsSound(r, charged[c])
    BY <1>1, <1>2 DEF ImageIsSound, EarlyReplies
  <1>4. Images!Become(c, r)
    BY DEF Images!Reply
  <1> QED
    BY <1>2, <1>3, <1>4, ImageAlone

LEMMA ImageLeaseKeeps ==
    ASSUME ImagesInv, NEW c \in Clients, Images!Lease(c)
    PROVE  ImagesInv'
  <1>1. job[c] \in ImageJob /\ ImageIsSound(job[c], charged[c]) /\ job[c].pc = "leasing"
        /\ UNCHANGED charged
    BY DEF ImagesInv, ImageTypes, Images!Lease
  <1>2. CASE Images!Reply(c, "subscription_needs_login")
    BY <1>1, <1>2, ImageReplyKeeps DEF EarlyReplies
  <1>3. ASSUME NEW s \in Slots,
               Images!Become(c, [job[c] EXCEPT !.pc = "sending", !.slot = s])
        PROVE  ImagesInv'
    <2> DEFINE r == [job[c] EXCEPT !.pc = "sending", !.slot = s]
    <2>1. r \in ImageJob /\ ImageIsSound(r, charged[c])
      BY <1>1 DEF ImageJob, ImageIsSound, EarlyReplies
    <2> QED
      BY <1>1, <1>3, <2>1, ImageAlone
  <1> QED
    BY <1>2, <1>3 DEF Images!Lease

LEMMA ImageSendKeeps ==
    ASSUME ImagesInv, NEW c \in Clients, Images!Send(c)
    PROVE  ImagesInv'
  <1> DEFINE r == [job[c] EXCEPT !.pc = "sent", !.sent = @ + 1]
  <1>1. /\ job[c] \in ImageJob /\ ImageIsSound(job[c], charged[c]) /\ job[c].pc = "sending"
        /\ charged[c] \in Nat /\ UNCHANGED charged /\ Images!Become(c, r)
    BY DEF ImagesInv, ImageTypes, Images!Send
  <1>2. /\ r \in ImageJob /\ r.pc = "sent" /\ r.sent = 1 /\ r.read = 0 /\ r.reply = "none"
    <2>1. job[c].sent = 0 /\ job[c].read = 0 /\ job[c].reply = "none"
      BY <1>1 DEF ImageIsSound
    <2>2. r = [job[c] EXCEPT !.pc = "sent", !.sent = 1]
      BY <2>1
    <2> HIDE DEF r
    <2> QED
      BY <1>1, <2>1, <2>2 DEF ImageJob
  <1>3. charged[c] <= 0 /\ job[c].sent = 0
    BY <1>1 DEF ImageIsSound
  <1> HIDE DEF r
  <1>4. ImageIsSound(r, charged[c])
    BY <1>1, <1>2, <1>3 DEF ImageIsSound, EarlyReplies
  <1> QED
    BY <1>1, <1>2, <1>4, ImageAlone

LEMMA ImageDrawKeeps ==
    ASSUME ImagesInv, NEW c \in Clients, Images!Draw(c)
    PROVE  ImagesInv'
  <1>1. /\ job \in [Clients -> ImageJob] /\ charged \in [Clients -> Nat]
        /\ \A d \in Clients : ImageIsSound(job[d], charged[d])
    BY DEF ImagesInv, ImageTypes
  <1>2. job[c].sent = 1 /\ charged[c] = 0
    BY <1>1 DEF Images!Draw, ImageIsSound, ImageJob
  <1>3. job' = job /\ charged' = [charged EXCEPT ![c] = 1]
    BY <1>2 DEF Images!Draw
  <1>4. ImageIsSound(job[c], 1)
    BY <1>1, <1>2 DEF ImageIsSound
  <1> QED
    BY <1>1, <1>3, <1>4 DEF ImagesInv, ImageTypes

LEMMA ImageAnswersKeeps ==
    ASSUME ImagesInv, NEW c \in Clients, Images!Answers(c)
    PROVE  ImagesInv'
  <1>1. PICK body \in Bodies :
          /\ body.pictures # <<>> => charged[c] = job[c].sent
          /\ Images!Become(c, [job[c] EXCEPT !.pc = "reading", !.answer = body])
    BY DEF Images!Answers
  <1> DEFINE r == [job[c] EXCEPT !.pc = "reading", !.answer = body]
  <1>2. /\ job[c] \in ImageJob /\ ImageIsSound(job[c], charged[c]) /\ job[c].pc = "sent"
        /\ UNCHANGED charged
    BY DEF ImagesInv, ImageTypes, Images!Answers
  <1>3. /\ r \in ImageJob /\ r.pc = "reading" /\ r.answer = body /\ r.reply = job[c].reply
        /\ r.sent = job[c].sent /\ r.read = job[c].read
    BY <1>2 DEF ImageJob
  <1>4. ImageIsSound(r, charged[c])
    BY <1>1, <1>2, <1>3, ImagesAssumption DEF ImageIsSound, EarlyReplies
  <1> QED
    BY <1>1, <1>2, <1>3, <1>4, ImageAlone

LEMMA ImageChunkKeeps ==
    ASSUME ImagesInv, NEW c \in Clients, Images!Chunk(c)
    PROVE  ImagesInv'
  <1>1. /\ job[c] \in ImageJob /\ ImageIsSound(job[c], charged[c]) /\ job[c].pc = "reading"
        /\ UNCHANGED charged
    BY DEF ImagesInv, ImageTypes, Images!Chunk
  <1>2. CASE job[c].read + 1 > MaxAnswer
    BY <1>1, <1>2, ImageReplyKeeps DEF Images!Chunk, EarlyReplies, LateReplies
  <1>3. CASE ~(job[c].read + 1 > MaxAnswer)
    <2> DEFINE r == [job[c] EXCEPT !.read = @ + 1]
    <2>1. Images!Become(c, r)
      BY <1>3 DEF Images!Chunk
    <2>2. r \in ImageJob /\ ImageIsSound(r, charged[c])
      BY <1>1, <1>3, ImagesAssumption DEF ImageJob, ImageIsSound, EarlyReplies
    <2> QED
      BY <1>1, <2>1, <2>2, ImageAlone
  <1> QED
    BY <1>2, <1>3

LEMMA ImageJudgeKeeps ==
    ASSUME ImagesInv, NEW c \in Clients, Images!Judge(c)
    PROVE  ImagesInv'
  <1>1. /\ job[c] \in ImageJob /\ ImageIsSound(job[c], charged[c]) /\ job[c].pc = "reading"
        /\ job[c].read = job[c].answer.length /\ UNCHANGED charged
    BY DEF ImagesInv, ImageTypes, Images!Judge
  <1>2. ASSUME NEW say \in LateReplies \ {"pictures"}, Images!Reply(c, say)
        PROVE  ImagesInv'
    BY <1>1, <1>2, ImageReplyKeeps DEF EarlyReplies, LateReplies
  <1>3. CASE Images!Reply(c, "pictures") /\ Images!ValidAnswer(job[c].answer)
    <2> DEFINE r == [job[c] EXCEPT !.pc = "answered", !.reply = "pictures"]
    <2>1. r \in ImageJob /\ r.pc = "answered" /\ r.reply = "pictures"
          /\ r.sent = job[c].sent /\ r.read = job[c].read /\ r.answer = job[c].answer
      BY <1>1 DEF ImageJob, LateReplies
    <2>2. ImageIsSound(r, charged[c])
      BY <1>1, <1>3, <2>1 DEF ImageIsSound, EarlyReplies
    <2> QED
      BY <1>1, <1>3, <2>1, <2>2, ImageAlone DEF Images!Reply
  <1> QED
    BY <1>2, <1>3 DEF Images!Judge, LateReplies

LEMMA ImageLeaveKeeps ==
    ASSUME ImagesInv, NEW c \in Clients, Images!Leave(c)
    PROVE  ImagesInv'
  <1> DEFINE r == [job[c] EXCEPT !.pc = "gone"]
  <1>1. /\ job[c] \in ImageJob /\ ImageIsSound(job[c], charged[c]) /\ job[c].pc # "answered"
        /\ UNCHANGED charged /\ Images!Become(c, r)
    BY DEF ImagesInv, ImageTypes, Images!Leave
  <1>2. r \in ImageJob /\ ImageIsSound(r, charged[c])
    BY <1>1 DEF ImageJob, ImageIsSound, EarlyReplies
  <1> QED
    BY <1>1, <1>2, ImageAlone

LEMMA ImagesBegin == Images!Init => ImagesInv
  <1>1. Images!Nothing \in ImageJob /\ ImageIsSound(Images!Nothing, 0)
    BY NothingIsSound
  <1> QED
    BY <1>1 DEF Images!Init, ImagesInv, ImageTypes

LEMMA ImagesStep ==
    ASSUME ImagesInv, [Images!Next]_imagesVars
    PROVE  ImagesInv'
  <1>1. CASE Images!Move
    BY <1>1 DEF Images!Move, ImagesInv, ImageTypes
  <1>2. ASSUME NEW c \in Clients, Images!BreaksOff(c)
        PROVE  ImagesInv'
    BY <1>2, ImageReplyKeeps DEF Images!BreaksOff, EarlyReplies, LateReplies
  <1>3. CASE UNCHANGED imagesVars
    BY <1>3 DEF imagesVars, ImagesInv, ImageTypes
  <1>4. ASSUME NEW c \in Clients,
               \/ Images!Ask(c) \/ Images!Leave(c) \/ Images!Lease(c) \/ Images!Send(c)
               \/ Images!Draw(c) \/ Images!Answers(c) \/ Images!Chunk(c) \/ Images!Judge(c)
        PROVE  ImagesInv'
    BY <1>4, ImageAskKeeps, ImageLeaseKeeps, ImageSendKeeps, ImageDrawKeeps,
       ImageAnswersKeeps, ImageChunkKeeps, ImageJudgeKeeps, ImageLeaveKeeps
  <1> QED
    BY <1>1, <1>2, <1>3, <1>4 DEF Images!Next

LEMMA ImagesAreHonest == ImagesInv => Images!HonestReplies
  <1> SUFFICES ASSUME ImagesInv, NEW c \in Clients
               PROVE  /\ charged[c] <= job[c].sent /\ job[c].sent <= 1
                      /\ job[c].reply \in EarlyReplies => charged[c] = 0
                      /\ job[c].reply = "pictures" =>
                           /\ charged[c] = 1
                           /\ job[c].read = job[c].answer.length
                           /\ job[c].read <= MaxAnswer
                           /\ \A i \in 1..Len(job[c].answer.pictures) :
                                  Images!Usable(job[c].answer.pictures[i])
    BY DEF Images!HonestReplies, EarlyReplies
  <1>1. job[c] \in ImageJob /\ charged[c] \in Nat /\ ImageIsSound(job[c], charged[c])
    BY DEF ImagesInv, ImageTypes
  <1> QED
    BY <1>1 DEF ImageIsSound, ImageJob, Images!ValidAnswer

-----------------------------------------------------------------------------
ImagesKeep == part = "images" => ImagesInv

\* Whatever the vendor answers, and wherever clients and connections break off,
\* each request keeps to its place (core/images.rs, forward).
THEOREM ImagesInvariant == HandlersSpec => []ImagesKeep
  <1>1. HandlersInit => ImagesKeep
    BY ImagesBegin DEF HandlersInit, ImagesKeep
  <1>2. ImagesKeep /\ [HandlersNext]_allVars => ImagesKeep'
    <2> SUFFICES ASSUME ImagesKeep, [HandlersNext]_allVars, part = "images"
                 PROVE  ImagesInv'
      BY OnePartRuns DEF ImagesKeep
    <2>1. [Images!Next]_imagesVars
      BY OnePartRuns
    <2> QED
      BY <2>1, ImagesStep DEF ImagesKeep
  <1> QED
    BY <1>1, <1>2, PTL DEF HandlersSpec

\* What a client may be charged for agrees with what it is told, for any number of
\* clients and whatever they ask: an image is drawn at most once for a request, none
\* is drawn for one the relay refused by itself, and only whole answers of usable
\* pictures are passed on (core/images.rs, forward).
THEOREM RepliesAreHonest == HandlersSpec => []HonestReplies
  <1>1. ImagesKeep => HonestReplies
    BY ImagesAreHonest DEF ImagesKeep, HonestReplies
  <1> QED
    BY <1>1, ImagesInvariant, PTL

-----------------------------------------------------------------------------
(* Chat requests.                                                            *)

LEMMA SameRequests ==
    /\ Request!Init => RequestP!Init
    /\ [Request!Next]_requestVars => [RequestP!Next]_(RequestP!vars)
    /\ \A r : Request!IsRequest(r) => RequestP!IsRequest(r)
    /\ Request!NoEffortIsNone => RequestP!NoEffortIsNone
    /\ RequestP!KnownModelsAreServed => Request!KnownModelsAreServed
    /\ RequestP!EffortIsSupported => Request!EffortIsSupported
    /\ RequestP!ForwardedIsWithinBounds => Request!ForwardedIsWithinBounds
  BY DEF requestVars, RequestP!vars, Request!Init, RequestP!Init, Request!Next,
     RequestP!Next, Request!Slugs, RequestP!Slugs, Request!Known, RequestP!Known,
     Request!Entry, RequestP!Entry, Request!FirstListed, RequestP!FirstListed,
     Request!Ladder, RequestP!Ladder, Request!Rung, RequestP!Rung,
     Request!OnLadder, RequestP!OnLadder, Request!Lowest, RequestP!Lowest,
     Request!Highest, RequestP!Highest, Request!Nearest, RequestP!Nearest,
     Request!ClampEffort, RequestP!ClampEffort, Request!NoEffortIsNone,
     RequestP!NoEffortIsNone, Request!IsRequest, RequestP!IsRequest,
     Request!ToSet, RequestP!ToSet, Request!Refuse, RequestP!Refuse, Request!Goes,
     RequestP!Goes, Request!World, RequestP!World, Request!TierIsKnown,
     RequestP!TierIsKnown, Request!Arrive, RequestP!Arrive, Request!Name,
     RequestP!Name, Request!Look, RequestP!Look, Request!Refresh,
     RequestP!Refresh, Request!NotFound, RequestP!NotFound, Request!Wanted,
     RequestP!Wanted, Request!Fitted, RequestP!Fitted, Request!Check,
     RequestP!Check, Request!Change, RequestP!Change, Request!Effort,
     RequestP!Effort, Request!EffortIsSupported, RequestP!EffortIsSupported,
     Request!ForwardedIsWithinBounds, RequestP!ForwardedIsWithinBounds,
     Request!KnownModelsAreServed, RequestP!KnownModelsAreServed, Request!PartsOf,
     RequestP!PartsOf, Request!IsImage, RequestP!IsImage, Request!Places,
     RequestP!Places, Request!At, RequestP!At, Request!Before, RequestP!Before,
     Request!ImageParts, RequestP!ImageParts, Request!Rank, RequestP!Rank,
     Request!FaultyImage, RequestP!FaultyImage, Request!Searches,
     RequestP!Searches, Request!FaultyTool, RequestP!FaultyTool,
     Request!Cardinality, RequestP!Cardinality, Request!ContentIsValid,
     RequestP!ContentIsValid, Request!ValidUrl, RequestP!ValidUrl,
     Request!ValidDataUrl, RequestP!ValidDataUrl, Request!ValidRemoteUrl,
     RequestP!ValidRemoteUrl, Request!ImageTypes, RequestP!ImageTypes,
     Request!Decoded, RequestP!Decoded

RequestKeeps ==
    part = "request" =>
        RequestP!SearchInv /\ RequestP!EffortInv /\ RequestP!BoundsInv

LEMMA RequestBegins == HandlersInit => RequestKeeps
  BY SameRequests, RequestsAssumption, RequestP!SearchBegins, RequestP!EffortBegins,
     RequestP!BoundsBegin
  DEF HandlersInit, RequestKeeps

LEMMA RequestStep ==
    ASSUME RequestKeeps, [HandlersNext]_allVars
    PROVE  RequestKeeps'
  <1> SUFFICES ASSUME part = "request"
               PROVE  (RequestP!SearchInv /\ RequestP!EffortInv /\ RequestP!BoundsInv)'
    BY OnePartRuns DEF RequestKeeps
  <1>1. [RequestP!Next]_(RequestP!vars) /\ RequestP!NoEffortIsNone
    BY OnePartRuns, SameRequests, RequestsAssumption
  <1>2. RequestP!SearchInv'
    BY <1>1, RequestP!SearchStep DEF RequestKeeps
  <1>3. RequestP!EffortInv'
    BY <1>1, RequestP!EffortStep DEF RequestKeeps
  <1>4. RequestP!BoundsInv'
    BY <1>1, RequestP!BoundsStep DEF RequestKeeps
  <1> QED
    BY <1>2, <1>3, <1>4

\* A model that was on offer all the time is not refused as unknown, however long
\* the catalog and however often it changes (lib.rs, chat_completions_handler).
THEOREM KnownModelsAreAlwaysServed == HandlersSpec => []KnownModelsAreServed
  <1>1. RequestKeeps => KnownModelsAreServed
    BY SameRequests, RequestP!SearchFinds DEF RequestKeeps, KnownModelsAreServed
  <1> QED
    BY <1>1, RequestBegins, RequestStep, PTL DEF HandlersSpec

\* A model that says which efforts it takes is sent one of these, whatever was
\* asked for and whatever the catalog lists (catalog.rs, clamp_effort).
THEOREM EffortsAreSupported == HandlersSpec => []EffortIsSupported
  <1>1. RequestKeeps => EffortIsSupported
    BY SameRequests DEF RequestKeeps, EffortIsSupported, RequestP!EffortInv
  <1> QED
    BY <1>1, RequestBegins, RequestStep, PTL DEF HandlersSpec

\* What is forwarded keeps to the bounds that are counted over all of a request,
\* however many messages, images and tools it has (models.rs, validate_content).
THEOREM BoundsAreKept == HandlersSpec => []ForwardedIsWithinBounds
  <1>1. RequestKeeps => ForwardedIsWithinBounds
    BY SameRequests, RequestsAssumption, RequestP!BoundsHold
    DEF RequestKeeps, ForwardedIsWithinBounds
  <1> QED
    BY <1>1, RequestBegins, RequestStep, PTL DEF HandlersSpec

-----------------------------------------------------------------------------
(* The usage document.                                                       *)

\* What was fetched is normalized; what was read parks for the reset that the
\* document names, at its age; what was refused parks for the one of its body.
UsageInv ==
    /\ usageStage \in {"fetched", "read"} =>
         /\ raw.windows[1] \in Windows /\ raw.windows[2] \in Windows
         /\ doc = Usage!Normalized(raw)
    /\ usageStage = "read" =>
         /\ age \in Ages
         /\ parked = IF Usage!Exhausted(doc)
                     THEN Usage!ExhaustedWindowReset(doc, age) ELSE Unknown
    /\ usageStage = "refused" =>
         /\ raw \in Refusals
         /\ parked = Usage!SecondsAfter(Usage!ResetOfBody(raw), 0)

UsageKeeps == part = "usage" => UsageInv

LEMMA UsageBegins == HandlersInit => UsageKeeps
  BY DEF HandlersInit, UsageKeeps, UsageInv, Usage!Init

LEMMA UsageStep ==
    ASSUME UsageKeeps, [HandlersNext]_allVars
    PROVE  UsageKeeps'
  <1> SUFFICES ASSUME UsageInv, [Usage!Next]_usageVars
               PROVE  UsageInv'
    BY OnePartRuns DEF UsageKeeps
  <1>1. CASE Usage!Fetch
    BY <1>1 DEF Usage!Fetch, UsageInv
  <1>2. CASE Usage!Read
    BY <1>2 DEF Usage!Read, UsageInv
  <1>3. CASE Usage!Refused
    BY <1>3 DEF Usage!Refused, UsageInv
  <1>4. CASE UNCHANGED usageVars
    BY <1>4 DEF usageVars, UsageInv
  <1> QED
    BY <1>1, <1>2, <1>3, <1>4 DEF Usage!Next

\* The relay sees a window as full exactly if the vendor shows one and it is full.
LEMMA WindowIsNormalized ==
    ASSUME NEW window \in Windows
    PROVE  LET known == Usage!NormalizedWindow(window) IN
           /\ Usage!Full(known) <=> window # Absent /\ Usage!Full(window)
           /\ window # Absent =>
                known.at = window.at /\ known.within = window.within
  BY UsageAssumption
  DEF Usage!NormalizedWindow, Usage!NoWindow, Usage!Full, Usage!Known

\* The seconds to a reset, from the age of the document, against the time of the
\* vendor's answer.
LEMMA SecondsToReset ==
    ASSUME NEW window \in Usage!Window, age \in Ages,
           Usage!Known(Usage!SecondsAfter(window, age))
    PROVE  /\ Usage!SecondsAfter(window, age) \in Int
           /\ Usage!Known(Usage!Opens(window)) /\ Usage!Opens(window) \in Int
           /\ Usage!SecondsAfter(window, age) <= Usage!Opens(window)
           /\ Usage!Opens(window) <= age + Usage!SecondsAfter(window, age)
  BY UsageAssumption
  DEF Usage!SecondsAfter, Usage!Opens, Usage!Known, Usage!Window, Usage!Values

LEMMA ReadParks ==
    ASSUME UsageInv, usageStage = "read", Usage!Known(parked)
    PROVE  LET full == {w \in {raw.windows[1], raw.windows[2]} \ {Absent} :
                            Usage!Full(w)} IN
           /\ Usage!Exhausted(raw) /\ full # {}
           /\ \A w \in full : Usage!Known(Usage!Opens(w))
                              /\ Usage!Opens(w) <= age + parked
           /\ \E w \in full : parked <= Usage!Opens(w)
  <1> DEFINE shut == {i \in 1..2 : Usage!Full(doc.windows[i])}
             Seconds(i) == Usage!SecondsAfter(doc.windows[i], age)
             full == {w \in {raw.windows[1], raw.windows[2]} \ {Absent} :
                          Usage!Full(w)}
  <1>1. /\ \A i \in 1..2 : raw.windows[i] \in Windows
        /\ \A i \in 1..2 : doc.windows[i] = Usage!NormalizedWindow(raw.windows[i])
        /\ doc.allowed = raw.allowed /\ doc.reached = raw.reached
        /\ age \in Ages
    BY DEF UsageInv, Usage!Normalized
  <1>2. /\ Usage!Exhausted(raw)
        /\ parked = Usage!ExhaustedWindowReset(doc, age)
    BY <1>1 DEF UsageInv, Usage!Known, Usage!Exhausted
  <1>3. /\ shut # {} /\ \A i \in shut : Usage!Known(Seconds(i))
        /\ parked = Seconds(CHOOSE i \in shut : \A j \in shut : Seconds(i) >= Seconds(j))
    BY <1>2 DEF Usage!ExhaustedWindowReset, Usage!Known
  <1>4. \A i \in shut : /\ raw.windows[i] \in full /\ raw.windows[i] \in Usage!Window
                        /\ Seconds(i) = Usage!SecondsAfter(raw.windows[i], age)
    <2> TAKE i \in shut
    <2>1. raw.windows[i] # Absent /\ Usage!Full(raw.windows[i])
      BY <1>1, WindowIsNormalized
    <2>2. raw.windows[i] \in Usage!Window
      BY <1>1, <2>1, UsageAssumption
    <2>3. /\ doc.windows[i].at = raw.windows[i].at
          /\ doc.windows[i].within = raw.windows[i].within
      BY <1>1, <2>1, WindowIsNormalized
    <2> QED
      BY <2>1, <2>2, <2>3 DEF Usage!SecondsAfter
  <1>5. \A w \in full : \E i \in shut : w = raw.windows[i]
    <2> TAKE w \in full
    <2>1. PICK i \in 1..2 : w = raw.windows[i]
      OBVIOUS
    <2> QED
      BY <1>1, <2>1, WindowIsNormalized
  <1> HIDE DEF shut, full
  <1>6. \A i \in shut :
          LET w == raw.windows[i] IN
          /\ Seconds(i) \in Int /\ Usage!Known(Usage!Opens(w)) /\ Usage!Opens(w) \in Int
          /\ Seconds(i) <= Usage!Opens(w) /\ Usage!Opens(w) <= age + Seconds(i)
    <2> TAKE i \in shut
    <2>1. Usage!Known(Usage!SecondsAfter(raw.windows[i], age))
      BY <1>3, <1>4
    <2> QED
      BY <1>1, <1>4, <2>1, SecondsToReset
  <1> HIDE DEF Seconds
  <1>7. \E i \in shut : \A j \in shut : Seconds(i) >= Seconds(j)
    BY <1>3, <1>6 DEF shut
  <1>8. PICK k \in shut : parked = Seconds(k) /\ \A j \in shut : Seconds(k) >= Seconds(j)
    BY <1>3, <1>7
  <1>9. age \in Int
    BY <1>1, UsageAssumption
  <1>10. \A w \in full : Usage!Known(Usage!Opens(w)) /\ Usage!Opens(w) <= age + parked
    BY <1>5, <1>6, <1>8, <1>9
  <1>11. \E w \in full : parked <= Usage!Opens(w)
    BY <1>4, <1>6, <1>8
  <1> QED
    BY <1>2, <1>10, <1>11 DEF full

\* What is taken from a body is one of the values that it names.
LEMMA FirstIsNamed ==
    ASSUME NEW body \in Refusals, NEW f \in {"at", "within"}, NEW least \in Nat,
           Usage!Known(Usage!First(body, f, least))
    PROVE  /\ Usage!First(body, f, least) \in Int
           /\ \E i \in DOMAIN body : /\ body[i] # Absent
                                     /\ Usage!First(body, f, least) = body[i][f]
  <1> DEFINE named == {i \in 1..Len(body) : /\ body[i] # Absent
                                            /\ Usage!Known(body[i][f])
                                            /\ body[i][f] >= least}
  <1>1. body \in Seq(Usage!Scope \cup {Absent})
    BY UsageAssumption
  <1>2. named # {}
    BY DEF Usage!First, Usage!Known
  <1>3. named \in SUBSET Nat
    BY <1>1
  <1>4. \E i \in named : \A j \in named : i <= j
    BY <1>2, <1>3, LeastNat
  <1>5. PICK i \in named : Usage!First(body, f, least) = body[i][f]
    BY <1>2, <1>4 DEF Usage!First
  <1>6. i \in DOMAIN body /\ body[i] # Absent /\ Usage!Known(body[i][f])
    BY <1>1
  <1>7. body[i] \in Usage!Scope
    BY <1>1, <1>6
  <1>8. body[i][f] \in Int
    BY <1>6, <1>7 DEF Usage!Scope, Usage!Values, Usage!Known
  <1> QED
    BY <1>5, <1>6, <1>8

LEMMA RefusalParks ==
    ASSUME NEW body \in Refusals,
           Usage!Known(Usage!SecondsAfter(Usage!ResetOfBody(body), 0))
    PROVE  LET seconds == Usage!SecondsAfter(Usage!ResetOfBody(body), 0) IN
           /\ seconds \in Int /\ seconds > 0
           /\ \E i \in DOMAIN body : /\ body[i] # Absent
                                     /\ seconds \in {body[i].at, body[i].within}
  <1> DEFINE at == Usage!First(body, "at", 1)
             within == Usage!First(body, "within", 0)
  <1>1. Usage!SecondsAfter(Usage!ResetOfBody(body), 0) =
          IF Usage!Known(within) /\ within > 0 THEN within
          ELSE IF Usage!Known(at) /\ at > 0 THEN at - 0 ELSE Unknown
    BY DEF Usage!SecondsAfter, Usage!ResetOfBody
  <1>2. CASE Usage!Known(within) /\ within > 0
    BY <1>1, <1>2, FirstIsNamed
  <1>3. CASE ~(Usage!Known(within) /\ within > 0)
    <2>1. Usage!Known(at) /\ at > 0
      BY <1>1, <1>3 DEF Usage!Known
    <2>2. at \in Int
      BY <2>1, FirstIsNamed
    <2>3. Usage!SecondsAfter(Usage!ResetOfBody(body), 0) = at
      BY <1>1, <1>3, <2>1, <2>2
    <2> QED
      BY <2>1, <2>2, <2>3, FirstIsNamed
  <1> QED
    BY <1>2, <1>3

\* A slot is parked until the last of its full windows opens, however old the
\* document is, and a refusal of any depth parks for a time that it names (limits.rs,
\* exhausted_window_reset; chat_completions.rs, quota_reset_from_body).
THEOREM ParksAreJust == HandlersSpec => []ParkedUntilItOpens
  <1>1. ASSUME UsageInv, usageStage = "refused"
        PROVE  LET Named(f) == {raw[i][f] : i \in {j \in DOMAIN raw :
                                                             raw[j] # Absent}}
                                   \ {Unknown}
                   positive == {n \in Named("within") \cup Named("at") : n > 0}
               IN  /\ Usage!Known(parked) => parked \in positive
                   /\ positive = {} => ~Usage!Known(parked)
    <2> DEFINE Named(f) == {raw[i][f] : i \in {j \in DOMAIN raw :
                                                         raw[j] # Absent}}
                               \ {Unknown}
               positive == {n \in Named("within") \cup Named("at") : n > 0}
    <2>1. raw \in Refusals /\ parked = Usage!SecondsAfter(Usage!ResetOfBody(raw), 0)
      BY <1>1 DEF UsageInv
    <2>2. ASSUME Usage!Known(parked)
          PROVE  parked \in positive
      <3>1. PICK i \in DOMAIN raw :
              raw[i] # Absent /\ parked \in {raw[i].at, raw[i].within}
        BY <2>1, <2>2, RefusalParks
      <3>2. parked \in Int /\ parked > 0
        BY <2>1, <2>2, RefusalParks
      <3>3. parked \in Named("within") \cup Named("at")
        BY <2>2, <3>1 DEF Usage!Known
      <3> QED
        BY <3>2, <3>3
    <2> QED
      BY <2>2
  <1>2. UsageKeeps => ParkedUntilItOpens
    BY <1>1, ReadParks DEF UsageKeeps, ParkedUntilItOpens, Usage!ParkedUntilItOpens
  <1> QED
    BY <1>2, UsageBegins, UsageStep, PTL DEF HandlersSpec

-----------------------------------------------------------------------------
(* The sign-in in the browser.                                               *)

\* What is staged is to be installed only if it has tokens; the file of a sign-in
\* has all that a lease needs, and nothing takes it away under a refresh.
SignInInv ==
    /\ signInClock \in Nat
    /\ staged \in Browser!File \cup {Absent}
    /\ authFile \in Browser!File \cup {Absent}
    /\ staged # Absent => ~staged.key /\ staged.since \in Nat
    /\ login = "staged" => staged # Absent /\ staged.tokens
    /\ refreshing # Absent => authFile # Absent
    /\ author # "old" => authFile # Absent /\ authFile.id = "raw"
    /\ author = "signIn" =>
         /\ ~authFile.key /\ authFile.tokens /\ authFile.since \in Nat
         /\ Browser!Complete(authFile) /\ Browser!HasText(authFile.refresh)

SignInKeeps == part = "signin" => SignInInv

LEMMA SignInBegins == HandlersInit => SignInKeeps
  BY SignInAssumption
  DEF HandlersInit, SignInKeeps, SignInInv, Browser!Init

\* The fields of a file.
LEMMA FileHas ==
    ASSUME NEW kept \in Browser!File
    PROVE  /\ kept = [key |-> kept.key, tokens |-> kept.tokens, id |-> kept.id,
                      plan |-> kept.plan, access |-> kept.access,
                      refresh |-> kept.refresh, account |-> kept.account,
                      since |-> kept.since]
           /\ kept.key \in BOOLEAN /\ kept.tokens \in BOOLEAN /\ kept.id \in {"raw", "fields", "opaque"}
           /\ kept.plan \in STRING \cup {Absent}
           /\ kept.access \in [text : STRING, exp : Int] /\ kept.refresh \in STRING
           /\ kept.account \in STRING \cup {Absent}
           /\ kept.since \in Int \cup {Absent}
  BY DEF Browser!File

\* A grant that is accepted is staged with its tokens, beside no API key.
LEMMA BundleIsFile ==
    ASSUME NEW grant \in Grants, Browser!Accepted(grant), signInClock \in Nat
    PROVE  /\ Browser!Bundle(grant) \in Browser!File /\ Browser!Bundle(grant) # Absent
           /\ ~Browser!Bundle(grant).key /\ Browser!Bundle(grant).tokens
           /\ Browser!Bundle(grant).since \in Nat
  <1>1. grant \in Browser!Grant
    BY SignInAssumption
  <1>2. Browser!AccountOf(grant) \in STRING
    BY <1>1 DEF Browser!AccountOf, Browser!Grant
  <1> DEFINE plan == IF grant.id = "raw" THEN grant.plan ELSE Absent
             exp == Browser!EndOf(grant.life)
  <1>3. plan \in STRING \cup {Absent}
    BY <1>1 DEF Browser!Grant
  <1>4. exp \in Int
    BY <1>1 DEF Browser!Grant, Browser!EndOf, Browser!Opaque
  <1>5. /\ grant.id \in {"raw", "opaque"} /\ grant.access \in STRING
        /\ grant.refresh \in STRING /\ signInClock \in Int
    <2>1. grant.id # "short"
      BY DEF Browser!Accepted
    <2> QED
      BY <1>1, <2>1 DEF Browser!Grant
  <1>6. Browser!Bundle(grant) =
          [key |-> FALSE, tokens |-> TRUE, id |-> grant.id, plan |-> plan,
           access |-> [text |-> grant.access, exp |-> exp],
           refresh |-> grant.refresh, account |-> Browser!AccountOf(grant),
           since |-> signInClock]
    BY DEF Browser!Bundle
  <1> HIDE DEF plan, exp
  <1>7. Browser!Bundle(grant) \in Browser!File
    BY ONLY <1>2, <1>3, <1>4, <1>5, <1>6 DEF Browser!File
  <1>9. ~Browser!Bundle(grant).key /\ Browser!Bundle(grant).tokens
        /\ Browser!Bundle(grant).since \in Nat
    BY DEF Browser!Bundle
  <1>8. Absent \notin Browser!File
    BY SignInAssumption
  <1> QED
    BY <1>7, <1>8, <1>9

\* What is written keeps all but the form of the id token.
LEMMA WrittenIsFile ==
    ASSUME NEW kept \in Browser!File
    PROVE  LET written == Browser!Written(kept) IN
           /\ written \in Browser!File /\ written # Absent /\ written.id = "raw"
           /\ \A f \in {"key", "tokens", "since", "access", "account", "refresh"} :
                  written[f] = kept[f]
  <1>1. Browser!Written(kept) =
          [key |-> kept.key, tokens |-> kept.tokens, id |-> "raw", plan |-> kept.plan,
           access |-> kept.access, refresh |-> kept.refresh, account |-> kept.account,
           since |-> kept.since]
    BY FileHas DEF Browser!Written
  <1>2. Browser!Written(kept) \in Browser!File
    <2>1. /\ kept.key \in BOOLEAN /\ kept.tokens \in BOOLEAN
          /\ kept.plan \in STRING \cup {Absent}
          /\ kept.access \in [text : STRING, exp : Int] /\ kept.refresh \in STRING
          /\ kept.account \in STRING \cup {Absent}
          /\ kept.since \in Int \cup {Absent}
      BY FileHas
    <2> QED
      BY ONLY <1>1, <2>1 DEF Browser!File
  <1>3. Absent \notin Browser!File
    BY SignInAssumption
  <1> QED
    BY <1>1, <1>2, <1>3

\* A refresh keeps what is not a token, and no token becomes empty.
LEMMA UpdatedIsFile ==
    ASSUME NEW kept \in Browser!File, NEW answer \in TokenAnswers,
           answer.id = "raw", signInClock \in Nat
    PROVE  LET updated == Browser!Updated(kept, answer) IN
           /\ updated \in Browser!File /\ updated # Absent /\ updated.id = "raw"
           /\ updated.key = kept.key /\ updated.tokens = kept.tokens
           /\ updated.since = signInClock
           /\ Browser!Complete(kept) => Browser!Complete(updated)
           /\ Browser!HasText(kept.refresh) => Browser!HasText(updated.refresh)
  <1> DEFINE access == IF answer.access = Absent THEN kept.access
                       ELSE [text |-> answer.access, exp |-> Browser!EndOf(answer.life)]
             refresh == IF answer.refresh = Absent THEN kept.refresh
                        ELSE answer.refresh
             next == [kept EXCEPT !.plan = answer.plan, !.since = signInClock,
                                      !.access = access, !.refresh = refresh]
  <1>1. answer \in Browser!Answer /\ answer.access \notin {"", "blank"}
        /\ answer.refresh \notin {"", "blank"}
    BY SignInAssumption
  <1>2. /\ access \in [text : STRING, exp : Int]
        /\ Browser!HasText(kept.access.text) => Browser!HasText(access.text)
    <2>1. CASE answer.access = Absent
      BY <2>1 DEF Browser!File
    <2>2. CASE answer.access # Absent
      <3>1. answer.access \in STRING
        BY <1>1, <2>2 DEF Browser!Answer
      <3> DEFINE exp == Browser!EndOf(answer.life)
      <3>5. exp \in Int
        <4>1. answer.life \in Int
          BY <1>1 DEF Browser!Answer
        <4> QED
          BY <4>1 DEF Browser!EndOf, Browser!Opaque
      <3>2. access = [text |-> answer.access, exp |-> exp]
        BY <2>2
      <3> HIDE DEF exp, access
      <3>3. access \in [text : STRING, exp : Int]
        BY <3>1, <3>2, <3>5
      <3>4. access.text = answer.access
        BY <3>2
      <3> QED
        BY <1>1, <2>2, <3>3, <3>4 DEF Browser!HasText
    <2> QED
      BY <2>1, <2>2
  <1>3. refresh \in STRING /\ (Browser!HasText(kept.refresh) => Browser!HasText(refresh))
    <2>1. CASE answer.refresh = Absent
      BY <2>1 DEF Browser!File
    <2>2. CASE answer.refresh # Absent
      <3>1. answer.refresh \in STRING
        BY <1>1, <2>2 DEF Browser!Answer
      <3> QED
        BY <1>1, <2>2, <3>1 DEF Browser!HasText
    <2> QED
      BY <2>1, <2>2
  <1>4. Browser!Updated(kept, answer) = Browser!Written(next)
    BY DEF Browser!Updated
  <1>5. answer.plan \in STRING \cup {Absent}
    BY <1>1 DEF Browser!Answer
  <1> HIDE DEF access, refresh
  <1>6. next = [key |-> kept.key, tokens |-> kept.tokens, id |-> kept.id,
                plan |-> answer.plan, access |-> access, refresh |-> refresh,
                account |-> kept.account, since |-> signInClock]
    <2>1. kept = [key |-> kept.key, tokens |-> kept.tokens, id |-> kept.id,
                  plan |-> kept.plan, access |-> kept.access,
                  refresh |-> kept.refresh, account |-> kept.account,
                  since |-> kept.since]
      BY FileHas
    <2>2. next = [kept EXCEPT !.plan = answer.plan, !.since = signInClock,
                              !.access = access, !.refresh = refresh]
      OBVIOUS
    <2> HIDE DEF next
    <2> QED
      BY ONLY <2>1, <2>2
  <1> HIDE DEF next
  <1>7. next \in Browser!File
    <2>1. /\ kept.key \in BOOLEAN /\ kept.tokens \in BOOLEAN
          /\ kept.id \in {"raw", "fields", "opaque"}
          /\ kept.account \in STRING \cup {Absent} /\ signInClock \in Int
      BY FileHas
    <2> QED
      BY ONLY <1>2, <1>3, <1>5, <1>6, <2>1 DEF Browser!File
  <1>8. /\ next.key = kept.key /\ next.tokens = kept.tokens
        /\ next.since = signInClock /\ next.access = access /\ next.refresh = refresh
        /\ next.account = kept.account
    BY <1>6
  <1> QED
    BY <1>2, <1>3, <1>4, <1>7, <1>8, WrittenIsFile DEF Browser!Complete

LEMMA SignInStep ==
    ASSUME SignInKeeps, [HandlersNext]_allVars
    PROVE  SignInKeeps'
  <1> SUFFICES ASSUME SignInInv, [Browser!Next]_signInVars
               PROVE  SignInInv'
    BY OnePartRuns DEF SignInKeeps
  <1>1. CASE Browser!Begin \/ Browser!Success \/ Browser!Exit \/ Browser!Tick
    BY <1>1 DEF Browser!Begin, Browser!Success, Browser!Exit, Browser!Tick,
                Browser!signIn, Browser!store, SignInInv
  <1>2. CASE Browser!Callback
    BY <1>2, BundleIsFile
    DEF Browser!Callback, Browser!store, SignInInv
  <1>3. CASE Browser!Collect \/ Browser!GiveUp
    BY <1>3 DEF Browser!Collect, Browser!GiveUp, Browser!Over, Browser!Readable,
                Browser!store, SignInInv
  <1>4. CASE Browser!Install
    <2>1. CASE UNCHANGED <<authFile, author>>
      BY <1>4, <2>1
      DEF Browser!Install, Browser!Over, SignInInv
    <2>2. CASE /\ Browser!Complete(staged) /\ Browser!HasText(staged.refresh)
               /\ authFile' = Browser!Written(staged) /\ author' = "signIn"
      <3>1. staged \in Browser!File /\ ~staged.key /\ staged.tokens
            /\ staged.since \in Nat
        BY <1>4 DEF Browser!Install, SignInInv
      <3>2. /\ authFile' \in Browser!File /\ authFile' # Absent /\ authFile'.id = "raw"
            /\ ~authFile'.key /\ authFile'.tokens /\ authFile'.since \in Nat
            /\ Browser!Complete(authFile') /\ Browser!HasText(authFile'.refresh)
        BY <2>2, <3>1, WrittenIsFile DEF Browser!Complete
      <3> QED
        BY <1>4, <2>2, <3>2
        DEF Browser!Install, Browser!Over, SignInInv,
            Browser!Complete
    <2> QED
      BY <1>4, <2>1, <2>2 DEF Browser!Install
  <1>5. CASE Browser!Remove
    BY <1>5 DEF Browser!Remove, Browser!signIn, SignInInv
  <1>6. CASE Browser!Lease
    BY <1>6
    DEF Browser!Lease, Browser!Loads, Browser!Readable, Browser!signIn, SignInInv,
        Browser!Complete
  <1>7. CASE Browser!Refreshed
    <2>1. PICK answer \in TokenAnswers :
            IF answer.id = "raw"
            THEN /\ authFile' = Browser!Updated(authFile, answer)
                 /\ author' = IF author = "signIn" THEN author ELSE "refresh"
            ELSE UNCHANGED <<authFile, author>>
      BY <1>7 DEF Browser!Refreshed
    <2>2. CASE answer.id # "raw"
      BY <1>7, <2>1, <2>2
      DEF Browser!Refreshed, Browser!signIn, SignInInv
    <2>3. CASE answer.id = "raw"
      <3>1. authFile \in Browser!File /\ signInClock \in Nat
        BY <1>7 DEF Browser!Refreshed, SignInInv
      <3>2. /\ authFile' \in Browser!File /\ authFile' # Absent /\ authFile'.id = "raw"
            /\ authFile'.key = authFile.key /\ authFile'.tokens = authFile.tokens
            /\ authFile'.since = signInClock
            /\ Browser!Complete(authFile) => Browser!Complete(authFile')
            /\ Browser!HasText(authFile.refresh) => Browser!HasText(authFile'.refresh)
        BY <2>1, <2>3, <3>1, UpdatedIsFile
      <3>3. author' = "signIn" => author = "signIn"
        BY <2>1, <2>3
      <3> QED
        BY <1>7, <3>1, <3>2, <3>3
        DEF Browser!Refreshed, Browser!signIn, SignInInv
    <2> QED
      BY <2>2, <2>3
  <1>8. CASE UNCHANGED signInVars
    BY <1>8 DEF signInVars, SignInInv, Browser!Complete
  <1> QED
    BY <1>1, <1>2, <1>3, <1>4, <1>5, <1>6, <1>7, <1>8 DEF Browser!Next

\* However leases, refreshes, sign-ins and sign-outs follow each other: the file of
\* a sign-in stays one that every later lease can use (login/lib.rs,
\* write_auth_json, update_tokens).
THEOREM SignInsAreUsable == HandlersSpec => []SignedInMeansUsable
  <1>1. SignInKeeps => SignedInMeansUsable
    BY SignInAssumption
    DEF SignInKeeps, SignInInv, SignedInMeansUsable, Browser!SignedInMeansUsable,
        Browser!Loads, Browser!Readable, Browser!IsSubscription
  <1> QED
    BY <1>1, SignInBegins, SignInStep, PTL DEF HandlersSpec

-----------------------------------------------------------------------------
(* The settings in the window.                                               *)

PageTexts == Texts \cup {NoText}
Saves == [field : Page!Names, text : Texts]

\* The draft, the queue and the history that commits change.
Drafting == [draft : [Page!Names -> PageTexts], queue : Seq(Saves),
             astray : SUBSET Page!Names]
DraftingNow == [draft |-> draft, queue |-> queue, astray |-> astray]

\* A text is saved and no save of another is on its way; or it is to be saved with
\* the first k of the queue, and no other after it.
Reached(was, saves, f, t, k) ==
    \/ was = t /\ \A j \in 1..Len(saves) : saves[j].field = f => saves[j].text = t
    \/ \E i \in 1..Len(saves) :
          /\ i <= k /\ saves[i].field = f
          /\ \A j \in i..Len(saves) : saves[j].field = f => saves[j].text = t

\* A draft is what was typed last, and what the field shows.
DraftsAreTyped(r) ==
    \A f \in Page!Names : r.draft[f] # NoText => r.draft[f] = field[f] /\ typed[f] = field[f]

\* Without a draft, what was typed last is saved, and nothing else is on its way.
SettledIsSaved(r) ==
    \A f \in Page!Names :
        typed[f] # NoText /\ f \notin r.astray /\ r.draft[f] = NoText =>
            saved[f] = typed[f] /\ \A j \in 1..Len(r.queue) : r.queue[j].field # f

\* The queue has only grown, by texts that were typed last.
OnlyGrows(r) ==
    /\ astray \subseteq r.astray
    /\ queue # <<>> => r.queue # <<>> /\ r.queue[1] = queue[1]
    /\ \A g \in Page!Names : \A k \in Int :
         Reached(saved[g], queue, g, typed[g], k) => Reached(saved[g], r.queue, g, typed[g], k)

PageTypes ==
    /\ saved \in [Page!Names -> Texts] /\ field \in [Page!Names -> Texts]
    /\ draft \in [Page!Names -> PageTexts] /\ typed \in [Page!Names -> PageTexts]
    /\ queue \in Seq(Saves) /\ astray \subseteq Page!Names

\* What commits keep.
Kept(r) == r \in Drafting /\ DraftsAreTyped(r) /\ SettledIsSaved(r) /\ OnlyGrows(r)

\* A save of the same text at the end changes nothing for a text that is reached.
LEMMA AppendReaches ==
    ASSUME NEW saves \in Seq(Saves), NEW save \in Saves, NEW was, NEW f, NEW t, NEW k \in Int,
           Reached(was, saves, f, t, k), save.field = f => save.text = t
    PROVE  Reached(was, Append(saves, save), f, t, k)
  <1> DEFINE more == Append(saves, save)  n == Len(saves)
  <1>1. /\ n \in Nat /\ Len(more) = n + 1 /\ more[n + 1] = save
        /\ \A j \in 1..n : more[j] = saves[j]
    BY AppendProperties
  <1> HIDE DEF more
  <1>2. CASE was = t /\ \A j \in 1..n : saves[j].field = f => saves[j].text = t
    <2>1. ASSUME NEW j \in 1..Len(more), more[j].field = f
          PROVE  more[j].text = t
      <3>1. j \in 1..n \/ j = n + 1
        BY <1>1
      <3> QED
        BY <1>1, <1>2, <2>1, <3>1
    <2> QED
      BY <1>2, <2>1 DEF Reached, more
  <1>3. CASE \E i \in 1..n :
                /\ i <= k /\ saves[i].field = f
                /\ \A j \in i..n : saves[j].field = f => saves[j].text = t
    <2>1. PICK i \in 1..n :
                /\ i <= k /\ saves[i].field = f
                /\ \A j \in i..n : saves[j].field = f => saves[j].text = t
      BY <1>3
    <2>2. i \in 1..Len(more) /\ more[i].field = f
      BY <1>1, <2>1
    <2>3. ASSUME NEW j \in i..Len(more), more[j].field = f
          PROVE  more[j].text = t
      <3>1. (j \in 1..n /\ j \in i..n) \/ j = n + 1
        BY <1>1
      <3> QED
        BY <1>1, <2>1, <2>3, <3>1
    <2> QED
      BY <2>1, <2>2, <2>3 DEF Reached, more
  <1> QED
    BY <1>2, <1>3 DEF Reached

\* One commit.
LEMMA CommittedKeeps ==
    ASSUME PageTypes, NEW r, Kept(r), NEW f \in Page!Names, typed[f] = field[f]
    PROVE  /\ Kept(Page!Committed(r, f))
           /\ \A g \in Page!Names : \A k \in Int :
                Reached(saved[g], r.queue, g, typed[g], k) =>
                    Reached(saved[g], Page!Committed(r, f).queue, g, typed[g], k)
           /\ r.astray \subseteq Page!Committed(r, f).astray
           /\ Len(r.queue) <= Len(Page!Committed(r, f).queue)
           /\ typed[f] \notin Faulty /\ f \notin Page!Committed(r, f).astray =>
                  Reached(saved[f], Page!Committed(r, f).queue, f, typed[f],
                          Len(Page!Committed(r, f).queue))
  <1> DEFINE R == Page!Committed(r, f)
             save == [field |-> f, text |-> field[f]]
  <1>1. /\ r = [draft |-> r.draft, queue |-> r.queue, astray |-> r.astray]
        /\ r.draft \in [Page!Names -> PageTexts] /\ r.queue \in Seq(Saves)
        /\ r.astray \subseteq Page!Names
    BY DEF Kept, Drafting
  <1>2. field[f] \in Texts /\ save \in Saves /\ field[f] # NoText
    BY PageAssumption DEF PageTypes, Saves
  <1>3. CASE field[f] \in Faulty
    BY <1>1, <1>3 DEF Page!Committed
  <1>4. CASE field[f] \notin Faulty /\ Page!IsSaved(f, r.queue # <<>>)
    <2>1. /\ R.draft = [r.draft EXCEPT ![f] = NoText] /\ R.queue = r.queue
          /\ R.astray = IF saved[f] = field[f] THEN r.astray ELSE r.astray \cup {f}
          /\ R = [draft |-> R.draft, queue |-> R.queue, astray |-> R.astray]
      BY <1>1, <1>4 DEF Page!Committed
    <2>2. r.queue = <<>>
      BY <1>4 DEF Page!IsSaved
    <2>3. R \in Drafting
      BY <1>1, <2>1 DEF Drafting, PageTexts
    <2>4. DraftsAreTyped(R) /\ SettledIsSaved(R) /\ OnlyGrows(R)
      <3> HIDE DEF R
      <3> QED
        BY <1>1, <2>1, <2>2 DEF Kept, DraftsAreTyped, SettledIsSaved, OnlyGrows
    <2>5. f \notin R.astray => Reached(saved[f], R.queue, f, typed[f], Len(R.queue))
      <3> HIDE DEF R
      <3> QED
        BY <2>1, <2>2 DEF Reached
    <2> HIDE DEF R
    <2> QED
      BY <1>1, <2>1, <2>3, <2>4, <2>5 DEF Kept, R
  <1>5. CASE field[f] \notin Faulty /\ ~Page!IsSaved(f, r.queue # <<>>)
    <2>1. /\ R.draft = [r.draft EXCEPT ![f] = field[f]]
          /\ R.queue = Append(r.queue, save) /\ R.astray = r.astray
          /\ R = [draft |-> R.draft, queue |-> R.queue, astray |-> R.astray]
      BY <1>1, <1>5 DEF Page!Committed
    <2>2. /\ R.queue \in Seq(Saves) /\ Len(r.queue) \in Nat /\ Len(R.queue) = Len(r.queue) + 1
          /\ R.queue[Len(R.queue)] = save
          /\ \A j \in 1..Len(r.queue) : R.queue[j] = r.queue[j]
      <3> DEFINE saves == r.queue
      <3>1. saves \in Seq(Saves) /\ save \in Saves
        BY <1>1, <1>2
      <3> HIDE DEF saves, save, R
      <3>2. /\ Append(saves, save) \in Seq(Saves) /\ Len(saves) \in Nat
            /\ Len(Append(saves, save)) = Len(saves) + 1
            /\ Append(saves, save)[Len(saves) + 1] = save
            /\ \A j \in 1..Len(saves) : Append(saves, save)[j] = saves[j]
        BY <3>1, AppendProperties
      <3> QED
        BY <2>1, <3>2 DEF saves
    <2>3. R \in Drafting
      BY <1>1, <1>2, <2>1, <2>2 DEF Drafting, PageTexts
    <2> HIDE DEF R
    <2>4. DraftsAreTyped(R)
      BY <1>1, <2>1 DEF Kept, DraftsAreTyped
    <2>5. SettledIsSaved(R)
      <3>1. ASSUME NEW g \in Page!Names, typed[g] # NoText, g \notin R.astray,
                   R.draft[g] = NoText
            PROVE  saved[g] = typed[g] /\ \A j \in 1..Len(R.queue) : R.queue[j].field # g
        <4>1. g # f /\ r.draft[g] = NoText /\ g \notin r.astray
          BY <1>1, <1>2, <2>1, <3>1
        <4>2. saved[g] = typed[g] /\ \A j \in 1..Len(r.queue) : r.queue[j].field # g
          BY <3>1, <4>1 DEF Kept, SettledIsSaved
        <4>3. \A j \in 1..Len(R.queue) : j \in 1..Len(r.queue) \/ j = Len(R.queue)
          BY <2>2
        <4> QED
          BY <2>2, <4>1, <4>2, <4>3
      <3> QED
        BY <3>1 DEF SettledIsSaved
    <2>6. ASSUME NEW g \in Page!Names, NEW k \in Int,
                 Reached(saved[g], r.queue, g, typed[g], k)
          PROVE  Reached(saved[g], R.queue, g, typed[g], k)
      <3> DEFINE saves == r.queue  was == saved[g]  t == typed[g]
      <3>1. saves \in Seq(Saves) /\ save \in Saves /\ Reached(was, saves, g, t, k)
            /\ (save.field = g => save.text = t)
        BY <1>1, <1>2, <2>6
      <3> HIDE DEF saves, was, t, save
      <3>2. Reached(was, Append(saves, save), g, t, k)
        BY <3>1, AppendReaches
      <3> QED
        BY <2>1, <3>2 DEF saves, was, t
    <2>7. OnlyGrows(R)
      <3>1. queue # <<>> => R.queue # <<>> /\ R.queue[1] = queue[1]
        <4>1. queue # <<>> => r.queue # <<>> /\ r.queue[1] = queue[1]
          BY DEF Kept, OnlyGrows
        <4>2. r.queue # <<>> => 1 \in 1..Len(r.queue)
          BY <1>1
        <4>3. R.queue # <<>>
          BY <2>2
        <4> QED
          BY <2>2, <4>1, <4>2, <4>3
      <3> QED
        BY <2>1, <2>6, <3>1 DEF Kept, OnlyGrows
    <2>8. Reached(saved[f], R.queue, f, typed[f], Len(R.queue))
      <3>1. Len(R.queue) \in 1..Len(R.queue) /\ R.queue[Len(R.queue)].field = f
            /\ \A j \in Len(R.queue)..Len(R.queue) : R.queue[j].text = typed[f]
        BY <2>2
      <3> QED
        BY <2>2, <3>1 DEF Reached
    <2> QED
      BY <2>1, <2>2, <2>3, <2>4, <2>5, <2>6, <2>7, <2>8 DEF Kept, R
  <1> QED
    BY <1>3, <1>4, <1>5

\* All that are called for the fields of a set.
LEMMA CommitsKeep ==
    ASSUME PageTypes, Kept(DraftingNow), NEW fs \in SUBSET Page!Names,
           \A f \in fs : typed[f] = field[f]
    PROVE  LET r == Page!Commits(fs) IN
           /\ Kept(r)
           /\ \A f \in fs : typed[f] \notin Faulty /\ f \notin r.astray =>
                  Reached(saved[f], r.queue, f, typed[f], Len(r.queue))
  <1> DEFINE n == Len(Inputs)
             V == {r \in Drafting : Kept(r)}
             Step(r, i) == IF Inputs[i] \in fs THEN Page!Committed(r, Inputs[i]) ELSE r
             step == [i \in 1..n |-> [r \in V |-> Step(r, i)]]
             Body(g) == [i \in 0..n |-> IF i = 0 THEN DraftingNow
                                        ELSE IF Inputs[i] \in fs
                                             THEN Page!Committed(g[i - 1], Inputs[i])
                                             ELSE g[i - 1]]
             F == CHOOSE g : g = Body(g)
             Told(r, f) == typed[f] \notin Faulty /\ f \notin r.astray =>
                               Reached(saved[f], r.queue, f, typed[f], Len(r.queue))
  <1>1. n \in Nat /\ \A i \in 1..n : Inputs[i] \in Page!Names
    BY PageAssumption
  <1>2. ASSUME NEW r \in V, NEW i \in 1..n
        PROVE  /\ Step(r, i) \in V
               /\ \A f \in fs : Told(r, f) => Told(Step(r, i), f)
               /\ Inputs[i] \in fs => Told(Step(r, i), Inputs[i])
    <2>1. CASE Inputs[i] \in fs
      <3> DEFINE f == Inputs[i]  q == Page!Committed(r, f)
      <3>1. f \in Page!Names /\ typed[f] = field[f] /\ Kept(r)
        BY <1>1, <2>1
      <3>2. Step(r, i) = q
        BY <2>1
      <3> HIDE DEF f
      <3>3. /\ Kept(q)
            /\ \A g \in Page!Names : \A k \in Int :
                 Reached(saved[g], r.queue, g, typed[g], k) =>
                    Reached(saved[g], q.queue, g, typed[g], k)
            /\ r.astray \subseteq q.astray /\ Len(r.queue) <= Len(q.queue)
            /\ Told(q, f)
        BY <3>1, CommittedKeeps
      <3> HIDE DEF q
      <3>4. ASSUME NEW g \in fs, Told(r, g)
            PROVE  Told(q, g)
        <4>1. Len(r.queue) \in Int /\ Len(q.queue) \in Int
          BY <3>1, <3>3 DEF Kept, Drafting
        <4>2. typed[g] \notin Faulty /\ g \notin q.astray =>
                  Reached(saved[g], r.queue, g, typed[g], Len(r.queue))
          BY <3>3, <3>4
        <4>3. Reached(saved[g], r.queue, g, typed[g], Len(r.queue)) =>
                  Reached(saved[g], q.queue, g, typed[g], Len(r.queue))
          BY <3>3, <4>1
        <4>4. Reached(saved[g], q.queue, g, typed[g], Len(r.queue)) =>
                  Reached(saved[g], q.queue, g, typed[g], Len(q.queue))
          BY <3>3, <4>1 DEF Reached
        <4> QED
          BY <4>2, <4>3, <4>4
      <3>5. q \in V
        BY <3>3 DEF Kept
      <3> HIDE DEF V, Told, Step
      <3> QED
        BY <3>2, <3>3, <3>4, <3>5 DEF f
    <2>2. CASE Inputs[i] \notin fs
      BY <2>2
    <2> QED
      BY <2>1, <2>2
  <1>3. DraftingNow \in V
    BY DEF Kept
  <1> HIDE DEF V, Step, Told
  <1>4. step \in [1..n -> [V -> V]]
    BY <1>2
  <1>5. PICK f : f \in [0..n -> V] /\ f[0] = DraftingNow
                 /\ \A i \in 1..n : f[i] = Step(f[i - 1], i)
    <2>1. PICK f : f \in [0..n -> V] /\ f[0] = DraftingNow
                   /\ \A i \in 1..n : f[i] = step[i][f[i - 1]]
      <3> DEFINE b == DraftingNow
      <3>1. n \in Nat /\ b \in V /\ step \in [1..n -> [V -> V]]
        BY <1>1, <1>3, <1>4
      <3> HIDE DEF step, n, b
      <3>2. \E f \in [0..n -> V] : f[0] = b /\ \A i \in 1..n : f[i] = step[i][f[i - 1]]
        BY ONLY <3>1, Recursion
      <3> QED
        BY <3>2 DEF b
    <2>2. ASSUME NEW i \in 1..n
          PROVE  f[i] = Step(f[i - 1], i)
      <3>1. i - 1 \in 0..n
        BY <1>1
      <3>2. f[i - 1] \in V
        BY <2>1, <3>1
      <3> QED
        BY <2>1, <3>2
    <2> QED
      BY <2>1, <2>2
  <1>6. Page!Commits(fs) = f[n]
    <2>1. ASSUME NEW i \in 0..n
          PROVE  f[i] = Body(f)[i]
      <3>1. CASE i = 0
        BY <1>5, <3>1
      <3>2. CASE i # 0
        <4>1. i \in 1..n
          BY <1>1, <3>2
        <4> QED
          BY <1>5, <3>2, <4>1 DEF Step
      <3> QED
        BY <3>1, <3>2
    <2>2. f = Body(f)
      <3>1. f = [i \in 0..n |-> f[i]]
        BY <1>5
      <3>2. Body(f) = [i \in 0..n |-> Body(f)[i]]
        OBVIOUS
      <3> HIDE DEF Body
      <3> QED
        BY <2>1, <3>1, <3>2
    <2>3. F = Body(F)
      <3> HIDE DEF Body
      <3> QED
        BY <2>2
    <2>4. Page!Commits(fs) = F[n]
      BY DEF Page!Commits, DraftingNow
    <2> HIDE DEF F
    <2>5. F[0] = DraftingNow /\ \A i \in 1..n : F[i] = Step(F[i - 1], i)
      <3>1. \A i \in 0..n : F[i] = Body(F)[i]
        BY <2>3
      <3>2. 0 \in 0..n /\ \A i \in 1..n : i \in 0..n /\ i # 0
        BY <1>1
      <3> QED
        BY <3>1, <3>2 DEF Step
    <2>6. \A i \in 0..n : f[i] = F[i]
      <3>1. f[0] = F[0]
        BY <1>5, <2>5
      <3>2. \A i \in 1..n : f[i - 1] = F[i - 1] => f[i] = F[i]
        BY <1>5, <2>5
      <3> HIDE DEF n
      <3> QED
        BY ONLY <1>1, <3>1, <3>2, SameRecursion
    <2> QED
      BY <1>1, <2>4, <2>6
  <1> HIDE DEF Body, F, step
  <1>7. \A i \in 0..n : \A j \in 1..i : Inputs[j] \in fs => Told(f[i], Inputs[j])
    <2> DEFINE Done(i) == \A j \in 1..i : Inputs[j] \in fs => Told(f[i], Inputs[j])
               S == {i \in Nat : i <= n => Done(i)}
    <2>1. 0 \in S
      OBVIOUS
    <2>2. ASSUME NEW i \in S
          PROVE  i + 1 \in S
      <3>1. SUFFICES ASSUME i + 1 <= n
                     PROVE  Done(i + 1)
        OBVIOUS
      <3>2. i \in 0..n /\ i + 1 \in 1..n /\ (i + 1) - 1 = i /\ Done(i)
        BY <1>1, <3>1
      <3>3. f[i + 1] = Step(f[i], i + 1) /\ f[i] \in V
        BY <1>5, <3>2
      <3>4. /\ \A g \in fs : Told(f[i], g) => Told(f[i + 1], g)
            /\ Inputs[i + 1] \in fs => Told(f[i + 1], Inputs[i + 1])
        BY <1>2, <3>2, <3>3
      <3>5. \A j \in 1..(i + 1) : j \in 1..i \/ j = i + 1
        BY <3>2
      <3> QED
        BY <3>2, <3>4, <3>5
    <2> HIDE DEF Done
    <2>3. S \in SUBSET Nat
      OBVIOUS
    <2> HIDE DEF S
    <2>4. S = Nat
      BY <2>1, <2>2, <2>3, EveryNat
    <2> QED
      BY <1>1, <2>4 DEF S, Done
  <1>8. \A g \in fs : \E j \in 1..n : Inputs[j] = g
    BY DEF Page!Names, Page!ToSet
  <1>9. n \in 0..n
    BY <1>1
  <1>10. Kept(f[n])
    BY <1>5, <1>9 DEF V
  <1>11. \A g \in fs : Told(f[n], g)
    BY <1>7, <1>8, <1>9
  <1> QED
    BY <1>6, <1>10, <1>11 DEF Told

Replies == [at : {"new", "asked", "answered", "refused"}, status : [Page!Names -> PageTexts]]
IsReply(r) == r \in Replies /\ (r.at = "answered" => r.status \in [Page!Names -> Texts])
ClickStates == [at : {"new", "flushing", "acting", "acted", "over"}, awaits : Nat,
                wants : [Page!Names -> PageTexts], status : [Page!Names -> PageTexts]]

\* What a click wants was typed last, and it is saved, or among the saves it awaits.
ClickIsServed(c) ==
    LET k == click[c] IN
    /\ k.at = "acting" => k.awaits <= ended
    /\ k.at = "acted" => k.status \in [Page!Names -> Texts]
    /\ k.at # "new" =>
         \A f \in Page!Names : k.wants[f] # NoText => k.wants[f] = typed[f]
    /\ k.at \in {"flushing", "acting"} =>
         \A f \in Page!Names :
             k.wants[f] \notin Faulty \cup {NoText} /\ f \notin refused \cup astray =>
                 Reached(saved[f], queue, f, typed[f], k.awaits - ended)

\* The answer to a save is about the one at the head of the queue.
ReplyIsOfHead ==
    /\ IsReply(saveReply) /\ saveReply.at # "asked"
    /\ saveReply.at # "new" => queue # <<>>
    /\ saveReply.at = "answered" => saved[queue[1].field] = queue[1].text
    /\ saveReply.at = "refused" => queue[1].field \in refused

PageInv ==
    /\ PageTypes
    /\ rendered \in [Page!Names -> Texts]
    /\ focus \subseteq Page!Names /\ timers \subseteq focus
    /\ \A f, g \in focus : f = g
    /\ refused \subseteq Page!Names /\ ended \in Nat
    /\ statusPoll \in [Requests -> Replies] /\ click \in [Clicks -> ClickStates]
    /\ \A p \in Requests : IsReply(statusPoll[p])
    /\ \A f \in focus : field[f] = typed[f]
    /\ DraftsAreTyped(DraftingNow) /\ SettledIsSaved(DraftingNow)
    /\ ReplyIsOfHead
    /\ \A c \in Clicks : ClickIsServed(c)

PageKeeps == part = "page" => PageInv

LEMMA PageBegins == HandlersInit => PageKeeps
  <1> SUFFICES ASSUME Page!Init
               PROVE  PageInv
    BY DEF HandlersInit, PageKeeps
  <1>1. PICK t \in Texts \ Faulty : saved = [f \in Page!Names |-> t]
    BY DEF Page!Init
  <1>2. Page!Nothing \in [Page!Names -> PageTexts]
        /\ \A f \in Page!Names : Page!Nothing[f] = NoText
    BY DEF Page!Nothing, PageTexts
  <1>3. PageTypes
    BY <1>1, <1>2, EmptySeq DEF Page!Init, PageTypes
  <1>4. IsReply(Page!NoReply) /\ Page!NoReply.at = "new"
    BY <1>2 DEF Page!NoReply, IsReply, Replies
  <1>5. ReplyIsOfHead /\ statusPoll \in [Requests -> Replies]
        /\ \A p \in Requests : IsReply(statusPoll[p])
    BY <1>4 DEF Page!Init, ReplyIsOfHead, IsReply
  <1>6. click \in [Clicks -> ClickStates] /\ \A c \in Clicks : click[c].at = "new"
    BY <1>2 DEF Page!Init, ClickStates
  <1>7. DraftsAreTyped(DraftingNow) /\ SettledIsSaved(DraftingNow)
    BY <1>2 DEF Page!Init, DraftsAreTyped, SettledIsSaved, DraftingNow
  <1> QED
    BY <1>1, <1>3, <1>5, <1>6, <1>7 DEF Page!Init, PageInv, ClickIsServed

LEMMA TypeKeeps ==
    ASSUME PageInv, NEW f \in Page!Names, NEW t \in Texts, Page!Type(f, t)
    PROVE  PageInv'
  <1> USE DEF Page!Type
  <1>1. t # NoText
    BY PageAssumption
  <1>2. PageTypes'
    BY DEF PageInv, PageTypes, PageTexts, Page!saving
  <1>3. /\ rendered' \in [Page!Names -> Texts]
        /\ focus' \subseteq Page!Names /\ timers' \subseteq focus'
        /\ \A g, h \in focus' : g = h
        /\ refused' \subseteq Page!Names /\ ended' \in Nat
        /\ statusPoll' \in [Requests -> Replies]
        /\ \A p \in Requests : IsReply(statusPoll[p])'
    BY DEF PageInv, Page!saving, IsReply
  <1>4. \A g \in focus' : field'[g] = typed'[g]
    BY DEF PageInv, PageTypes
  <1>5. DraftsAreTyped(DraftingNow)'
    BY DEF PageInv, PageTypes, DraftsAreTyped, DraftingNow
  <1>6. SettledIsSaved(DraftingNow)'
    BY <1>1 DEF PageInv, PageTypes, SettledIsSaved, DraftingNow, Page!saving
  <1>7. ReplyIsOfHead'
    BY DEF PageInv, ReplyIsOfHead, IsReply, Page!saving
  <1>8. /\ click' \in [Clicks -> ClickStates]
        /\ \A c \in Clicks : /\ click'[c].at = click[c].at /\ click'[c].awaits = click[c].awaits
                             /\ click'[c].status = click[c].status
                             /\ click'[c].wants = [click[c].wants EXCEPT ![f] = NoText]
    BY DEF PageInv, ClickStates, PageTexts
  <1>9. ASSUME NEW c \in Clicks
        PROVE  ClickIsServed(c)'
    <2>1. \A g \in Page!Names : g # f =>
              /\ click'[c].wants[g] = click[c].wants[g] /\ typed'[g] = typed[g]
              /\ g \in astray' <=> g \in astray
      BY <1>8 DEF PageInv, PageTypes, ClickStates
    <2>2. click'[c].wants[f] = NoText
      BY <1>8 DEF PageInv, ClickStates
    <2>3. saved' = saved /\ queue' = queue /\ ended' = ended /\ refused' = refused
      BY DEF Page!saving
    <2>4. ClickIsServed(c)
      BY DEF PageInv
    <2> QED
      BY <1>8, <2>1, <2>2, <2>3, <2>4 DEF ClickIsServed
  <1> QED
    BY <1>2, <1>3, <1>4, <1>5, <1>6, <1>7, <1>8, <1>9 DEF PageInv

LEMMA CommitKeeps ==
    ASSUME PageInv, NEW fs \in SUBSET Page!Names, \A f \in fs : typed[f] = field[f],
           Page!Commit(fs), UNCHANGED <<saved, field, typed, saveReply, ended, refused>>
    PROVE  /\ PageTypes' /\ timers' \subseteq timers \ fs
           /\ DraftsAreTyped(DraftingNow)' /\ SettledIsSaved(DraftingNow)' /\ ReplyIsOfHead'
           /\ \A c \in Clicks : click'[c] = click[c] => ClickIsServed(c)'
           /\ \A f \in fs : typed[f] \notin Faulty /\ f \notin astray' =>
                  Reached(saved[f], queue', f, typed[f], Len(queue'))
           /\ astray \subseteq astray'
           /\ \A g \in Page!Names : \A k \in Int :
                Reached(saved[g], queue, g, typed[g], k) =>
                    Reached(saved[g], queue', g, typed[g], k)
  <1> DEFINE r == Page!Commits(fs)
  <1>1. Kept(DraftingNow)
    BY DEF PageInv, PageTypes, Kept, Drafting, OnlyGrows, DraftingNow
  <1>2. PageTypes
    BY DEF PageInv
  <1>3. /\ Kept(r)
        /\ \A f \in fs : typed[f] \notin Faulty /\ f \notin r.astray =>
               Reached(saved[f], r.queue, f, typed[f], Len(r.queue))
    BY <1>1, <1>2, CommitsKeep
  <1>4. draft' = r.draft /\ queue' = r.queue /\ astray' = r.astray /\ timers' = timers \ fs
    BY DEF Page!Commit
  <1> HIDE DEF r
  <1>5. r = DraftingNow'
    BY <1>3, <1>4 DEF Kept, Drafting, DraftingNow
  <1>6. PageTypes'
    BY <1>2, <1>3, <1>4 DEF PageTypes, Kept, Drafting
  <1>7. DraftsAreTyped(DraftingNow)' /\ SettledIsSaved(DraftingNow)'
    BY <1>3, <1>4 DEF Kept, DraftsAreTyped, SettledIsSaved, DraftingNow
  <1>8. /\ queue # <<>> => queue' # <<>> /\ queue'[1] = queue[1]
        /\ astray \subseteq astray'
        /\ \A g \in Page!Names : \A k \in Int :
             Reached(saved[g], queue, g, typed[g], k) =>
                 Reached(saved[g], queue', g, typed[g], k)
    BY <1>3, <1>4 DEF Kept, OnlyGrows
  <1>9. ReplyIsOfHead'
    BY <1>8 DEF PageInv, ReplyIsOfHead, IsReply
  <1>10. ASSUME NEW c \in Clicks, click'[c] = click[c]
         PROVE  ClickIsServed(c)'
    <2>1. ClickIsServed(c) /\ click[c].awaits \in Nat /\ ended \in Nat
      BY DEF PageInv, ClickStates
    <2>2. click[c].awaits - ended \in Int
      BY <2>1
    <2> QED
      BY <1>8, <1>10, <2>1, <2>2 DEF ClickIsServed
  <1> QED
    BY <1>3, <1>4, <1>6, <1>7, <1>8, <1>9, <1>10

\* The timer and the listener of "change".
LEMMA FieldCommits ==
    ASSUME PageInv, NEW f \in Page!Names, Page!TimerFires(f) \/ Page!Leave(f)
    PROVE  PageInv'
  <1>1. f \in focus
    BY DEF PageInv, Page!TimerFires, Page!Leave
  <1>2. /\ Page!Commit({f})
        /\ UNCHANGED <<saved, rendered, field, typed, saveReply, ended, refused, click, statusPoll>>
        /\ focus' = focus \/ focus' = {}
    BY DEF Page!TimerFires, Page!Leave
  <1>3. {f} \in SUBSET Page!Names /\ \A g \in {f} : typed[g] = field[g]
    BY <1>1 DEF PageInv
  <1>4. /\ PageTypes' /\ timers' \subseteq timers \ {f}
        /\ DraftsAreTyped(DraftingNow)' /\ SettledIsSaved(DraftingNow)' /\ ReplyIsOfHead'
        /\ \A c \in Clicks : ClickIsServed(c)'
    BY <1>2, <1>3, CommitKeeps
  <1>5. timers' \subseteq focus'
    BY <1>1, <1>4 DEF PageInv, Page!TimerFires, Page!Leave
  <1> QED
    BY <1>2, <1>4, <1>5 DEF PageInv, IsReply

LEMMA ClickKeeps ==
    ASSUME PageInv, NEW c \in Clicks, Page!Click(c)
    PROVE  PageInv'
  <1> DEFINE fs == {f \in Page!Names : draft[f] # NoText}
  <1>1. /\ Page!Commit(fs)
        /\ UNCHANGED <<saved, rendered, field, focus, typed, saveReply, ended, refused, statusPoll>>
        /\ click' = [click EXCEPT ![c].at = "flushing", ![c].wants = typed,
                                  ![c].awaits = ended + Len(queue')]
    BY DEF Page!Click, Page!Flush
  <1>2. fs \in SUBSET Page!Names /\ \A f \in fs : typed[f] = field[f]
    BY DEF PageInv, DraftsAreTyped, DraftingNow
  <1>3. \A f \in Page!Names \ fs : draft[f] = NoText
    OBVIOUS
  <1> HIDE DEF fs
  <1>4. /\ PageTypes' /\ timers' \subseteq timers \ fs
        /\ DraftsAreTyped(DraftingNow)' /\ SettledIsSaved(DraftingNow)' /\ ReplyIsOfHead'
        /\ \A d \in Clicks : click'[d] = click[d] => ClickIsServed(d)'
        /\ \A f \in fs : typed[f] \notin Faulty /\ f \notin astray' =>
               Reached(saved[f], queue', f, typed[f], Len(queue'))
        /\ astray \subseteq astray'
        /\ \A g \in Page!Names : \A k \in Int :
             Reached(saved[g], queue, g, typed[g], k) =>
                 Reached(saved[g], queue', g, typed[g], k)
    BY <1>1, <1>2, CommitKeeps
  <1>5. /\ \A d \in Clicks : d # c => click'[d] = click[d]
        /\ click'[c] = [click[c] EXCEPT !.at = "flushing", !.wants = typed,
                                        !.awaits = ended + Len(queue')]
    BY <1>1 DEF PageInv
  <1>6. Len(queue') \in Nat /\ ended \in Nat
    BY <1>4 DEF PageTypes, PageInv
  <1>7. /\ click'[c].at = "flushing" /\ click'[c].wants = typed
        /\ click'[c].awaits = ended + Len(queue') /\ click'[c] \in ClickStates
    <2>1. click[c] \in ClickStates /\ typed \in [Page!Names -> PageTexts]
          /\ ended + Len(queue') \in Nat
      BY <1>6 DEF PageInv, PageTypes
    <2> QED
      BY <1>5, <2>1 DEF ClickStates
  <1>8. ClickIsServed(c)'
    <2>1. ASSUME NEW f \in Page!Names, typed[f] \notin Faulty \cup {NoText},
                 f \notin astray'
          PROVE  Reached(saved[f], queue', f, typed[f], Len(queue'))
      <3>1. CASE f \in fs
        BY <1>4, <2>1, <3>1
      <3>2. CASE f \notin fs
        <4>1. draft[f] = NoText /\ f \notin astray
          BY <1>3, <1>4, <2>1, <3>2
        <4>2. saved[f] = typed[f] /\ \A j \in 1..Len(queue) : queue[j].field # f
          BY <2>1, <4>1 DEF PageInv, SettledIsSaved, DraftingNow
        <4>3. Reached(saved[f], queue, f, typed[f], Len(queue'))
          BY <4>2 DEF Reached
        <4> QED
          BY <1>4, <1>6, <4>3
      <3> QED
        BY <3>1, <3>2
    <2>2. click'[c].awaits - ended' = Len(queue')
      BY <1>1, <1>6, <1>7
    <2> QED
      BY <1>1, <1>7, <2>1, <2>2 DEF ClickIsServed
  <1>9. click' \in [Clicks -> ClickStates]
    BY <1>1, <1>5, <1>7 DEF PageInv
  <1>10. \A d \in Clicks : ClickIsServed(d)'
    BY <1>4, <1>5, <1>8
  <1> QED
    BY <1>1, <1>4, <1>9, <1>10 DEF PageInv, IsReply

\* Configure.
LEMMA ConfigureKeeps ==
    ASSUME PageInv, Page!Configure
    PROVE  PageInv'
  <1> DEFINE save == queue[1]
  <1>1. /\ queue # <<>> /\ save = Head(queue) /\ save \in Saves /\ saveReply.at = "new"
        /\ UNCHANGED <<rendered, field, focus, draft, timers, queue, ended, click,
                       statusPoll, typed, astray>>
    <2>1. queue \in Seq(Saves) /\ queue # <<>>
      BY DEF Page!Configure, Page!Pending, PageInv, PageTypes
    <2>2. Head(queue) = queue[1] /\ queue[1] \in Saves
      BY <2>1
    <2> QED
      BY <2>1, <2>2 DEF Page!Configure, Page!fields
  <1>2. \/ /\ saved' = [saved EXCEPT ![save.field] = save.text] /\ refused' = refused
           /\ saveReply' = Page!Answered(saved')
        \/ /\ saved' = saved /\ refused' = refused \cup {save.field}
           /\ saveReply' = [Page!NoReply EXCEPT !.at = "refused"]
    BY <1>1 DEF Page!Configure
  <1> HIDE DEF save
  <1>3. save.field \in Page!Names /\ save.text \in Texts
    BY <1>1 DEF Saves
  <1>4. /\ saved' \in [Page!Names -> Texts] /\ refused' \subseteq Page!Names
        /\ refused \subseteq refused'
        /\ \A f \in Page!Names : f # save.field => saved'[f] = saved[f]
        /\ save.field \in refused' \/ saved'[save.field] = save.text
        /\ save.field \notin refused' => saved'[save.field] = save.text
    BY <1>2, <1>3 DEF PageInv, PageTypes
  <1>5. PageTypes'
    BY <1>1, <1>4 DEF PageInv, PageTypes
  <1>6. ReplyIsOfHead'
    <2>1. Page!Nothing \in [Page!Names -> PageTexts]
      BY DEF Page!Nothing, PageTexts
    <2>2. saved' \in [Page!Names -> PageTexts]
      BY <1>4 DEF PageTexts
    <2>3. queue' = queue /\ queue[1] = save /\ queue # <<>>
      BY <1>1 DEF save
    <2>4. CASE /\ saved' = [saved EXCEPT ![save.field] = save.text]
               /\ saveReply' = Page!Answered(saved')
      <3>1. saved'[save.field] = save.text
        BY <1>3, <2>4 DEF PageInv, PageTypes
      <3>2. saveReply'.at = "answered" /\ IsReply(saveReply')
        BY <1>4, <2>2, <2>4 DEF Page!Answered, IsReply, Replies
      <3> QED
        BY <2>3, <3>1, <3>2 DEF ReplyIsOfHead, IsReply
    <2>5. CASE /\ refused' = refused \cup {save.field}
               /\ saveReply' = [Page!NoReply EXCEPT !.at = "refused"]
      <3>1. saveReply'.at = "refused" /\ IsReply(saveReply')
        BY <2>1, <2>5 DEF Page!NoReply, IsReply, Replies
      <3> QED
        BY <2>3, <2>5, <3>1 DEF ReplyIsOfHead, IsReply
    <2> QED
      BY <1>2, <2>4, <2>5
  <1>7. 1 \in 1..Len(queue) /\ queue[1] = save
    BY <1>1 DEF PageInv, PageTypes, save
  <1>8. SettledIsSaved(DraftingNow)'
    BY <1>1, <1>4, <1>7 DEF PageInv, SettledIsSaved, DraftingNow
  <1>9. ASSUME NEW f \in Page!Names, f \notin refused', NEW k \in Int,
               Reached(saved[f], queue, f, typed[f], k)
        PROVE  Reached(saved'[f], queue, f, typed[f], k)
    <2>1. CASE f # save.field
      BY <1>4, <1>9, <2>1
    <2>2. CASE f = save.field
      <3>1. saved'[f] = save.text
        BY <1>4, <1>9, <2>2
      <3>2. CASE \A j \in 1..Len(queue) : queue[j].field = f => queue[j].text = typed[f]
        BY <1>7, <2>2, <3>1, <3>2 DEF Reached
      <3>3. CASE ~\A j \in 1..Len(queue) : queue[j].field = f => queue[j].text = typed[f]
        BY <1>9, <3>3 DEF Reached
      <3> QED
        BY <3>2, <3>3
    <2> QED
      BY <2>1, <2>2
  <1>10. ASSUME NEW c \in Clicks
         PROVE  ClickIsServed(c)'
    <2>1. ClickIsServed(c) /\ click[c].awaits - ended \in Int
      BY DEF PageInv, ClickStates
    <2> QED
      BY <1>1, <1>4, <1>9, <2>1 DEF ClickIsServed
  <1> QED
    BY <1>1, <1>4, <1>5, <1>6, <1>8, <1>10 DEF PageInv, DraftsAreTyped, DraftingNow, IsReply

\* render
LEMMA RenderKeeps ==
    ASSUME field \in [Page!Names -> Texts], NEW status \in [Page!Names -> Texts], NEW drafts,
           Page!Render(status, drafts)
    PROVE  /\ rendered' \in [Page!Names -> Texts] /\ field' \in [Page!Names -> Texts]
           /\ \A f \in Page!Names : drafts[f] # NoText \/ f \in focus => field'[f] = field[f]
  BY DEF Page!Render

\* A rendering alone.
LEMMA RenderedKeeps ==
    ASSUME PageInv, rendered' \in [Page!Names -> Texts], field' \in [Page!Names -> Texts],
           \A f \in Page!Names : draft[f] # NoText \/ f \in focus => field'[f] = field[f],
           UNCHANGED <<saved, focus, draft, timers, queue, saveReply, ended, typed, refused, astray>>,
           statusPoll' \in [Requests -> Replies], click' \in [Clicks -> ClickStates],
           \A p \in Requests : IsReply(statusPoll'[p]),
           \A c \in Clicks : ClickIsServed(c)'
    PROVE  PageInv'
  BY DEF PageInv, PageTypes, DraftsAreTyped, SettledIsSaved, DraftingNow, ReplyIsOfHead, IsReply

\* The head of the queue is taken off.
LEMMA TailReaches ==
    ASSUME NEW saves \in Seq(Saves), saves # <<>>, NEW was, NEW f, NEW t, NEW k \in Int,
           Reached(was, saves, f, t, k), saves[1].field = f => was = saves[1].text
    PROVE  Reached(was, Tail(saves), f, t, k - 1)
  <1> DEFINE less == Tail(saves)  n == Len(saves)
  <1>1. /\ n \in Nat /\ 1 \in 1..n /\ Len(less) = n - 1
        /\ \A j \in 1..(n - 1) : less[j] = saves[j + 1]
    BY HeadTailProperties
  <1> HIDE DEF less
  <1>2. CASE was = t /\ \A j \in 1..n : saves[j].field = f => saves[j].text = t
    <2>1. ASSUME NEW j \in 1..Len(less), less[j].field = f
          PROVE  less[j].text = t
      BY <1>1, <1>2, <2>1
    <2> QED
      BY <1>2, <2>1 DEF Reached, less
  <1>3. CASE \E i \in 1..n :
                /\ i <= k /\ saves[i].field = f
                /\ \A j \in i..n : saves[j].field = f => saves[j].text = t
    <2>1. PICK i \in 1..n :
                /\ i <= k /\ saves[i].field = f
                /\ \A j \in i..n : saves[j].field = f => saves[j].text = t
      BY <1>3
    <2>2. \A j \in 1..n : j >= i /\ saves[j].field = f => saves[j].text = t
      BY <1>1, <2>1
    <2>3. \A j \in 1..Len(less) : j >= i - 1 /\ less[j].field = f => less[j].text = t
      <3>1. ASSUME NEW j \in 1..Len(less), j >= i - 1, less[j].field = f
            PROVE  less[j].text = t
        <4>1. j + 1 \in 1..n /\ j + 1 >= i /\ less[j] = saves[j + 1]
          BY <1>1, <3>1
        <4> QED
          BY <2>2, <3>1, <4>1
      <3> QED
        BY <3>1
    <2>4. CASE i = 1
      <3>1. saves[1].text = t
        BY <1>1, <2>1, <2>2, <2>4
      <3>2. was = t
        BY <2>1, <2>4, <3>1
      <3>3. \A j \in 1..Len(less) : less[j].field = f => less[j].text = t
        BY <1>1, <2>3, <2>4
      <3> QED
        BY <3>2, <3>3 DEF Reached, less
    <2>5. CASE i # 1
      <3>1. i - 1 \in 1..Len(less) /\ i - 1 <= k - 1 /\ less[i - 1].field = f
        <4>1. i - 1 \in 1..(n - 1) /\ (i - 1) + 1 = i
          BY <1>1, <2>5
        <4> QED
          BY <1>1, <2>1, <4>1
      <3>2. \A j \in (i - 1)..Len(less) : j \in 1..Len(less) /\ j >= i - 1
        BY <1>1, <3>1
      <3> QED
        BY <2>3, <3>1, <3>2 DEF Reached, less
    <2> QED
      BY <2>4, <2>5
  <1> QED
    BY <1>2, <1>3 DEF Reached

LEMMA SaveEndsKeeps ==
    ASSUME PageInv, Page!SaveEnds
    PROVE  PageInv'
  <1> DEFINE save == queue[1]
             dropped == saveReply.at = "answered" /\ draft[save.field] = save.text
  <1>1. /\ queue \in Seq(Saves) /\ queue # <<>> /\ save = Head(queue) /\ save \in Saves
        /\ saveReply.at \in {"answered", "refused"}
        /\ UNCHANGED <<saved, focus, timers, click, statusPoll, typed, refused>>
        /\ queue' = Tail(queue) /\ saveReply' = Page!NoReply /\ ended' = ended + 1
    <2>1. queue \in Seq(Saves) /\ queue # <<>>
      BY DEF Page!SaveEnds, Page!Pending, PageInv, PageTypes
    <2>2. Head(queue) = queue[1] /\ queue[1] \in Saves
      BY <2>1
    <2>3. saveReply.at \in {"answered", "refused"}
      BY DEF Page!SaveEnds, PageInv, ReplyIsOfHead, IsReply, Replies
    <2> QED
      BY <2>1, <2>2, <2>3 DEF Page!SaveEnds
  <1>2. /\ saveReply.at = "answered" =>
             saved[save.field] = save.text /\ saveReply.status \in [Page!Names -> Texts]
        /\ saveReply.at = "refused" => save.field \in refused
        /\ save.field \in Page!Names /\ save.text \in Texts
    BY <1>1 DEF PageInv, ReplyIsOfHead, IsReply, Saves
  <1>3. draft' = IF dropped THEN [draft EXCEPT ![save.field] = NoText] ELSE draft
    <2>1. CASE saveReply.at = "refused"
      BY <2>1 DEF Page!SaveEnds
    <2>2. CASE saveReply.at = "answered"
      <3>1. draft' = [draft EXCEPT ![save.field] =
                          IF draft[save.field] = save.text THEN NoText ELSE draft[save.field]]
        BY <1>1, <2>2 DEF Page!SaveEnds, Page!Kept
      <3> QED
        BY <2>2, <3>1 DEF PageInv, PageTypes
    <2> QED
      BY <1>1, <2>1, <2>2
  <1>4. astray' = astray \cup {f \in Page!Names :
                       /\ draft'[f] # draft[f]
                       /\ f \in timers \/ \E i \in 2..Len(queue) : queue[i].field = f}
    BY DEF Page!SaveEnds
  <1>5. /\ rendered' \in [Page!Names -> Texts] /\ field' \in [Page!Names -> Texts]
        /\ \A f \in Page!Names : draft'[f] # NoText \/ f \in focus => field'[f] = field[f]
    <2>1. field \in [Page!Names -> Texts] /\ rendered \in [Page!Names -> Texts]
      BY DEF PageInv, PageTypes
    <2>2. CASE saveReply.at = "refused"
      <3>1. Page!Render(rendered, draft) /\ draft' = draft
        BY <2>2 DEF Page!SaveEnds
      <3> QED
        BY <2>1, <3>1, RenderKeeps
    <2>3. CASE saveReply.at = "answered"
      <3>1. Page!Render(saveReply.status, draft')
        BY <2>3 DEF Page!SaveEnds
      <3> QED
        BY <1>2, <2>1, <2>3, <3>1, RenderKeeps
    <2> QED
      BY <1>1, <2>2, <2>3
  <1> HIDE DEF save
  <1>6. /\ Len(queue) \in Nat /\ Tail(queue) \in Seq(Saves) /\ Len(Tail(queue)) = Len(queue) - 1
        /\ \A j \in 1..Len(Tail(queue)) : j + 1 \in 2..Len(queue) /\ Tail(queue)[j] = queue[j + 1]
    BY <1>1, HeadTailProperties
  <1>7. PageTypes'
    <2>1. draft' \in [Page!Names -> PageTexts]
      BY <1>2, <1>3 DEF PageInv, PageTypes, PageTexts
    <2>2. astray' \subseteq Page!Names
      BY <1>4 DEF PageInv, PageTypes
    <2> QED
      BY <1>1, <1>5, <1>6, <2>1, <2>2 DEF PageInv, PageTypes
  <1>8. \A f \in Page!Names :
            draft'[f] = draft[f] \/ (f = save.field /\ dropped /\ draft'[f] = NoText)
    <2>1. draft \in [Page!Names -> PageTexts]
      BY DEF PageInv, PageTypes
    <2> HIDE DEF dropped
    <2> QED
      BY <1>2, <1>3, <2>1
  <1>9. DraftsAreTyped(DraftingNow)'
    <2>1. ASSUME NEW f \in Page!Names, draft'[f] # NoText
          PROVE  draft'[f] = field'[f] /\ typed'[f] = field'[f]
      BY <1>1, <1>5, <1>8, <2>1 DEF PageInv, DraftsAreTyped, DraftingNow
    <2> QED
      BY <2>1 DEF DraftsAreTyped, DraftingNow
  <1>10. SettledIsSaved(DraftingNow)'
    <2>1. ASSUME NEW f \in Page!Names, typed[f] # NoText, f \notin astray', draft'[f] = NoText
          PROVE  saved[f] = typed[f] /\ \A i \in 2..Len(queue) : queue[i].field # f
      <3>1. CASE draft[f] = NoText
        <4>1. saved[f] = typed[f] /\ \A i \in 1..Len(queue) : queue[i].field # f
          BY <1>4, <2>1, <3>1 DEF PageInv, SettledIsSaved, DraftingNow
        <4>2. \A i \in 2..Len(queue) : i \in 1..Len(queue)
          BY <1>6
        <4> QED
          BY <4>1, <4>2
      <3>2. CASE draft[f] # NoText
        <4>1. f = save.field /\ dropped /\ draft[f] = typed[f]
          BY <1>8, <2>1, <3>2 DEF PageInv, DraftsAreTyped, DraftingNow
        <4>2. \A i \in 2..Len(queue) : queue[i].field # f
          BY <1>4, <2>1, <3>2
        <4> QED
          BY <1>2, <4>1, <4>2
      <3> QED
        BY <3>1, <3>2
    <2>2. \A j \in 1..Len(queue') : j + 1 \in 2..Len(queue) /\ queue'[j] = queue[j + 1]
      BY <1>1, <1>6
    <2> QED
      BY <1>1, <2>1, <2>2 DEF SettledIsSaved, DraftingNow
  <1>11. ReplyIsOfHead'
    <2>1. Page!Nothing \in [Page!Names -> PageTexts]
      BY DEF Page!Nothing, PageTexts
    <2>2. IsReply(Page!NoReply) /\ Page!NoReply.at = "new"
      BY <2>1 DEF Page!NoReply, IsReply, Replies
    <2>3. IsReply(saveReply') /\ saveReply'.at = "new"
      BY <1>1, <2>2
    <2> QED
      BY <2>3 DEF ReplyIsOfHead, IsReply
  <1>12. ASSUME NEW c \in Clicks
         PROVE  ClickIsServed(c)'
    <2>1. /\ ClickIsServed(c) /\ click[c].awaits - ended \in Int /\ ended \in Nat
          /\ (click[c].awaits - ended) - 1 = click[c].awaits - (ended + 1)
          /\ click[c].awaits <= ended => click[c].awaits <= ended + 1
      BY DEF PageInv, ClickStates
    <2>2. ASSUME NEW f \in Page!Names, f \notin refused,
                 Reached(saved[f], queue, f, typed[f], click[c].awaits - ended)
          PROVE  Reached(saved[f], Tail(queue), f, typed[f], click[c].awaits - (ended + 1))
      <3> DEFINE k == click[c].awaits - ended  was == saved[f]  t == typed[f]
      <3>1. queue[1].field = f => was = queue[1].text
        BY <1>1, <1>2, <2>2 DEF save
      <3>2. k \in Int /\ Reached(was, queue, f, t, k)
        BY <2>1, <2>2
      <3> HIDE DEF k, was, t
      <3>3. Reached(was, Tail(queue), f, t, k - 1)
        BY <1>1, <3>1, <3>2, TailReaches
      <3> QED
        BY <2>1, <3>3 DEF k, was, t
    <2>3. astray \subseteq astray'
      BY <1>4
    <2> QED
      BY <1>1, <2>1, <2>2, <2>3 DEF ClickIsServed
  <1>13. timers' \subseteq focus' /\ \A f \in focus' : field'[f] = typed'[f]
    BY <1>1, <1>5 DEF PageInv
  <1>14. ended' \in Nat
    BY <1>1 DEF PageInv
  <1> QED
    BY <1>1, <1>5, <1>7, <1>9, <1>10, <1>11, <1>12, <1>13, <1>14 DEF PageInv, IsReply

\* refresh
LEMMA PollKeeps ==
    ASSUME PageInv, NEW p \in Requests,
           Page!Refresh(p) \/ Page!PollReads(p) \/ Page!PollArrives(p)
    PROVE  PageInv'
  <1>1. UNCHANGED <<saved, focus, draft, timers, queue, saveReply, ended, click,
                    typed, refused, astray>>
    BY DEF Page!Refresh, Page!PollReads, Page!PollArrives, Page!fields, Page!saving, Page!history
  <1>2. field \in [Page!Names -> Texts] /\ saved \in [Page!Names -> Texts]
        /\ IsReply(statusPoll[p]) /\ statusPoll \in [Requests -> Replies]
        /\ \A q \in Requests : IsReply(statusPoll[q])
    BY DEF PageInv, PageTypes
  <1>3. statusPoll' \in [Requests -> Replies] /\ \A q \in Requests : IsReply(statusPoll'[q])
    <2>1. CASE Page!Refresh(p)
      <3>1. [statusPoll[p] EXCEPT !.at = "asked"] \in Replies
            /\ [statusPoll[p] EXCEPT !.at = "asked"].at = "asked"
        BY <1>2 DEF Replies
      <3>2. statusPoll' = [statusPoll EXCEPT ![p] = [statusPoll[p] EXCEPT !.at = "asked"]]
        BY <2>1 DEF Page!Refresh
      <3> QED
        BY <1>2, <3>1, <3>2 DEF IsReply
    <2>2. CASE Page!PollReads(p)
      <3>1. saved \in [Page!Names -> PageTexts]
        BY <1>2 DEF PageTexts
      <3>2. IsReply(Page!Answered(saved))
        BY <1>2, <3>1 DEF Page!Answered, IsReply, Replies
      <3>3. statusPoll' = [statusPoll EXCEPT ![p] = Page!Answered(saved)]
        BY <2>2 DEF Page!PollReads
      <3> QED
        BY <1>2, <3>2, <3>3 DEF IsReply
    <2>3. CASE Page!PollArrives(p)
      <3>1. Page!Nothing \in [Page!Names -> PageTexts]
        BY DEF Page!Nothing, PageTexts
      <3>2. IsReply(Page!NoReply)
        BY <3>1 DEF Page!NoReply, IsReply, Replies
      <3>3. statusPoll' = [statusPoll EXCEPT ![p] = Page!NoReply]
        BY <2>3 DEF Page!PollArrives
      <3> QED
        BY <1>2, <3>2, <3>3 DEF IsReply
    <2> QED
      BY <2>1, <2>2, <2>3
  <1>4. /\ rendered' \in [Page!Names -> Texts] /\ field' \in [Page!Names -> Texts]
        /\ \A f \in Page!Names : draft[f] # NoText \/ f \in focus => field'[f] = field[f]
    <2>1. CASE Page!PollArrives(p)
      <3>1. statusPoll[p].status \in [Page!Names -> Texts]
            /\ Page!Render(statusPoll[p].status, draft)
        BY <1>2, <2>1 DEF Page!PollArrives, IsReply
      <3> QED
        BY <1>2, <3>1, RenderKeeps
    <2>2. CASE ~Page!PollArrives(p)
      BY <2>2 DEF Page!Refresh, Page!PollReads, Page!fields, PageInv, PageTypes
    <2> QED
      BY <2>1, <2>2
  <1>5. click' \in [Clicks -> ClickStates] /\ \A c \in Clicks : ClickIsServed(c)'
    BY <1>1 DEF PageInv, ClickIsServed
  <1> QED
    BY <1>1, <1>3, <1>4, <1>5, RenderedKeeps

\* action
LEMMA ActionKeeps ==
    ASSUME PageInv, NEW c \in Clicks,
           Page!Acts(c) \/ Page!ActionReads(c) \/ Page!ActionEnds(c)
    PROVE  PageInv'
  <1>1. UNCHANGED <<saved, focus, draft, timers, queue, saveReply, ended, statusPoll,
                    typed, refused, astray>>
    BY DEF Page!Acts, Page!ActionReads, Page!ActionEnds, Page!fields, Page!saving, Page!history
  <1>2. field \in [Page!Names -> Texts] /\ saved \in [Page!Names -> Texts]
        /\ click \in [Clicks -> ClickStates] /\ click[c] \in ClickStates
        /\ \A d \in Clicks : ClickIsServed(d)
    BY DEF PageInv, PageTypes
  <1>3. PICK at \in {"acting", "acted", "over"}, status \in [Page!Names -> PageTexts] :
            /\ click' = [click EXCEPT ![c] = [@ EXCEPT !.at = at, !.status = status]]
            /\ at = "acting" => click[c].at = "flushing" /\ click[c].awaits <= ended
            /\ at = "acted" => status \in [Page!Names -> Texts]
            /\ click[c].at # "new"
    <2>1. saved \in [Page!Names -> PageTexts] /\ click[c].status \in [Page!Names -> PageTexts]
          /\ click[c].awaits \in Nat /\ ended \in Nat
      BY <1>2 DEF PageTexts, ClickStates, PageInv
    <2>2. \A x \in ClickStates : \A y : [x EXCEPT !.at = y] = [x EXCEPT !.at = y, !.status = x.status]
      BY DEF ClickStates
    <2>3. CASE Page!Acts(c)
      <3>1. click' = [click EXCEPT ![c] = [click[c] EXCEPT !.at = "acting"]]
            /\ click[c].at = "flushing" /\ click[c].awaits <= ended
        BY <2>1, <2>3 DEF Page!Acts
      <3> QED
        BY <1>2, <2>1, <2>2, <3>1
    <2>4. CASE Page!ActionReads(c)
      <3>1. click' = [click EXCEPT ![c] = [click[c] EXCEPT !.at = "acted", !.status = saved]]
            /\ click[c].at = "acting"
        BY <1>2, <2>4 DEF Page!ActionReads
      <3> QED
        BY <1>2, <2>1, <3>1
    <2>5. CASE Page!ActionEnds(c)
      <3>1. click' = [click EXCEPT ![c] = [click[c] EXCEPT !.at = "over"]]
            /\ click[c].at = "acted"
        BY <2>5 DEF Page!ActionEnds
      <3> QED
        BY <1>2, <2>1, <2>2, <3>1
    <2> QED
      BY <2>3, <2>4, <2>5
  <1>4. /\ click'[c] = [click[c] EXCEPT !.at = at, !.status = status]
        /\ click'[c] \in ClickStates
        /\ \A d \in Clicks : d # c => click'[d] = click[d]
    <2>1. [click[c] EXCEPT !.at = at, !.status = status] \in ClickStates
      BY <1>2 DEF ClickStates
    <2> QED
      BY <1>2, <1>3, <2>1
  <1>5. click' \in [Clicks -> ClickStates]
    BY <1>2, <1>3, <1>4
  <1>6. \A d \in Clicks : d # c => ClickIsServed(d)'
    BY <1>1, <1>2, <1>4 DEF ClickIsServed
  <1>7. ClickIsServed(c)'
    <2>1. /\ click'[c].at = at /\ click'[c].status = status
          /\ click'[c].wants = click[c].wants /\ click'[c].awaits = click[c].awaits
      BY <1>2, <1>4 DEF ClickStates
    <2> QED
      BY <1>1, <1>2, <1>3, <2>1 DEF ClickIsServed
  <1>8. /\ rendered' \in [Page!Names -> Texts] /\ field' \in [Page!Names -> Texts]
        /\ \A f \in Page!Names : draft[f] # NoText \/ f \in focus => field'[f] = field[f]
    <2>1. CASE Page!ActionEnds(c) /\ Page!Render(click[c].status, draft)
      <3>1. click[c].status \in [Page!Names -> Texts]
        BY <1>2, <2>1 DEF Page!ActionEnds, ClickIsServed
      <3> QED
        BY <1>2, <2>1, <3>1, RenderKeeps
    <2>2. CASE ~(Page!ActionEnds(c) /\ Page!Render(click[c].status, draft))
      BY <2>2 DEF Page!Acts, Page!ActionReads, Page!ActionEnds, Page!fields, PageInv, PageTypes
    <2> QED
      BY <2>1, <2>2
  <1>9. statusPoll' \in [Requests -> Replies] /\ \A p \in Requests : IsReply(statusPoll'[p])
    BY <1>1 DEF PageInv, IsReply
  <1>10. \A d \in Clicks : ClickIsServed(d)'
    BY <1>6, <1>7
  <1> QED
    BY <1>1, <1>5, <1>8, <1>9, <1>10, RenderedKeeps

LEMMA PageStep ==
    ASSUME PageKeeps, [HandlersNext]_allVars
    PROVE  PageKeeps'
  <1> SUFFICES ASSUME PageInv, [Page!Next]_pageVars
               PROVE  PageInv'
    BY OnePartRuns DEF PageKeeps
  <1>1. CASE UNCHANGED pageVars
    BY <1>1 DEF pageVars, PageInv, PageTypes, DraftsAreTyped, SettledIsSaved, DraftingNow,
                ReplyIsOfHead, IsReply, ClickIsServed
  <1>2. CASE Page!Next
    BY <1>2, TypeKeeps, FieldCommits, ClickKeeps, ConfigureKeeps, SaveEndsKeeps, PollKeeps,
       ActionKeeps
    DEF Page!Next
  <1> QED
    BY <1>1, <1>2

LEMMA PageStays == HandlersSpec => []PageKeeps
  <1> QED
    BY PageBegins, PageStep, PTL DEF HandlersSpec

\* Whatever the timers, the answers and the clicks do: what was typed last is a
\* draft, or it is saved (app.js, commitInput, saveSetting).
THEOREM TypingIsKept == HandlersSpec => []EditsAreKept
  <1>1. PageKeeps => EditsAreKept
    <2> SUFFICES ASSUME PageInv
                 PROVE  Page!EditsAreKept
      BY DEF PageKeeps, EditsAreKept
    <2>1. ASSUME NEW f \in Page!Names, typed[f] # NoText, f \notin astray
          PROVE  draft[f] = typed[f] \/ saved[f] = typed[f]
      BY <2>1 DEF PageInv, DraftsAreTyped, SettledIsSaved, DraftingNow
    <2> QED
      BY <2>1 DEF Page!EditsAreKept
  <1> QED
    BY <1>1, PageStays, PTL

\* However many saves were on their way when a button was clicked, its action finds
\* what had been typed (app.js, flushSettings).
THEOREM ActionsFindEdits == HandlersSpec => []ActionsSeeEdits
  <1>1. PageKeeps => ActionsSeeEdits
    <2> SUFFICES ASSUME PageInv
                 PROVE  Page!ActionsSeeEdits
      BY DEF PageKeeps, ActionsSeeEdits
    <2>1. ASSUME NEW c \in Clicks, NEW f \in Page!Names, click[c].at = "acting",
                 click[c].wants[f] \notin Faulty \cup {NoText},
                 f \notin refused \cup astray
          PROVE  saved[f] = click[c].wants[f]
      <3>1. /\ click[c].wants[f] = typed[f] /\ click[c].awaits <= ended
            /\ Reached(saved[f], queue, f, typed[f], click[c].awaits - ended)
            /\ click[c].awaits \in Nat /\ ended \in Nat
        BY <2>1 DEF PageInv, ClickIsServed, ClickStates
      <3>2. \A i \in 1..Len(queue) : ~(i <= click[c].awaits - ended)
        BY <3>1 DEF PageInv, PageTypes
      <3> QED
        BY <3>1, <3>2 DEF Reached
    <2> QED
      BY <2>1 DEF Page!ActionsSeeEdits
  <1> QED
    BY <1>1, PageStays, PTL

-----------------------------------------------------------------------------
(* Conversions: their invariants hold where their part runs.                 *)

ConversionsKeep ==
    /\ part = "conversation" => TalkInv
    /\ part = "list" => ListInv
    /\ part = "stream" => StreamInv
    /\ part = "answer" => AnswerInv

LEMMA ConversionsBegin == HandlersInit => ConversionsKeep
  BY TalkBegins, ListBegins, StreamBegins, AnswerBegins DEF HandlersInit, ConversionsKeep

LEMMA ConversionsStep ==
    ASSUME ConversionsKeep, [HandlersNext]_allVars
    PROVE  ConversionsKeep' /\ (part = "conversation" => Talk!KeepsPrefix)
  BY OnePartRuns, TalkStep, ListStep, StreamStep, AnswerStep DEF ConversionsKeep

\* However long a conversation grows, and whatever is edited meanwhile: what is
\* sent begins with what was sent before, in the same session (chat_completions.rs,
\* build_responses_payload).
THEOREM PrefixesAreKept == HandlersSpec => PrefixIsKept
  <1> QED
    BY ConversionsBegin, ConversionsStep, PTL DEF HandlersSpec, PrefixIsKept

\* No call, no answer to a call and no text is lost or doubled on its way, and the
\* calls and the answers keep their order, for conversations of any length
\* (chat_completions.rs, build_responses_input).
THEOREM HistoriesAreWhole == HandlersSpec => []HistoryIsWhole
  <1>1. ConversionsKeep => HistoryIsWhole
    BY PayloadLosesNothing DEF ConversionsKeep, TalkInv, HistoryIsWhole
  <1> QED
    BY <1>1, ConversionsBegin, ConversionsStep, PTL DEF HandlersSpec

\* Every model of the vendor and of the operator is served, once, and the vendor's by
\* priority and among equals as the document has them, whatever documents come and go
\* (catalog.rs, parse_catalog, with_extras).
THEOREM ListsAreInOrder == HandlersSpec => []ServedInOrder
  <1>1. ConversionsKeep => ServedInOrder
    BY ServedAsListed DEF ConversionsKeep, ServedInOrder
  <1> QED
    BY <1>1, ConversionsBegin, ConversionsStep, PTL DEF HandlersSpec

\* Wherever the network cuts a stream of any length, also within a character or
\* before a newline, the lines are those of its bytes at once (chat_completions.rs,
\* decode_stream_chunk, 'read_stream).
THEOREM CutsAreImmaterial == HandlersSpec => []ChunksAreImmaterial
  <1>1. ConversionsKeep => ChunksAreImmaterial
    BY DEF ConversionsKeep, StreamInv, ChunksAreImmaterial
  <1> QED
    BY <1>1, ConversionsBegin, ConversionsStep, PTL DEF HandlersSpec

\* Of what the model says, whatever it cites, marks or tags: each word that is not
\* within a marker reaches the client, once and in its order, no raw marker does, and
\* the first parenthesis of a link's address is the one that closes it
\* (chat_completions.rs, clean_model_text).
THEOREM AnswersAreReadable == HandlersSpec => []AnswerIsReadable
  <1>1. ConversionsKeep => AnswerIsReadable
    BY DEF ConversionsKeep, AnswerInv, AnswerIsReadable
  <1> QED
    BY <1>1, ConversionsBegin, ConversionsStep, PTL DEF HandlersSpec
=============================================================================
