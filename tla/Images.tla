------------------------------- MODULE Images -------------------------------
(***************************************************************************)
(* Images (src/core/images.rs, and the image handlers of src/lib.rs).  An  *)
(* image is paid for when the vendor draws it: one request of a client is  *)
(* one request to the vendor, and one that breaks off is never repeated.   *)
(*                                                                         *)
(* Several clients ask at the same time.  Meanwhile other traffic and the  *)
(* operator move the router, and a client may hang up at any await.        *)
(***************************************************************************)
EXTENDS ContentRules

CONSTANTS
    Clients,
    Slots,
    ImageRequests, \* what clients ask for
    Bodies,        \* the answers of the vendor
    MaxAnswer,     \* MAX_IMAGE_RESPONSE_BYTES, in chunks
    MaxPicture,    \* MAX_IMAGE_BYTES
    MaxPrompt, MaxName, MaxSize, MaxEdits,
    MaxMoves       \* bound on the moves of the router

VARIABLES
    active,  \* the router's active slot, or "none" when no slot can be leased
    moves,
    job,     \* the request of each client
    charged  \* history: the images the vendor drew for it

vars == <<active, moves, job, charged>>

\* A request has the pc it stands at, the slot it was sent through, the answer
\* of the vendor, the chunks of it that were read, and the reply.
NoBody == [status |-> "none", length |-> 0, json |-> FALSE, error |-> FALSE,
           pictures |-> <<>>]
Nothing == [pc |-> "idle", edit |-> FALSE, slot |-> "none", sent |-> 0,
            answer |-> NoBody, read |-> 0, reply |-> "none"]

Init ==
    /\ active \in Slots \cup {"none"} /\ moves = 0
    /\ job = [c \in Clients |-> Nothing]
    /\ charged = [c \in Clients |-> 0]

Become(c, r) == job' = [job EXCEPT ![c] = r]
Reply(c, reply) == Become(c, [job[c] EXCEPT !.pc = "answered", !.reply = reply])

\* ImageRequest::validate.  A text is its length, an empty one is 0.
ValidRequest(r, edit) ==
    /\ r.model \in 1..MaxName /\ r.prompt \in 1..MaxPrompt
    /\ r.n # "zero"
    /\ r.quality \in {"absent", "auto", "low", "medium", "high"}
    /\ r.background \in {"absent", "auto", "opaque", "transparent"}
    /\ \/ r.size.kind \in {"absent", "auto"}
       \/ r.size.length <= MaxSize /\ r.size.width > 0 /\ r.size.height > 0
    /\ IF ~edit THEN ~r.hasImages
       ELSE /\ r.hasImages /\ Len(r.images) \in 1..MaxEdits
            /\ \A i \in 1..Len(r.images) :
                   IF r.images[i].type = "inline"
                   THEN ValidUrl(r.images[i].url)
                   ELSE r.images[i].id \in 1..MaxName

\* key_ok: without a key of its own the relay asks for none.
KeyOk(r) == r.key \in {"unset", "right"}

Refusal(r, edit) ==
    IF ~KeyOk(r) THEN "invalid_api_key"
    ELSE IF ~r.json \/ ~ValidRequest(r, edit) THEN "invalid_image_request"
    ELSE "none"

\* image_handler: nothing is asked of the vendor before the request is valid.
Ask(c) ==
    /\ job[c].pc = "idle"
    /\ \E r \in ImageRequests, edit \in BOOLEAN :
         LET no == Refusal(r, edit) IN
         Become(c, [Nothing EXCEPT !.edit = edit,
                      !.pc = IF no = "none" THEN "leasing" ELSE "answered",
                      !.reply = no])
    /\ UNCHANGED <<active, moves, charged>>

\* lease_any_for_downstream may move the router to a standby; it may fail.
Lease(c) ==
    /\ job[c].pc = "leasing"
    /\ \/ /\ Reply(c, "subscription_needs_login")
          /\ UNCHANGED <<active, moves>>
       \/ /\ active # "none"
          /\ \E s \in Slots :
               /\ Become(c, [job[c] EXCEPT !.pc = "sending", !.slot = s])
               /\ active' = s
               /\ moves' = IF s = active THEN moves ELSE moves + 1
    /\ moves' <= MaxMoves
    /\ UNCHANGED charged

Send(c) ==
    /\ job[c].pc = "sending"
    /\ Become(c, [job[c] EXCEPT !.pc = "sent", !.sent = @ + 1])
    /\ UNCHANGED <<active, moves, charged>>

\* The vendor draws, whether or not anybody still waits for it.
Draw(c) ==
    /\ job[c].sent > charged[c]
    /\ charged' = [charged EXCEPT ![c] = @ + 1]
    /\ UNCHANGED <<active, moves, job>>

\* An answer with a picture is of a request that was drawn.
Answers(c) ==
    /\ job[c].pc = "sent"
    /\ \E body \in Bodies :
         /\ body.pictures # <<>> => charged[c] = job[c].sent
         /\ Become(c, [job[c] EXCEPT !.pc = "reading", !.answer = body])
    /\ UNCHANGED <<active, moves, charged>>

\* Mutant of BreaksOff: the request is sent again.
SendsAgain(c) ==
    /\ job[c].pc \in {"sent", "reading"}
    /\ Become(c, [job[c] EXCEPT !.pc = "sending", !.read = 0])
    /\ UNCHANGED <<active, moves, charged>>

\* No head, a torn body, or four minutes gone: nobody knows what became of it.
BreaksOff(c) ==
    /\ job[c].pc \in {"sent", "reading"}
    /\ Reply(c, "image_outcome_unknown")
    /\ UNCHANGED <<active, moves, charged>>

\* A chunk that would make the answer longer than the relay keeps ends it.
Chunk(c) ==
    /\ job[c].pc = "reading" /\ job[c].read < job[c].answer.length
    /\ IF job[c].read + 1 > MaxAnswer
       THEN Reply(c, "image_response_too_large")
       ELSE Become(c, [job[c] EXCEPT !.read = @ + 1])
    /\ UNCHANGED <<active, moves, charged>>

Usable(picture) ==
    /\ picture.decodes /\ picture.bytes \in 1..MaxPicture
    /\ picture.holds \in {"png", "jpeg", "webp"}

\* valid_image_response
ValidAnswer(body) ==
    /\ body.pictures # <<>>
    /\ \A i \in 1..Len(body.pictures) : Usable(body.pictures[i])

\* The vendor's own error keeps its status and its text: an image's 429 says
\* nothing of the text allowance, and the router is left alone.
Judge(c) ==
    LET body == job[c].answer IN
    /\ job[c].pc = "reading" /\ job[c].read = body.length
    /\ Reply(c, IF ~body.json THEN "invalid_image_response"
                ELSE IF body.status # "ok"
                     THEN IF body.error THEN "vendor" ELSE "image_upstream_error"
                ELSE IF ValidAnswer(body) THEN "pictures"
                ELSE "invalid_image_response")
    /\ UNCHANGED <<active, moves, charged>>

\* The client hangs up: what it asked for is dropped where it stands.
Leave(c) ==
    /\ job[c].pc \in {"leasing", "sending", "sent", "reading"}
    /\ Become(c, [job[c] EXCEPT !.pc = "gone"])
    /\ UNCHANGED <<active, moves, charged>>

\* A chat that fails over, or the operator, moves the router.
Move ==
    /\ moves < MaxMoves
    /\ \E s \in (Slots \cup {"none"}) \ {active} : active' = s
    /\ moves' = moves + 1
    /\ UNCHANGED <<job, charged>>

Next ==
    \/ Move
    \/ \E c \in Clients : Ask(c) \/ Lease(c) \/ Send(c) \/ Draw(c) \/ Answers(c)
                          \/ BreaksOff(c) \/ Chunk(c) \/ Judge(c) \/ Leave(c)

Spec == Init /\ [][Next]_vars

-----------------------------------------------------------------------------
(* Properties.                                                               *)

\* What a client may be charged for agrees with what it is told: at most one
\* picture is drawn for a request; a reply of the relay's own, before it asked,
\* means none; and pictures are passed on only whole, each of them usable.
HonestReplies ==
    \A c \in Clients :
        /\ charged[c] <= job[c].sent /\ job[c].sent <= 1
        /\ job[c].reply \in {"invalid_api_key", "invalid_image_request",
                             "subscription_needs_login"} => charged[c] = 0
        /\ job[c].reply = "pictures" =>
             /\ charged[c] = 1
             /\ job[c].read = job[c].answer.length /\ job[c].read <= MaxAnswer
             /\ \A i \in 1..Len(job[c].answer.pictures) :
                    Usable(job[c].answer.pictures[i])
=============================================================================
