---------------------------- MODULE ContentRules ----------------------------
(***************************************************************************)
(* What the relay accepts before it asks the vendor anything: the images,  *)
(* the message parts and the tools of a request (src/core/models.rs).      *)
(***************************************************************************)
EXTENDS Naturals, FiniteSets, Sequences

CONSTANTS
    MaxImages,    \* MAX_IMAGE_PARTS_PER_REQUEST
    MaxUrlBytes,  \* MAX_REMOTE_IMAGE_URL_BYTES
    MaxDataBytes, \* MAX_DATA_IMAGE_BYTES
    MaxUses,      \* MAX_WEB_SEARCH_USES
    NoUses,       \* a web_search tool without max_uses
    PlainModel    \* "gpt-5.4-mini", which takes no image in its original size

ImageTypes == {"png", "jpeg", "webp", "gif"}

\* The bytes that `encoded` characters of base64 stand for.
Decoded(url) == (url.encoded \div 4) * 3 - url.padding

\* validate_data_image_url: the length of the text bounds what is decoded, and
\* the decoded image is measured once more, without its padding.
ValidDataUrl(url) ==
    /\ url.mime \in ImageTypes
    /\ url.encoded > 0
    /\ url.encoded <= 4 * ((MaxDataBytes + 2) \div 3)
    /\ url.decodes /\ Decoded(url) <= MaxDataBytes
    /\ url.holds = url.mime

ValidRemoteUrl(url) ==
    /\ url.length <= MaxUrlBytes
    /\ url.scheme = "https" /\ url.host /\ ~url.credentials

\* validate_image_url
ValidUrl(url) ==
    IF url.scheme = "data" THEN ValidDataUrl(url) ELSE ValidRemoteUrl(url)

-----------------------------------------------------------------------------
(* A request is its model, its tools and its messages.  A message holds no   *)
(* content, a text, or a sequence of parts.                                  *)

PartsOf(message) == IF message.kind = "parts" THEN message.parts ELSE <<>>

IsImage(part) == part.type = "image_url"

Places(request) == UNION {{i} \X (1..Len(PartsOf(request.messages[i]))) :
                              i \in 1..Len(request.messages)}

At(request, place) == PartsOf(request.messages[place[1]])[place[2]]

Before(p, q) == p[1] < q[1] \/ (p[1] = q[1] /\ p[2] < q[2])

\* image_part_count
ImageParts(request) == {p \in Places(request) : IsImage(At(request, p))}

\* Mutant of Rank: the images are counted in each message anew.
RankInMessage(request, p) ==
    Cardinality({q \in ImageParts(request) : q[1] = p[1] /\ ~Before(p, q)})

\* The place of an image among those of the request.
Rank(request, p) == Cardinality({q \in ImageParts(request) : ~Before(p, q)})

FaultyImage(request, p) ==
    \/ request.messages[p[1]].role # "user"
    \/ Rank(request, p) > MaxImages
    \/ request.model = PlainModel /\ At(request, p).detail = "original"
    \/ ~ValidUrl(At(request, p).url)

Searches(request) ==
    {i \in 1..Len(request.tools) : request.tools[i].type = "web_search"}

FaultyTool(request, i) ==
    LET tool == request.tools[i] IN
    IF tool.type = "function"
    THEN tool.length \notin 1..64 \/ ~tool.plain
    ELSE \/ \E j \in Searches(request) : j < i
         \/ tool.uses # NoUses /\ tool.uses \notin 1..MaxUses

\* validate_content
ContentIsValid(request) ==
    /\ \A i \in 1..Len(request.tools) : ~FaultyTool(request, i)
    /\ \A i \in 1..Len(request.messages) :
           request.messages[i].kind = "parts" => request.messages[i].parts # <<>>
    /\ \A p \in ImageParts(request) : ~FaultyImage(request, p)
=============================================================================
