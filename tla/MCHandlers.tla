----------------------------- MODULE MCHandlers -----------------------------
(***************************************************************************)
(* Handlers on a small instance, for TLC: what clients ask, what the       *)
(* vendor answers and what operators type are small sets that hold a valid *)
(* case and one for each way to be refused.                                *)
(***************************************************************************)
EXTENDS Handlers, TLC

CONSTANTS p1, p2, s1, s2, a1, a2

Symmetry == Permutations({p1, p2}) \cup Permutations({s1, s2})
            \cup Permutations({a1, a2})

-----------------------------------------------------------------------------
Url == [scheme |-> "https", length |-> 1, host |-> TRUE, credentials |-> FALSE]
Data == [scheme |-> "data", mime |-> "png", encoded |-> 8, padding |-> 1,
         decodes |-> TRUE, holds |-> "png"]

\* One request that is drawn, and one for each way to be refused.
Drawing == [key |-> "right", json |-> TRUE, model |-> 1, prompt |-> 1, n |-> "absent",
            quality |-> "absent", background |-> "auto",
            size |-> [kind |-> "pixels", length |-> 2, width |-> 1, height |-> 1],
            hasImages |-> FALSE, images |-> <<>>]
Inline(url) == [type |-> "inline", url |-> url]
Editing(images) == [Drawing EXCEPT !.hasImages = TRUE, !.images = images]
MCImageRequests ==
    {Drawing, [Drawing EXCEPT !.key = "wrong"], [Drawing EXCEPT !.json = FALSE],
     [Drawing EXCEPT !.size.width = 0], Editing(<<>>),
     Editing(<<Inline(Url), [type |-> "file", id |-> 1]>>),
     Editing(<<Inline(Data)>>), Editing(<<Inline([Data EXCEPT !.padding = 0])>>)}
Picture == [decodes |-> TRUE, bytes |-> 1, holds |-> "png"]
Body == [status |-> "ok", length |-> 1, json |-> TRUE, error |-> FALSE,
         pictures |-> <<Picture>>]
MCBodies ==
    {Body, [Body EXCEPT !.length = 3],
     [Body EXCEPT !.pictures = <<Picture, [Picture EXCEPT !.holds = "page"]>>],
     [Body EXCEPT !.pictures = <<>>, !.json = FALSE, !.status = "429"],
     [Body EXCEPT !.pictures = <<>>, !.error = TRUE, !.status = "429"],
     [Body EXCEPT !.pictures = <<>>, !.status = "500"]}

\* Requests that differ from a valid one in one respect.
Image(url) == [type |-> "image_url", url |-> url, detail |-> "auto"]
Message(role, parts) == [role |-> role, kind |-> "parts", parts |-> parts]
Text == [role |-> "system", kind |-> "text", parts |-> <<>>]
Search(uses) == [type |-> "web_search", uses |-> uses]
Function(length) == [type |-> "function", length |-> length, plain |-> TRUE]
Asking == [key |-> "right", json |-> "ok", tier |-> "absent", model |-> "m1",
           effort |-> "high", tools |-> <<>>, messages |-> <<Text>>]
Saying(ms) == [Asking EXCEPT !.messages = ms]
Using(tools) == [Asking EXCEPT !.tools = tools]
MCChatRequests ==
    {[Asking EXCEPT !.model = model, !.effort = effort] :
         model \in {"", "m1", "hidden", "mini"},
         effort \in {"minimal", "high", "turbo", "unset"}}
    \cup {[Asking EXCEPT !.key = "wrong"], [Asking EXCEPT !.json = "large"],
          [Asking EXCEPT !.json = "broken"], [Asking EXCEPT !.tier = "other"]}
    \cup {Using(<<Function(64), Search(99)>>), Using(<<Search(2), Function(65)>>),
          Using(<<Search(3)>>), Using(<<Search(1), Function(1), Search(1)>>)}
    \cup {Saying(<<Text, Message("user", <<[type |-> "text"], Image(Url)>>),
                   Message("user", <<Image(Data)>>)>>),
          Saying(<<Message("user", <<Image(Url)>>),
                   Message("user", <<Image(Data), Image(Url)>>)>>),
          Saying(<<Message("tool", <<Image(Url)>>)>>), Saying(<<Message("user", <<>>)>>),
          Saying(<<Message("user", <<Image([Data EXCEPT !.padding = 0])>>)>>),
          [Saying(<<Message("user", <<[Image(Url) EXCEPT !.detail = "original"]>>)>>)
              EXCEPT !.model = "mini"]}
Model(slug, efforts, default) ==
    [slug |-> slug, listed |-> slug # "hidden", efforts |-> efforts, default |-> default]
MCCatalogs ==
    {<<Model("m1", <<"low", "medium">>, "low"), Model("hidden", <<>>, "")>>,
     <<Model("mini", <<"max", "high">>, "zen"), Model("m1", <<"low", "turbo">>, "turbo")>>,
     <<Model("hidden", <<"low", "xhigh">>, "xhigh"), Model("mini", <<"zen">>, "zen")>>}

\* A conversation with every role, calls of tools and their results.
Opening == [model |-> "m", effort |-> "none", key |-> "absent", tier |-> "absent",
            tools |-> <<>>]
MCOpenings ==
    {[Opening EXCEPT !.effort = "high"], [Opening EXCEPT !.key = "k", !.tier = "fast"],
     [Opening EXCEPT !.tools = <<[type |-> "function", option |-> "absent"],
                                 [type |-> "web_search", option |-> "false"]>>]}
Said == [role |-> "user", text |-> "hi", parts |-> "hi", calls |-> <<>>,
         answers |-> "absent"]
MCMessages ==
    {Said, [Said EXCEPT !.role = "system", !.text = "be"],
     [Said EXCEPT !.role = "assistant", !.text = "", !.calls = <<"x", "y">>],
     [Said EXCEPT !.role = "assistant", !.text = "so", !.calls = <<"z">>],
     [Said EXCEPT !.role = "tool", !.text = "r", !.answers = "x"],
     [Said EXCEPT !.role = "tool", !.text = "q"],
     [Said EXCEPT !.role = "critic", !.text = "c"]}
Unset == [effort |-> "absent", mode |-> "absent", parallel |-> "absent", agents |-> FALSE]
MCEnvironments ==
    {Unset, [effort |-> "high", mode |-> "minimal", parallel |-> "off", agents |-> TRUE]}
MCPatches ==
    {[mode |-> "minimal", reasoning |-> "none"], [extra |-> "mine", parallel |-> FALSE],
     [mode |-> "other"], [nonsense |-> 1]}

\* A line end of each kind, a letter, and the bytes of longer characters.
MCStreamBytes == {"a", "\n", "\r", "2", "3", "4", "c", "x"}

\* Markers, links, parentheses, tags and spaces, whole and broken off.
MCPieces ==
    {<<"word">>, <<" ", " ", "word">>, <<"OPEN", "word", "CLOSE">>, <<"word", "OPEN">>,
     <<"word", " ", "CLOSE">>, <<" ", "MARK", ".", "word">>,
     <<"[", "word", "]", "(", "URL", "(", "?", "TAG", ")", ")">>,
     <<"(", "word", "?", "TAG", "&", "TAG">>, <<"TAG", "word", "]">>}
MCWords == <<"w1", "w2">>

\* Windows that are open, almost and wholly used up; resets past, near and far.
MCWindows ==
    {Absent} \cup [used : {Unknown, 99, 100}, at : {Unknown, 2, 9}, within : {Unknown, 0, 4}]
MCRefusals ==
    {<<>>} \cup [1..3 -> {Absent} \cup [at : {Unknown, 0, 9}, within : {Unknown, -1, 0, 4}]]

\* Documents with repetitions, ties, hidden models, and priorities left out.
Item(slug, visibility, priority) ==
    [slug |-> slug, visibility |-> visibility, priority |-> priority, tiers |-> Absent]
Tiered(slug, tiers) == [Item(slug, "list", 1) EXCEPT !.tiers = tiers]
MCDocuments ==
    {<<>>, <<Item("", Absent, 1), Item(Absent, Absent, 1)>>, <<Item("a", "hide", Absent)>>,
     <<Item("a", Absent, Absent), Item("b", "none", 2), Item("", Absent, 0),
       Item("a", Absent, 0)>>,
     <<Item("b", "list", 1), Item("c", "hide", 1), Item("a", "list", 0),
       Item("d", "list", 1)>>,
     <<Tiered("e", <<Absent>>), Tiered("b", <<>>), Tiered("c", <<Absent, "fast">>)>>}
MCExtras == {<<>>, <<"a">>, <<"d", "", "b", "d", "e">>}
MCFallback == <<"a", "f">>

\* Grants that sign in, and those that lack something or are malformed.
Grant == [id |-> "raw", plan |-> "pro", named |-> "acc", accessNamed |-> "acc",
          access |-> "t1", refresh |-> "r1", life |-> 2]
MCGrants ==
    {Grant, [Grant EXCEPT !.named = "", !.plan = "business", !.life = -1],
     [Grant EXCEPT !.id = "opaque"], [Grant EXCEPT !.id = "short"],
     [Grant EXCEPT !.refresh = ""], [Grant EXCEPT !.access = "blank"],
     [Grant EXCEPT !.named = "", !.accessNamed = ""]}
MCTokenAnswers ==
    {[id |-> "raw", plan |-> "pro", access |-> "t2", life |-> 2, refresh |-> Absent],
     [id |-> "raw", plan |-> "pro", access |-> "t2", life |-> -1, refresh |-> "r2"],
     [id |-> "raw", plan |-> "business", access |-> Absent, life |-> 0, refresh |-> "r2"],
     [id |-> "opaque", plan |-> Absent, access |-> "t3", life |-> 2, refresh |-> "r3"]}
OldFile == [key |-> FALSE, tokens |-> TRUE, id |-> "fields", plan |-> "plus",
            access |-> [text |-> "t0", exp |-> 1], refresh |-> "r0", account |-> "acc",
            since |-> 0]
MCOldFiles ==
    {Absent, OldFile, [OldFile EXCEPT !.key = TRUE, !.id = "raw"],
     [OldFile EXCEPT !.key = TRUE, !.tokens = FALSE, !.since = Absent],
     [OldFile EXCEPT !.id = "opaque"], [OldFile EXCEPT !.account = Absent]}
MCCandidates == <<"alias", "py">>

\* The one field of the page.
MCInputs == <<"model">>
=============================================================================
