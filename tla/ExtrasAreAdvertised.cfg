\* Each part stops at its own bounds.
CHECK_DEADLOCK FALSE
SPECIFICATION HandlersSpec
CONSTANTS
    Parts = {"list"}
    Unused = Unused
    Absent = Absent
    Unknown = Unknown
    None = "absent"
    NoText = NoText
    p1 = p1
    p2 = p2
    s1 = s1
    s2 = s2
    a1 = a1
    a2 = a2
    Polls = {p1, p2}
    NoPoll = NoPoll
    Slots = {s1, s2}
    NoSlot = NoSlot
    Accounts = {a1, a2}
    NoAccount = NoAccount
    CacheTtl = 1
    MaxTime = 1
    MaxChanges = 2
    MaxImages = 2
    MaxUrlBytes = 1
    MaxDataBytes = 5
    MaxUses = 2
    NoUses = 99
    PlainModel = "mini"
    Clients = {1, 2}
    ImageRequests <- MCImageRequests
    Bodies <- MCBodies
    MaxAnswer = 2
    MaxPicture = 2
    MaxPrompt = 1
    MaxName = 1
    MaxSize = 2
    MaxImageEdits = 2
    MaxMoves = 1
    ChatRequests <- MCChatRequests
    Catalogs <- MCCatalogs
    ConfigModel = ""
    ConfigEffort = "minimal"
    NoEffort = "unset"
    Discovery = TRUE
    MaxCatalogChanges = 3
    Openings <- MCOpenings
    Messages <- MCMessages
    Environments <- MCEnvironments
    Patches <- MCPatches
    Efforts = {"none", "high"}
    MaxMessages = 2
    MaxSettingsEdits = 2
    StreamBytes <- MCStreamBytes
    MaxBytes = 5
    MaxChunk = 3
    Pieces <- MCPieces
    Words <- MCWords
    Reach = 2
    MaxSpan = 2
    MaxSpans = 2
    Windows <- MCWindows
    Refusals <- MCRefusals
    Ages = {0, 3}
    Documents <- MCDocuments
    Extras <- MCExtras
    Fallback <- MCFallback
    MaxInt = 3
    Candidates <- MCCandidates
    Working = {"py"}
    PythonSettings = {Absent, "py", "typo"}
    Grants <- MCGrants
    TokenAnswers <- MCTokenAnswers
    OldFiles <- MCOldFiles
    MaxAge = 2
    Skew = 1
    MaxSignInTime = 4
    Inputs <- MCInputs
    Texts = {"a", "b", "?"}
    Faulty = {"?"}
    Clicks = {1}
    Requests = {1}
    MaxFieldEdits = 3
INVARIANTS ExtrasAreAdvertised
