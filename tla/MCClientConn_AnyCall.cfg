SPECIFICATION Spec
CONSTANTS
    Transports = {FALSE, TRUE}
    Requests = {r1, bad}
    Encodable = {r1}
    Deadlines = {"none", "armed"}
    Heads <- MCHeads
    Items = {"Message", "Internal"}
    Trailers = {"absent", "nostatus", "OK", "Aborted"}
    ReadsToEnd = FALSE
    Droppable = {"write", "read", "close"}
    MayRearm = FALSE
    MaxSends = 2
    MaxResponses = 2
    MaxRequests = 2
INVARIANTS
    TypeOK
    OneRequest
    SentIsFired
    HonestOutcome
PROPERTIES
    RacedCallsResolve
    ErrIsFinal
    TornIsLast
    KeepsPromise
