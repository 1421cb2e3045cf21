SPECIFICATION TypedSpec
CONSTANTS
    Transports = {FALSE, TRUE}
    Requests = {r1, bad}
    Encodable = {r1}
    Deadlines = {"none", "armed"}
    Heads <- MCHeads
    Items = {"Message"}
    Trailers = {"OK"}
    ReadsToEnd = FALSE
    Droppable = {}
    MayRearm = FALSE
    MaxSends = 1
    MaxResponses = 1
    MaxRequests = 1
    MayReawait = FALSE
    Shapes = {"unary", "client_streaming", "server_streaming", "bidi"}
INVARIANTS
    EnginePresent
CHECK_DEADLOCK FALSE
