SPECIFICATION TypedSpec
CONSTANTS
    Transports = {FALSE, TRUE}
    Requests = {r1, bad}
    Encodable = {r1}
    Deadlines = {"none", "armed"}
    Heads <- MCHeads
    Items = {"Message"}
    Trailers = {"absent", "OK"}
    ReadsToEnd = FALSE
    Droppable = {"head", "write", "midwrite", "read", "close"}
    MayRearm = TRUE
    MaxSends = 2
    MaxResponses = 2
    MaxRequests = 2
    MayReawait = FALSE
    Shapes = {"unary", "client_streaming", "server_streaming", "bidi"}
INVARIANTS
    HandleTypeOK
    OneResponseVerdict
    RequestFitsShape
    AnswerHasMetadata
    HonestOutcome
PROPERTIES
    QuietOnceCancelled
    MetadataKept
    AwaitedCallsEnd
CHECK_DEADLOCK FALSE
