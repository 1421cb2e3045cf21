SPECIFICATION Spec
CONSTANTS
    Shapes = {"unary", "client_streaming", "server_streaming", "bidi"}
    Heads <- MCHeads
    Items = {"Message", "Undecodable", "TooBig"}
    HandlerStatuses = {"OK", "Aborted"}
    FrameLen = 2
    MaxItems = 2
    MaxReplies = 2
    MaxFrames = 3
INVARIANTS
    TypeOK
    HonestStatus
    WholeFrames
    ReadsFrames
    ExactlyOneRequest
    MetadataRides
PROPERTIES
    QuietOnShutdown
    TornIsLast
    KeepsPromise
    RacesResolve
    CallsEnd
CHECK_DEADLOCK FALSE
