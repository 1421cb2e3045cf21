SPECIFICATION FairPeerSpec
CONSTANTS
    Transports = {TRUE}
    Requests = {r1}
    Encodable = {r1}
    Deadlines = {"none"}
    Heads <- MCFewHeads
    Items = {"Message"}
    Trailers = {"OK"}
    ReadsToEnd = TRUE
    Droppable = {}
    MayRearm = FALSE
    MaxSends = 1
    MaxResponses = 1
    MaxRequests = 1
PROPERTIES
    CloseSendHalfCloses
