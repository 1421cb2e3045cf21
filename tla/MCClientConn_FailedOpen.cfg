SPECIFICATION Spec
CONSTANTS
    Transports = {FALSE, TRUE}
    Requests = {r1}
    Encodable = {r1}
    Deadlines = {"none", "armed"}
    Heads <- MCFewHeads
    Items = {"Message"}
    Trailers = {"OK"}
    ReadsToEnd = FALSE
    Droppable = {}
    MayRearm = FALSE
    MaxSends = 1
    MaxResponses = 1
    MaxRequests = 1
PROPERTIES
    FailedToldOnce
