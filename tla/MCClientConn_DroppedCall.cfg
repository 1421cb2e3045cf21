SPECIFICATION Spec
CONSTANTS
    Transports = {FALSE, TRUE}
    Requests = {r1}
    Encodable = {r1}
    Deadlines = {"none", "armed"}
    Heads <- MCFewHeads
    Items = {"Message"}
    Trailers = {"OK"}
    ReadsToEnd = FALSE
    Droppable = {"head", "write", "midwrite", "read", "close"}
    MayRearm = FALSE
    MaxSends = 1
    MaxResponses = 1
    MaxRequests = 2
INVARIANTS
    PendingMeansNoIO
