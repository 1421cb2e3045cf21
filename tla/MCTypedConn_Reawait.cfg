SPECIFICATION TypedSpec
CONSTANTS
    Transports = {FALSE, TRUE}
    Requests = {r1, bad}
    Encodable = {r1}
    Deadlines = {"none", "armed"}
    Heads <- MCHeads
    Items = {"Message"}
    Trailers = {"OK"}
    ReadsToEnd = FALSE
    Droppable = {}
    MayRearm = FALSE
    MaxSends = 1
    MaxResponses = 3
    MaxRequests = 1
    MayReawait = TRUE
    Shapes = {"unary"}
INVARIANTS
    OneResponseVerdict
CHECK_DEADLOCK FALSE
