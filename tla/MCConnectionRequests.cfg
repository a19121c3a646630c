CONSTANTS
    r1 = r1
    r2 = r2
    Requests = {r1, r2}
    TimedRequests = {r1, r2}
    Events = {}
    Closers = {}
    IdSpace = 2
    EventCap = 1
    MaxFrames = 2
    MaxReplies = 1
SPECIFICATION Spec
INVARIANTS TypeOK OkIsOwnAnswer PendingIsAccountedFor
PROPERTIES KeepsPromise
SYMMETRY Symmetry
CHECK_DEADLOCK FALSE
