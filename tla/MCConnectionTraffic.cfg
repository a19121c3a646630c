CONSTANTS
    r1 = r1
    r2 = r2
    e1 = e1
    Requests = {r1, r2}
    TimedRequests = {}
    Events = {e1}
    Closers = {}
    IdSpace = 1
    EventCap = 1
    MaxFrames = 2
    MaxReplies = 1
SPECIFICATION Spec
INVARIANTS NoRequestForgotten SenderOutlivesLoop WireInOrder DeliveredInOrder
SYMMETRY Symmetry
CHECK_DEADLOCK FALSE
