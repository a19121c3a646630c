CONSTANTS
    r1 = r1
    e1 = e1
    Requests = {r1}
    TimedRequests = {}
    Events = {e1}
    Closers = {}
    IdSpace = 2
    EventCap = 1
    MaxFrames = 1
    MaxReplies = 1
SPECIFICATION FairSpec
PROPERTIES PeerCloseEndsConnection
CHECK_DEADLOCK FALSE
