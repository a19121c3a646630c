CONSTANTS
    r1 = r1
    e1 = e1
    c1 = c1
    Requests = {r1}
    TimedRequests = {}
    Events = {e1}
    Closers = {c1}
    IdSpace = 2
    EventCap = 1
    MaxFrames = 1
    MaxReplies = 2
SPECIFICATION FairSpec
INVARIANTS RepliesAreAccountedFor
PROPERTIES CyclicWaitIsForever CloseCompletes RequestsEndAfterPeerClose ImplementsView
CHECK_DEADLOCK FALSE
