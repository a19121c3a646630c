CONSTANTS
    s1 = s1
    s2 = s2
    g1 = g1
    x1 = x1
    Streams = {s1, s2}
    Addrs = {s1, s2}
    AddrOf <- OwnAddr
    To <- ToFirst
    Requests = {}
    TimedRequests = {}
    Events = {}
    AddrCalls = {g1}
    ClientCalls = {g1}
    Closers = {x1}
    EventCap = 1
    MaxMessages = 0
SPECIFICATION FairSpec
INVARIANTS TasksOutliveLoop AnnouncedAreClosed
PROPERTIES ShutdownCompletes
CHECK_DEADLOCK FALSE
