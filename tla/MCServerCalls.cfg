CONSTANTS
    s1 = s1
    r1 = r1
    r2 = r2
    x1 = x1
    Streams = {s1}
    Addrs = {s1}
    AddrOf <- OwnAddr
    To <- ToFirst
    Requests = {r1, r2}
    TimedRequests = {r1}
    Events = {}
    AddrCalls = {}
    ClientCalls = {}
    Closers = {x1}
    EventCap = 1
    MaxMessages = 2
SPECIFICATION FairSpec
INVARIANTS TypeOK EventsInOrder ConnectedAreListed NoCallForgotten
PROPERTIES ServerWaitIsForever ShutdownCompletes ConnectionsAreViews
CHECK_DEADLOCK FALSE
