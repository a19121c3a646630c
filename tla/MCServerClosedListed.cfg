CONSTANTS
    s1 = s1
    k1 = k1
    Streams = {s1}
    Addrs = {s1}
    AddrOf <- OwnAddr
    To <- ToFirst
    Requests = {}
    TimedRequests = {}
    Events = {}
    AddrCalls = {}
    ClientCalls = {k1}
    Closers = {}
    EventCap = 1
    MaxMessages = 0
SPECIFICATION Spec
INVARIANTS ClosedNotListed
CHECK_DEADLOCK FALSE
