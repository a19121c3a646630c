CONSTANTS
    s1 = s1
    s2 = s2
    e1 = e1
    Streams = {s1, s2}
    Addrs = {s1}
    AddrOf <- OneAddr
    To <- ToFirst
    Requests = {}
    TimedRequests = {}
    Events = {e1}
    AddrCalls = {}
    ClientCalls = {}
    Closers = {}
    EventCap = 1
    MaxMessages = 0
SPECIFICATION Spec
INVARIANTS ConnectedAreListed
CHECK_DEADLOCK FALSE
