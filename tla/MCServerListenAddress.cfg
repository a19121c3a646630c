CONSTANTS
    s1 = s1
    s2 = s2
    s3 = s3
    g1 = g1
    Streams = {s1, s2, s3}
    Addrs = {s1, s2, s3}
    AddrOf <- OwnAddr
    To <- ToFirst
    Requests = {}
    TimedRequests = {}
    Events = {}
    AddrCalls = {g1}
    ClientCalls = {}
    Closers = {}
    EventCap = 1
    MaxMessages = 0
SPECIFICATION FairSpec
PROPERTIES ListenAddressAnswered
CHECK_DEADLOCK FALSE
