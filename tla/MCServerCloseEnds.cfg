CONSTANTS
    s1 = s1
    e1 = e1
    r1 = r1
    x1 = x1
    Streams = {s1}
    Addrs = {s1}
    AddrOf <- OwnAddr
    To <- ToFirst
    Requests = {r1}
    TimedRequests = {}
    Events = {e1}
    AddrCalls = {}
    ClientCalls = {}
    Closers = {x1}
    EventCap = 1
    MaxMessages = 2
SPECIFICATION PromptSpec
PROPERTIES CloseEndsServer
CHECK_DEADLOCK FALSE
