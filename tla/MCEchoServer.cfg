CONSTANTS
    s1 = s1
    g1 = g1
    k1 = k1
    Streams = {s1}
    Addrs = {s1}
    AddrOf <- OwnAddr
    To <- ToSender
    Requests = {}
    TimedRequests = {}
    Events <- Echoes
    AddrCall = g1
    AddrCalls = {g1}
    ClientCalls = {k1}
    Closers = {}
    EventCap = 1
    MaxMessages = 5
    Asked = {3}
SPECIFICATION EchoSpec
INVARIANTS EchoesWithoutGap
PROPERTIES EchoWaitIsForever MainReturns
CHECK_DEADLOCK FALSE
