CONSTANTS
    e1 = e1
    e2 = e2
    r1 = r1
    f1 = f1
    f2 = f2
    f3 = f3
    c1 = c1
    RequestsA = {r1}
    EventsA = {e1, e2}
    ClosersA = {}
    ProgramA <- TellAsk
    RequestsB = {}
    EventsB = {f1, f2, f3}
    ClosersB = {c1}
    ProgramB <- TellClose
    IdSpace = 1
    EventCap = 1
    MaxFramesA = 4
    MaxFramesB = 3
    WireCap = 1
    MaxReplies = 1
SPECIFICATION LinkSpec
INVARIANTS ReceivedInOrder OkWasCompleted EverythingArrives PeerEnds
CHECK_DEADLOCK FALSE
