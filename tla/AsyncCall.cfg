SPECIFICATION FairSpec
CONSTANTS
    f1 = f1
    f2 = f2
    g1 = g1
    w1 = w1
    o1 = o1
    o2 = o2
    o3 = o3
    o4 = o4
    o5 = o5
    o6 = o6
    NoCall = NoCall
    NoObject = NoObject
    Tick = Tick
    Scan = Scan
    FuncCalls = {f1}
    FutureCalls = {g1}
    Workers = {w1}
    Objects = {o1, o2, o3, o4, o5, o6}
    MaxReplies = 1
    ConsumersRelease = TRUE
    Reentrant = TRUE
INVARIANTS
    AtMostOnce
    ChannelHasRoom
PROPERTIES
    EventuallyResolved
    SendReturns
    
CHECK_DEADLOCK FALSE
