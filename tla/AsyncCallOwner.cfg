SPECIFICATION Spec
CONSTANTS
    f1 = f1
    f2 = f2
    g1 = g1
    w1 = w1
    o1 = o1
    o2 = o2
    o3 = o3
    o4 = o4
    o5 = o5
    o6 = o6
    NoCall = NoCall
    NoObject = NoObject
    Tick = Tick
    Scan = Scan
    FuncCalls = {f1, f2}
    FutureCalls = {}
    Workers = {w1}
    Objects = {o1, o2, o3, o4, o5, o6}
    MaxReplies = 1
    ConsumersRelease = TRUE
    Reentrant = FALSE
INVARIANT
    CallbackOwnsResponse
CHECK_DEADLOCK FALSE
