SPECIFICATION FairSpec
CONSTANTS
    c1 = c1
    c2 = c2
    NoConn = NoConn
    Conns = {c1, c2}
    Talkers = {c1}
    Timers = {1, 2}
    Repeated = {1, 2}
    MaxCalls = 2
    MaxStarts = 2
    MaxInits = 2
INVARIANTS
    UpHasScan
    NoCrossedAnswer
    ForeignCloseNeedsOverlap
PROPERTIES
    ShutdownSettles
    StopIsFinal
