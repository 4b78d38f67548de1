SPECIFICATION FairSpec
CONSTANTS
    u1 = u1
    u2 = u2
    u3 = u3
    u4 = u4
    c1 = c1
    c2 = c2
    c3 = c3
    NoConn = NoConn
    Users = {u1, u2, u3, u4}
    Conns = {c1, c2, c3}
    MaxConnections = 2
    MinIdle = 1
INVARIANTS
    CapacityBound
    Exclusive
    NoLeak
    LastReleaseWakes
PROPERTY
    StopClosesAll
