SPECIFICATION FairSpec
CONSTANTS
    u1 = u1
    u2 = u2
    o1 = o1
    o2 = o2
    NoUser = NoUser
    NoObject = NoObject
    Users = {u1, u2}
    Waiters = {u1}
    Timers = {u1, u2}
    Repeated = {}
    Objects = {o1, o2}
    MaxInits = 1
INVARIANTS
    
    StrayCancelIsLate
PROPERTIES
    WaiterReturns
CHECK_DEADLOCK FALSE
