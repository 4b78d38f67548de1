SPECIFICATION FairSpec
CONSTANTS
    w1 = w1
    w2 = w2
    t1 = t1
    t2 = t2
    t3 = t3
    NoTask = NoTask
    Workers = {w1, w2}
    Tasks = {t1, t2, t3}
    Priority <- MCPriority
    OrExecute <- MCOrExecute
    Capacity = 2
    InitialWorkers = 1
    MaxWorkers = 2
    ScaleUpStep = 2
    ScalePercent = 80
    AutoScale = TRUE
INVARIANTS
    CapacityRespected
    WakeupPerTask
    QuietWhenStopped
    CounterAgrees
PROPERTIES
    
    PoolSettles
CHECK_DEADLOCK FALSE
