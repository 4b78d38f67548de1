SPECIFICATION WheelSpec
CONSTANTS
    u1 = u1
    u2 = u2
    TickInterval <- MCTickInterval
    SlotCount <- MCSlotCount
    Uuids = {u1, u2}
    Timeouts = {0, 3, 6, 24}
    MaxLate = 6
INVARIANTS NothingLost 
PROPERTIES FinalMeansFinal TasksEnd
CHECK_DEADLOCK FALSE
