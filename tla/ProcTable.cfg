CONSTANTS
    MAX_PID = 6
    MAX_PROCESS = 5
    Idle = 0
    InitProc = 1
    User = {2, 3, 4, 5}
    NULL = NULL
    Sleeper = {2, 3, 4, 5}
    MaxTicks = 2
    MaxArmed = 3
SPECIFICATION TableSpec
INVARIANTS
    DoublyLinked
    WalkFindsChildren
    PidFresh
PROPERTIES
    ImplementsTimers
    ScanEnds
