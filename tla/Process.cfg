CONSTANTS
    Idle = idle
    InitProc = init
    User = {u1, u2}
    NULL = NULL
    AnyChild = AnyChild
    MAX_PROCESS = 7
    MaxSleep = 1
SPECIFICATION FairSpec
INVARIANTS
    RunQueueExact
    TimerInFrame
    SleeperHasWaker
PROPERTIES
    ImplementsFamily
    WaitReturns
    SleepReturns
    KilledExitsOrWaits
    OrphansReaped
