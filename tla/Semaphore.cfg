CONSTANTS
    Thread = {t1, t2, t3}
    Sem = {s1, s2}
    Idle = idle
    NULL = NULL
    MaxValue = 2
SPECIFICATION FairSpec
INVARIANTS
    QueueExact
    NobodyWaitsInVain
PROPERTIES
    ImplementsCounting
    DownReturns
CHECK_DEADLOCK FALSE
