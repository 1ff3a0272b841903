CONSTANTS
    N = 4
    TIMES = 1
    SEMA_TIMES = 2
    Thread = {0, 1, 2, 3}
    Sem = {0, 1, 2, 3, mutex, next}
    Cond = {0, 1, 2, 3}
    Mutex = mutex
    NextSem = next
    Idle = idle
    NULL = NULL
    MaxValue = 1
SPECIFICATION CheckSpec
INVARIANTS
    NeighboursNeverEat
    HungryRemembered
PROPERTY
    DinnerEnds
CHECK_DEADLOCK FALSE
