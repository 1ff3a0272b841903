CONSTANTS
    Thread = {t1, t2, t3, t4}
    Sem = {mutex, next, c1, c2}
    Cond = {c1, c2}
    Mutex = mutex
    NextSem = next
    Idle = idle
    NULL = NULL
    MaxValue = 1
SPECIFICATION MonSpec
INVARIANTS
    OneMonitor
PROPERTY
    ImplementsHoare
CHECK_DEADLOCK FALSE
