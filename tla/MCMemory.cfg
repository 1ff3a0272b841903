SPECIFICATION Spec
CONSTANTS
    Procs = {1, 2}
    Idle = 0
    None = None
    Swapped = Swapped
    Vals = {0, 1}
    NFrames = 17
    NCheck = 2
    NPages = 5
    PTSpan = 3
    KSTACKPAGE = 2
    Images <- MCImages
    Stack <- MCStack
INVARIANTS
    PagesAccounted
    TlbCoherent
    EntriesFollowAreas
    FifoExact
PROPERTIES
    ImplementsUserMemory
CHECK_DEADLOCK FALSE
