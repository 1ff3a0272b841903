CONSTANTS
    NDIRECT = 1
    NENTRY = 2
    BLKSIZE = 2
    Data = {1, 2}
    Procs = {p1}
    First = p1
    FDs = {0}
    Kept = {0}
    Inos = {f}
    Positions = {5}
    None = None
    MaxOpen = 1
    MaxLeaks = 0
SPECIFICATION Spec
INVARIANT
    TruncateAsserts
CHECK_DEADLOCK FALSE
