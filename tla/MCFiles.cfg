CONSTANTS
    NDIRECT = 1
    NENTRY = 2
    BLKSIZE = 2
    Data = {1, 2, 3}
    Procs = {p1, p2}
    First = p1
    FDs = {0, 1}
    Kept = {0}
    Inos = {f, g}
    Positions = {2, 5}
    None = None
    MaxOpen = 2
    MaxLeaks = 1
SYMMETRY InoSymmetry
SPECIFICATION Spec
INVARIANTS
    CountsExact
    BlocksAccounted
    CleanOnDisk
PROPERTY
    ImplementsOpenFiles
CHECK_DEADLOCK FALSE
