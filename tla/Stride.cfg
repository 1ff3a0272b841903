CONSTANTS
    Thread = {p1, p2, p3}
    idleproc = idleproc
    None = None
    Half = 4
    Priority = {2}
    MAX_TIME_SLICE = 1
SPECIFICATION FairStrideSpec
INVARIANTS
    StridesClose
PROPERTY
    NobodyStarves
