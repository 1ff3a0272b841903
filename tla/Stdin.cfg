CONSTANTS
    Reader = {r1, r2}
    Char = {a, b}
    Blank = Blank
    STDIN_BUFSIZE = 2
    IOBUF_SIZE = 2
    Lengths = {1, 3}
SPECIFICATION Spec
INVARIANTS
    SleepersQueued
PROPERTIES
    ImplementsInput
    InputServed
