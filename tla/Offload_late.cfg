SPECIFICATION OffSpec
CONSTANTS
    Pid = {1, 2}
    NoPid = 0
    Buf = {b1, b2}
    NoBuf = nobuf
    MaxTests = 2
CHECK_DEADLOCK FALSE
INVARIANTS
    KrefExact
    ResultRight
    NoPanic
PROPERTIES
    BuffersFreed
