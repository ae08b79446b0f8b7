SPECIFICATION Spec
CONSTANTS
    Cpu = {c0, c1}
    General = c0
    Worker = c1
    Space = {s1, s2, s3}
    Kernel = kernel
    Frame = {f1, f2}
    NoFrame = noframe
    NoCpu = nocpu
    NPages = 2
    Eager = {1}
    Lazy = {1}
    AnonBase = 2
    COW_MAX_OWNERS = 1
    MaxLost = 0
SYMMETRY Interchangeable
VIEW Seen
CONSTRAINT Bounded
CHECK_DEADLOCK FALSE
INVARIANT
    NextVaFree
