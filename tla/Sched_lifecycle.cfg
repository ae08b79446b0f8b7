SPECIFICATION Spec
CONSTANTS
    Proc = {i, a, b, c}
    InitProc = i
    Idle = Idle
    SleepObj = SleepObj
    FutexObj = FutexObj
    None = None
    Calls = {"spawn", "exit", "waitpid", "yield", "kill", "signal", "procctl"}
    Addr = {}
    WakeCounts = {}
    SleepTicks = {1}
    RecheckTicks = 1
    Signals = {"USR1"}
    Hotkey = {}
    Preemptive = FALSE
    MaxLeak = 1
SYMMETRY MCSymmetry
INVARIANTS
    RefExact
    NoLostChildWakeup
    NoOrphan
PROPERTIES
    FreedOnlyReaped
