SPECIFICATION Spec
CONSTANTS
    Proc = {i, a, b}
    InitProc = i
    Idle = Idle
    SleepObj = SleepObj
    FutexObj = FutexObj
    None = None
    Calls = {"spawn", "exit", "waitpid", "yield", "procctl", "stop", "stopself", "signal"}
    Addr = {}
    WakeCounts = {}
    SleepTicks = {1}
    RecheckTicks = 1
    Signals = {"TSTP"}
    Hotkey = {}
    Preemptive = FALSE
    MaxLeak = 1
SYMMETRY MCSymmetry
INVARIANTS
    RefsCovered
PROPERTIES
    DeadStaysDead
