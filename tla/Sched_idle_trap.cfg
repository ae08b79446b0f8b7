SPECIFICATION FairSpec
CONSTANTS
    Proc = {i, a}
    InitProc = i
    Idle = Idle
    SleepObj = SleepObj
    FutexObj = FutexObj
    None = None
    Calls = {"spawn", "sleep", "exit"}
    Addr = {}
    WakeCounts = {}
    SleepTicks = {1}
    RecheckTicks = 1
    Signals = {}
    Hotkey = {}
    Preemptive = FALSE
    MaxLeak = 1
PROPERTIES
    IdleServes
