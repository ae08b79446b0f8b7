SPECIFICATION FairSpec
CONSTANTS
    Proc = {i, a, b}
    InitProc = i
    Idle = Idle
    SleepObj = SleepObj
    FutexObj = FutexObj
    None = None
    Calls = {"spawn", "exit", "waitpid", "kill", "killself"}
    Addr = {}
    WakeCounts = {}
    SleepTicks = {1}
    RecheckTicks = 1
    Signals = {}
    Hotkey = {a}
    Preemptive = TRUE
    MaxLeak = 1
PROPERTIES
    EveryoneRuns
    DeadLeavesCPU
