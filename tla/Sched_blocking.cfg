SPECIFICATION FairSpec
CONSTANTS
    Proc = {i, a, b}
    InitProc = i
    Idle = Idle
    SleepObj = SleepObj
    FutexObj = FutexObj
    None = None
    Calls = {"spawn", "exit", "yield", "other", "waitpid", "sleep", "futex"}
    Addr = {x, y}
    WakeCounts = {2}
    SleepTicks = {2}
    RecheckTicks = 1
    Signals = {}
    Hotkey = {a}
    Preemptive = FALSE
    MaxLeak = 1
INVARIANTS
    LinksConsistent
    QueueConsistent
    RunnableFound
    NoStranded
PROPERTIES
    SleepersWake
    
