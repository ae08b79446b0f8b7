SPECIFICATION RQFairSpec
CONSTANTS
    Task = {a, b, c}
    Idle = Idle
    First = a
    Nices <- MCNices
    Ops = {"create", "block", "exit", "preempt", "nice"}
INVARIANTS
    QueuesExact
PROPERTIES
    DeadNotDispatched
    
    NoStarvation
