SPECIFICATION Spec
CONSTANTS
    Proc = {1, 2, 3}
    Chan = {c1}
    NoChan = NoChan
    MaxHandle = 2
    NGrants = 1
    GenMod = 2
    MaxGrants = 3
    Bindings <- MCBindings
INVARIANTS
    ChannelRefExact
    StaleIdRefused
    GrantForOne
    
