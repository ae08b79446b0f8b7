SPECIFICATION CfgSpec
CONSTANTS
    Name = {"config.db", "ide", "boot.log"}
    NoName = "none"
    BootLog = "boot.log"
    BootMsg <- MCBootMsg
    BlockCount = 5
    InodeCount = 3
    DFS_DIRECT = 1
    DFS_PTRS_PER_BLOCK = 2
    MaxFaults = 1
    MaxCrashes = 1
    CFG_DB_NAME = "config.db"
    Key = {1, 2}
    Val = {3}
    CFG_MAX_ENTRIES = 2
    Saves <- MCSaves
INVARIANTS
    BlocksSound
    NoLeak
    Durable
    

    
