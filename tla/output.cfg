SPECIFICATION FairSpec
CONSTANTS
    Users <- BothClients
    BufSize = 3
    PoolSize = 2
    Room = 1
    MaxLog = 9
INVARIANTS TypeOK BeginningAccepted
PROPERTIES   CallsReturn
CHECK_DEADLOCK FALSE
