SPECIFICATION Spec
CONSTANTS
    Users <- WaitingClient
    BufSize = 3
    PoolSize = 2
    Room = 1
    MaxLog = 8
INVARIANTS WaitedEventIntact
CHECK_DEADLOCK FALSE
