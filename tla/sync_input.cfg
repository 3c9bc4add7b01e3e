SPECIFICATION FairSpec
CONSTANTS
    Timeouts <- SomeTimeouts
    Second = 2
    FifoSize = 3
    BufSize = 2
    Undecodable = {2}
    MaxEvents = 6
INVARIANTS TypeOK GapsReported SleepsRight
PROPERTIES NoneFoundNothing CallsReturn
CHECK_DEADLOCK FALSE
