SPECIFICATION FairSpec
CONSTANTS
    in1 = in1
    in2 = in2
    out = out
    None = None
    Ports <- ThreePorts
    Inputs <- TwoInputs
    Ids = {0, 1}
    FifoSize = 1
    Calls = {TRUE, FALSE}
    MaxEvents = 2
INVARIANTS TypeOK  OnlyOwnEvents OpenPortsHear
PROPERTIES EventsServed
CHECK_DEADLOCK FALSE
