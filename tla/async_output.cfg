SPECIFICATION FairSpec
CONSTANTS
    t1 = t1
    t2 = t2
    None = None
    Tasks <- BothTasks
    InputTasks = {}
    OutputTasks <- SecondTask
    CancelledTasks = {}
    LateTimeoutLoses = TRUE
    Capacity = 1
    MaxEvents = 1
    MaxOutputs = 3
PROPERTIES OutputResumes
CHECK_DEADLOCK FALSE
