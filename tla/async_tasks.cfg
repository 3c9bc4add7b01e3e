SPECIFICATION FairSpec
CONSTANTS
    t1 = t1
    t2 = t2
    None = None
    Tasks <- BothTasks
    InputTasks <- BothTasks
    OutputTasks <- BothTasks
    CancelledTasks <- BothTasks
    LateTimeoutLoses = TRUE
    Capacity = 1
    MaxEvents = 3
    MaxOutputs = 3
INVARIANTS TypeOK EventsAccounted TasksInOrder
PROPERTIES LossOnlyInTheRace 
CHECK_DEADLOCK FALSE
