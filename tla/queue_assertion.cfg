SPECIFICATION Spec
CONSTANTS
    c1 = c1
    c2 = c2
    c3 = c3
    o1 = o1
    o2 = o2
    o3 = o3
    q1 = q1
    q2 = q2
    None = None
    UsageCalls = {TRUE, FALSE}
    Locks = {TRUE, FALSE}
    Clients <- TwoClients
    Objects <- ThreeObjects
    QueueIds <- TwoIds
INVARIANTS AssertionHolds
CHECK_DEADLOCK FALSE
