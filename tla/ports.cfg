SPECIFICATION Spec
CONSTANTS
    c1 = c1
    c2 = c2
    o1 = o1
    o2 = o2
    o3 = o3
    None = None
    MaxSubs = 2
    Clients <- TwoClients
    Addresses <- ThreeAddresses
    Objects <- ThreeObjects
    TypeLists <- BothTypes
SYMMETRY Symmetry
INVARIANTS TypeOK ObjectForPort SubscribedAsMeant
PROPERTIES ListedRight ImplementsGraph
CHECK_DEADLOCK FALSE
