SPECIFICATION FairSpec
CONSTANTS
    None = None
    Systems <- SomeSystems
    Users = {1, 2}
    PortIds = {0, 1}
    Kinds <- SomeKinds
    Names <- UserNames
    Digits = {"8ch"}
    NumberOf <- Numbers
    Arguments <- SomeArguments
    MaxChanges = 3
INVARIANTS SteadyListedRight BestFirst DeviceFound
PROPERTIES ListingEnds
CHECK_DEADLOCK FALSE
