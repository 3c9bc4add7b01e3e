SPECIFICATION Spec
CONSTANTS
    None = None
    Closed = Closed
    Billion = 4
    FlagSets <- SomeFlagSets
    Times <- SomeTimes
    Ticks = {2}
    Headers <- SomeHeaders
    Arguments <- SomeArguments
    Queues = {7, 8}
    Values = {"wide", "other"}
    Raws <- SomeRaws
    Wide = {"wide"}
    Sender = 130
    MaxHops = 2
INVARIANTS TimesNormalised AttributesSent ForwardedIntact 
CHECK_DEADLOCK FALSE
