SPECIFICATION SettingsSpec
CONSTANTS
    None = None
    Kinds <- AllKinds
    Types = {"NOTEON"}
    Names = {"a", "b"}
    Tempi = {500000}
    Ppqs = {48, 96}
    Skews = {0, 32768}
    Bpms = {60}
INVARIANTS TempoAsAsked
 
CHECK_DEADLOCK FALSE
