CONSTANTS
    c1 = c1
    c2 = c2
    Clients = {c1, c2}
    Server = srv
    None = none
    Priority <- Apart
    PrioMax = 3
    SignalMod = 8
    Ops = {"call"}
    Circumstances <- Between
CHECK_DEADLOCK FALSE
SPECIFICATION Spec
INVARIANT SleepersKnown
