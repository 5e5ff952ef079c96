CONSTANTS
    c1 = c1
    c2 = c2
    Clients = {c1, c2}
    Server = srv
    None = none
    Priority <- Apart
    PrioMax = 3
    SignalMod = 8
    Ops = {"send", "call"}
    Circumstances <- All
CHECK_DEADLOCK FALSE
SPECIFICATION FairSpec
INVARIANTS
    NothingLeftBehind
    MostUrgentFirst
    SignalCounts
    NoRequestForgotten
    NoLostSleeper
    OkIsAnswered
    CloseCounts
PROPERTIES
    PromiseKept
    UndecidedSleeps
    IpcEnds
