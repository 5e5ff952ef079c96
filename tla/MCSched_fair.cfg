SPECIFICATION FairSpec
CONSTANTS
    a = a
    b = b
    e = e
    i0 = i0
    i1 = i1
    NoVcpu = NoVcpu
    NCpu = 2
    VCPU <- MCVcpu
    PrioLowest = 3
    Prio <- MCPrio
    Affinity <- MCBound
    IdleOf <- MCIdleOf
    Mains = {a, b}
    Slice = 1
    Delays = {0, 2}
    Ops = {"sleep"}
    StrayWakeup = FALSE
PROPERTIES
    RotServed
    SleepEnds
