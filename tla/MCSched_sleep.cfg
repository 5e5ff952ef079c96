SPECIFICATION Spec
CONSTANTS
    a = a
    b = b
    e = e
    i0 = i0
    i1 = i1
    NoVcpu = NoVcpu
    NCpu = 2
    VCPU <- MCVcpu
    PrioLowest = 3
    Prio <- MCPrio
    Affinity <- MCFree
    IdleOf <- MCIdleOf
    Mains = {a, b, e}
    Slice = 1
    Delays = {1}
    Ops = {"sleep", "spin"}
    StrayWakeup = FALSE
INVARIANTS
    TypeOK
    OnePlace
    OneCpu
    RunsCandidate
    LockAccounting
    IpiNotLost
    RotCovers
PROPERTIES
    HolderKeepsCpu
    FairPreemption
