CONSTANTS
    c = c
    d = d
    Creator = {c, d}
    MaxOf <- Tables
    Null = Null
    Boards <- Some
    CPU = {0}
    VCPUs = 1
    PrioOf <- Prios
    Group = 2
SPECIFICATION TSpec
INVARIANTS Own Listed
PROPERTIES IsReadyTable
