CONSTANTS
    ta = ta
    tb = tb
    CPU = {0, 1}
    VCPU = {ta, tb}
    None = None
    Tick = 2
    Devices <- OneDevice
    Raises = 2
    Boards <- Some
SPECIFICATION FairSpec
INVARIANTS HandledOnce TickReaches
PROPERTIES DeliveredByTick
