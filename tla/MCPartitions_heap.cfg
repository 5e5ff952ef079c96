CONSTANTS
    WordMod = 16
    RamLo = 2
    RamHi = 9
    MaxSegments = 5
    Owners = {1, 2}
    Asks <- Small
    Regions <- Fixed
    MemAuto <- AnyPlace
    Configs <- All
SPECIFICATION PSpec
INVARIANTS HeapSound MappedIsPrivate
PROPERTIES NothingLost
CHECK_DEADLOCK FALSE
