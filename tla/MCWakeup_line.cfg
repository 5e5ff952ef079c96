SPECIFICATION FairSpec
CONSTANTS
    a = a
    b = b
    e = e
    s = s
    Nil = Nil
    Node = {a, b, e, s}
    Ipc = {s}
    Delay = {0, 1, 2, 3}
INVARIANTS
    LineOK
PROPERTIES
    KeepsTime
    SleepOver
