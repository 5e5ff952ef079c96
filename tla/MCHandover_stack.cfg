SPECIFICATION Spec
CONSTANTS
    p = p
    q = q
    a = a
    b = b
    e = e
    NoCpu = NoCpu
    NoVcpu = NoVcpu
    CPU = {p, q}
    VCPU = {a, b, e}
    Boot <- MCBoot
    Wrap = 4
INVARIANTS
    OneStack
