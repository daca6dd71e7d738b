SPECIFICATION Spec
CONSTANTS
    a = a
    b = b
    c = c
    Routers = {a, b, c}
    Links <- MCLinks
    LSUINT = 2
    SEQ_MOD = 16
    TTL = 64
    StartSeq <- MCStartSeq
    MayFail <- MCMayFail
    MaxFaults = 1
    Lossy <- MCLossy
    MaxLost = 1
INVARIANTS
    TypeOK
PROPERTY
    Converges
