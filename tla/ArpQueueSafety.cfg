SPECIFICATION Spec
CONSTANTS
    Hops = {h1, h2}
    NoHop = none
    Macs = {m1, m2}
    Packets = {p1, p2}
    MAX_REQUESTS = 2
    ARP_DEPTH = 1
    CliOps = {"add", "del", "nuke", "nuke hw"}
SYMMETRY Symmetry
INVARIANTS
    TypeOK
    QueueConsistent
PROPERTIES
    HardwareFollowsCache
