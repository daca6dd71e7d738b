SPECIFICATION Spec
CONSTANTS
    Hops = {h1, h2}
    NoHop = none
    Macs = {m1}
    Packets = {p1, p2}
    MAX_REQUESTS = 2
    ARP_DEPTH = 1
    CliOps = {"del"}
INVARIANTS
    NoPacketLost
