SPECIFICATION Spec
CONSTANTS
    Contents <- OneName
    Versions <- TwoVersions
    Ifaces <- AllPorts
    Addrs = {a1}
    MAX_CTABLE_DEPTH = 3
    HW_DEPTH = 4
INVARIANTS
    TypeOK
    UniqueEntries
    HardwareMirrorsTable
    NeverTooManyMatches
    RedirectedToLiveEntry
    RequestPurgesStale
PROPERTIES
    EntriesLeaveForCause
    LruSpec
