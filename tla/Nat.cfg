SPECIFICATION Spec
CONSTANTS
    Hosts <- MCHosts
    Wan = 11
    InsidePorts <- MCInsidePorts
    OutsidePorts <- MCOutsidePorts
    StaticPorts <- MCStaticPorts
    DrawnPorts <- MCDrawnPorts
    ByteOrders <- MCByteOrders
    WORD = 16
    MAX_ENTRIES = 3
INVARIANTS TypeOK ChecksumsCarryOver TypedInTakesEffect
PROPERTIES ConnectionsKeepTheirPairs
CHECK_DEADLOCK FALSE
