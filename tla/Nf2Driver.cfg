SPECIFICATION Spec
CONSTANTS
    MAX_IFACE = 2
    tx_pool_size = 2
    Machines <- MCMachines
INVARIANTS
    TypeOK
    BuffersAccounted
    OneTransfer
PROPERTIES
    PacketsLeave
    ReceptionGoesOn
CHECK_DEADLOCK FALSE
