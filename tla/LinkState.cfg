SPECIFICATION Spec
CONSTANTS
    e0 = e0
    e1 = e1
    s0 = s0
    s1 = s1
    s2 = s2
    u = u
    B = B
    C = C
    NoRouter = NoRouter
    Null = Null
    Freed = Freed
    Direct = Direct
    Infinity = 100
    OurRid = u
    Others = {B, C}
    IfList <- MCIfList
    SubnetOf <- MCSubnetOf
    Attached <- MCAttached
    Advertised <- MCAdvertised
    SEQ_MOD = 2
    Commands = {"up", "down"}
INVARIANTS TypeOK NeighborsAdvertised RoutesUseNeighbors
PROPERTY ShortestRoutes
CHECK_DEADLOCK FALSE
