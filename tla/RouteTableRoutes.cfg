SPECIFICATION Spec
CONSTANTS
    e0 = e0
    e1 = e1
    g = g
    Bits <- MCBits
    Masks <- MCMasks
    Ifaces = {e0, e1}
    NoPort = noport
    Gateways = {g}
    NoGateway = direct
    StaticRoutes <- MCStatic
    LearnedRoutes <- MCLearned
    ROUTE_DEPTH = 3
    MAX_ROUTES = 5
INVARIANTS
    TypeOK
    HardwareAgrees
    StaticBeatsLearned
PROPERTIES
    StaticsStay
