SPECIFICATION Spec
CONSTANTS
    Clients = {p1, p2}
    Messages = {m1}
    Nobody = Nobody
    MaxHandle = 2
    MaxConn = 1
    MaxCalls = 3
    MaxEvents = 1
SYMMETRY Symmetry
INVARIANTS TypeOK ClientReachable ConnectedExact MessageOnce
PROPERTY LifeKept
CHECK_DEADLOCK FALSE
