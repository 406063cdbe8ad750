SPECIFICATION FairSpec
CONSTANTS
    Clients = {p1}
    Messages = {m1}
    Nobody = Nobody
    MaxHandle = 1
    MaxConn = 1
    MaxCalls = 2
    MaxEvents = 0
PROPERTY LocallyRemoved
CHECK_DEADLOCK FALSE
