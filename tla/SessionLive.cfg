SPECIFICATION FairSpec
CONSTANTS
    Clients = {p1}
    Messages = {m1}
    Nobody = Nobody
    MaxHandle = 2
    MaxConn = 2
    MaxCalls = 2
    MaxEvents = 0
INVARIANTS RequestsInSession
PROPERTIES CallReturns CleanupDone
CHECK_DEADLOCK FALSE
