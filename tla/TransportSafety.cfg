SPECIFICATION Spec
CONSTANTS
    Calls = {r1, r2, r3}
    NoCall = NoCall
    Threads = {service, heartbeat}
    ServiceThread = service
    MaxTick = 5
    MaxConn = 1
SYMMETRY Symmetry
INVARIANTS TypeOK InOrder CallbackOnce LostOnlyByRace
PROPERTY PromiseKept
CHECK_DEADLOCK FALSE
