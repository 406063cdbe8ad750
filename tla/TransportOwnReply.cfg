SPECIFICATION Spec
CONSTANTS
    Calls = {r1, r2}
    NoCall = NoCall
    Threads = {service, heartbeat}
    ServiceThread = service
    MaxTick = 4
    MaxConn = 1
INVARIANT OwnReply
CHECK_DEADLOCK FALSE
