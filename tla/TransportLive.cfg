SPECIFICATION FairSpec
CONSTANTS
    Calls = {r1, r2}
    NoCall = NoCall
    Threads = {service, heartbeat}
    ServiceThread = service
    MaxTick = 4
    MaxConn = 2
PROPERTY AnsweredRuns
CHECK_DEADLOCK FALSE
