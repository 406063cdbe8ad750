SPECIFICATION FairSpec
CONSTANTS
    Tasks = {t1, t2, t3}
    Repetitive = {t1, t2}
    NoTask = NoTask
    MaxTick = 2
INVARIANTS TypeOK CancelHonoured NoRunAfterOwner
PROPERTIES KeepsRunning StopReturns
CHECK_DEADLOCK FALSE
