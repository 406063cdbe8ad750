SPECIFICATION Spec
CONSTANTS
    Tasks = {t1}
    Repetitive = {t1}
    NoTask = NoTask
    MaxTick = 1
INVARIANT NeverStopsItself
CHECK_DEADLOCK FALSE
