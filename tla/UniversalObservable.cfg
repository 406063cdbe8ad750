SPECIFICATION FairSpec
CONSTANTS
    Observers = {"adapter", "client"}
    Threads = {"main", "plugin-client"}
    Home <- HomeOfTwo
    MaxEvents = 3
    MaxChanges = 3
INVARIANTS TypeOK CalledOnce CalledInOrder
PROPERTY Called
CHECK_DEADLOCK FALSE
