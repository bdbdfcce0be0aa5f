\* toggleSaveAsync on: a logout leaves the save to the pool.
SPECIFICATION Spec
CONSTANTS
    Player = {p1}
    NThreads = 2
    Async = TRUE
    Faults = FALSE
    MaxObjects = 2
    MaxChanges = 1
    MaxStamps = 2
CHECK_DEADLOCK FALSE
INVARIANT NoProgressLost
