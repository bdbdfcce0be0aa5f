\* Failing statements and crashes within a save.
SPECIFICATION Spec
CONSTANTS
    Player = {p1}
    NThreads = 1
    Async = FALSE
    Faults = TRUE
    MaxObjects = 2
    MaxChanges = 1
    MaxStamps = 0
CHECK_DEADLOCK FALSE
INVARIANT SaveIsAtomic
