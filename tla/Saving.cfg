\* toggleSaveAsync off: saves by the dispatcher and by saveAll's jobs, failing
\* statements and crashes; and toggleSaveAsync on, with the constants MCSaving
\* gives. The server halts in the end.
SPECIFICATION SavingSpec
CONSTANTS
    Player = {p1}
    NThreads = 2
    Async = FALSE
    Faults = TRUE
    MaxObjects = 3
    MaxChanges = 3
    MaxStamps = 2
INVARIANTS
    SyncTypeOK
    SyncNothingLost
    AsyncRequestSaved
PROPERTIES
    SyncNeverGoesBack
    AsyncSavesEnd
CHECK_DEADLOCK FALSE
