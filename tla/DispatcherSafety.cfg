\* Two threads dispatch events, one of them parallel, and scheduled tasks; tasks dispatch and stop tasks. The system may stop: the loop ends.
SPECIFICATION Spec
CONSTANTS
    e1 = e1
    e2 = e2
    e3 = e3
    e4 = e4
    s1 = s1
    s2 = s2
    c1 = c1
    NThreads = 2
    Event = {e1, e2, e3, e4}
    Scheduled = {s1, c1}
    GroupOf <- MCGroupMixed
    Expires <- MCExpires
    Delay <- MCDelay
    Cycle = {c1}
    AtStart = {c1}
    Stoppable = {s1, c1}
    MaxLag = 1
    MaxRuns = 1
CHECK_DEADLOCK FALSE
SYMMETRY Symmetry
INVARIANTS NoTaskLost StopFindsLiveTasks
PROPERTIES StoppedNeverStarts
