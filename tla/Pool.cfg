\* A server after Game::start: one cycle task keeps the dispatcher from sleeping
\* for ever. Two further threads for messages to a webhook. The dispatcher's loop
\* ends.
SPECIFICATION PoolSpec
CONSTANTS
    e1 = e1
    e2 = e2
    e3 = e3
    e4 = e4
    s1 = s1
    s2 = s2
    c1 = c1
    NThreads = 2
    Event = {e1, e2}
    Scheduled = {c1}
    GroupOf <- MCGroupWalk
    Expires <- NoExpiration
    Delay <- MCDelay
    Cycle = {c1}
    AtStart = {c1}
    Stoppable = {}
    MaxLag = 1
    MaxRuns = 1
    Workers = {w1, w2}
    NoWorker = NoWorker
    MaxMessages = 3
    MaxJobs = 2
INVARIANTS
    PoolTypeOK
PROPERTIES
    LoopGoesOnAndEnds
    NoMessageSkipped
    Delivered
    NobodyWaitsForDiscord
CHECK_DEADLOCK FALSE
