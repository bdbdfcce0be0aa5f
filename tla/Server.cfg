\* The components of MCServer, one per behaviour. A connection that is closed
\* and a market without gold stop.
SPECIFICATION Spec
CONSTANTS
    MaxPackets = 2
    MaxOutputs = 2
    Clients = {a, b}
    Players = {c, d}
    NoOne = NoOne
    Persons = {a, b, c, d}
    Premium = {a, b}
    MaxPlayers = 2
    MaxDrift = 2
    Traders = {s1, s2}
    Stock = 2
    Purse = 2100
    Price = 1000
    MaxOffers = 2
    MaxSearches = 1
    MaxTroubles = 1
    k1 = k1
    k2 = k2
    t1 = t1
    t2 = t2
    Val = {v1, v2}
    Absent = Absent
    Deleted = Deleted
INVARIANTS
    ServerTypeOK
    BufferHasOneUser
    OneWriteLoop
    ReleaseOwed
    ClientHoldsPlayer
    WealthKept
    ApartConsistent
PROPERTIES
    FlowKept
    SilentPeerIsTimedOut
    OutputEnds
    LoginAnswered
    LostPlayerLeaves
    SeatsKept
    PremiumIsLetIn
CHECK_DEADLOCK FALSE
