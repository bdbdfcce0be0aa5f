\* The key-value store with one thread and a cache smaller than the key set:
\* eviction, reload, saveAll, crash. Parties, which stop when everybody has gone.
\* Trades. Two items that decay, and a dispatcher that runs late.
SPECIFICATION StoresSpec
CONSTANTS
    k1 = k1
    k2 = k2
    k3 = k3
    t1 = t1
    t2 = t2
    Key = {k1, k2, k3}
    Val = {v1, v2}
    Thread = {t1}
    Absent = Absent
    Deleted = Deleted
    MAX_SIZE = 2
    Access <- AccessShared
    Removable = {k3}
    ForceLoaded = {k3}
    DbMayFail = TRUE
    Mates = {m1, m2, m3}
    Parties = {q1, q2}
    Nil = Nil
    People = {p1, p2, p3}
    Things = {bag, coin, sword}
    Bag = bag
    Floor = Floor
    None = None
    Items = {i1, i2}
    MaxDuration = 2
    MaxDelay = 1
    NoTime = NoTime
SYMMETRY Symmetry
INVARIANTS
    StoresTypeOK
    LruMatchesStore
    NoLostUpdate
    GetIsCurrent
    SaveAllIsDurable
    PointersAgree
    NobodyIsTrapped
    OffersSound
    DecayMapSound
    StillAgreed
PROPERTIES
    TimeIsKept
CHECK_DEADLOCK FALSE
