\* Two threads sharing one key, a cache that never fills.
SPECIFICATION Spec
CONSTANTS
    k1 = k1
    k2 = k2
    k3 = k3
    t1 = t1
    t2 = t2
    Key = {k1}
    Val = {v1, v2}
    Thread = {t1, t2}
    Absent = Absent
    Deleted = Deleted
    MAX_SIZE = 2
    Access <- AccessShared
    Removable = {}
    ForceLoaded = {}
    DbMayFail = FALSE
SYMMETRY Symmetry
INVARIANTS NoLostUpdate
