\* One thread removes a saved key and reads it back.
SPECIFICATION Spec
CONSTANTS
    k1 = k1
    k2 = k2
    k3 = k3
    t1 = t1
    t2 = t2
    Key = {k1, k2}
    Val = {v1, v2}
    Thread = {t1}
    Absent = Absent
    Deleted = Deleted
    MAX_SIZE = 3
    Access <- AccessShared
    Removable = {k1, k2}
    ForceLoaded = {}
    DbMayFail = FALSE
SYMMETRY Symmetry
INVARIANTS RemovedHasNoValue
