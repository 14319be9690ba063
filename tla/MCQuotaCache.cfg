SPECIFICATION CacheFairSpec
CONSTANTS
    Changes = {"hold", "topup"}
    Delta <- MCDelta
    Readers = {r1}
    Savers = {"update", "save"}
    Kind <- MCKind
    InitialQuota = 1
    BatchUpdateEnabled = TRUE
    MaxSaves = 2
    MaxErrors = 1
INVARIANTS
    LossNeedsSave
    CacheDriftBounded
PROPERTIES
    CacheHeals
CHECK_DEADLOCK FALSE
