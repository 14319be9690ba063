SPECIFICATION Spec
CONSTANTS
    Requests = {r1, r2}
    Playground = {}
    UnlimitedTokens = {}
    BatchUpdateEnabled = TRUE
    DBMayFail = FALSE
    PreQuotas = {2}
    Costs = {1, 3}
    Fees = {0, 1}
    TrustQuota = 4
    MaxAttempts = 2
    MaxCrashes = 0
    UserQuota = 5
    TokenQuota = 3
    Keys <- MCKeys
    BatchUpdateType <- MCBatchUpdateType
    InitialDB <- MCInitialDB
    ChannelQ <- MCChannelQ
    UserQ <- MCUserQ
    TokenQ <- MCTokenQ
    UsedQ <- MCUsedQ
    CountQ <- MCCountQ
SYMMETRY RequestSymmetry
INVARIANTS
    TypeOK
    ExactCharge
    DatabaseAddsUp
CHECK_DEADLOCK FALSE
