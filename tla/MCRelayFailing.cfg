SPECIFICATION Spec
CONSTANTS
    Requests = {r1, r2}
    Playground = {r2}
    UnlimitedTokens = {}
    BatchUpdateEnabled = FALSE
    DBMayFail = TRUE
    PreQuotas = {2}
    Costs = {1, 3}
    Fees = {0, 1}
    TrustQuota = 4
    MaxAttempts = 1
    MaxCrashes = 1
    UserQuota = 5
    TokenQuota = 3
    Keys <- MCKeys
    BatchUpdateType <- MCBatchUpdateType
    InitialDB <- MCInitialDB
    ChannelQ <- MCChannelQ
    UserQ <- MCUserQ
    TokenQ <- MCTokenQ
    UsedQ <- MCUsedQ
    CountQ <- MCCountQ
INVARIANTS
    PaidWithinBounds
CHECK_DEADLOCK FALSE
