SPECIFICATION FairSpec
CONSTANTS
    Requests = {r1}
    Playground = {}
    UnlimitedTokens = {}
    BatchUpdateEnabled = TRUE
    DBMayFail = TRUE
    PreQuotas = {2, 4}
    Costs = {1, 3}
    Fees = {0, 1}
    TrustQuota = 4
    MaxAttempts = 2
    MaxCrashes = 1
    UserQuota = 4
    TokenQuota = 3
    Keys <- MCKeys
    BatchUpdateType <- MCBatchUpdateType
    InitialDB <- MCInitialDB
    ChannelQ <- MCChannelQ
    UserQ <- MCUserQ
    TokenQ <- MCTokenQ
    UsedQ <- MCUsedQ
    CountQ <- MCCountQ
INVARIANTS
    BatchConservation
PROPERTIES
    WorkFinishes
    FailedIsRefunded
CHECK_DEADLOCK FALSE
