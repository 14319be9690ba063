SPECIFICATION FairSpec
CONSTANTS
    InitialKeys <- MCKeys
    InitialFailed = {1}
    Edits <- MCEdits
    MaxKeys = 2
    MaxOpen = 2
    MaxChanges = 2
    MaxInputs = 3
    DBMayFail = TRUE
INVARIANTS
    BlamedKeyFailed
    AbilitiesFollow
    KeylessIsOff
PROPERTIES
    CacheConverges
CHECK_DEADLOCK FALSE
