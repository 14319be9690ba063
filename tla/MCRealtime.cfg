SPECIFICATION FairSpec
CONSTANTS
    Held = 2
    UserQuota = 6
    TokenQuota = 5
    Unlimited = FALSE
    Reports = {2}
    Counts = {1}
    MaxMessages = 4
INVARIANTS
    TargetCloseBillsOnce
    DoubleBillingIsBounded
PROPERTIES
    SessionEnds
CHECK_DEADLOCK FALSE
