SPECIFICATION FairSpec
CONSTANTS
    Tasks = {"g1"}
    Platform <- MCPlatform
    Price = 2
    ActualQuotas = {1, 3}
    UserQuota = 3
    MaxFailures = 2
    MaxFetches = 3
    MaxCrashes = 1
INVARIANTS
    ExtraRefundsNeedQueries
PROPERTIES
    TaskFinishes
CHECK_DEADLOCK FALSE
