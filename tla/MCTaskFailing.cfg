SPECIFICATION Spec
CONSTANTS
    Tasks = {"s1", "d1"}
    Platform <- MCPlatform
    Price = 2
    ActualQuotas = {1, 3}
    UserQuota = 3
    MaxFailures = 1
    MaxFetches = 0
    MaxCrashes = 1
INVARIANTS
    TaskAddsUp
    VideoRefundedOnce
    RepeatsNeedErrors
CHECK_DEADLOCK FALSE
