SPECIFICATION FairSpec
CONSTANTS
    MaxRetries = 3
    MaxQuits = 2
    Windows = {1, 2}
    DevModes = {TRUE, FALSE}
INVARIANTS
    NoOrphanServer
    ProbesAreBounded
PROPERTIES
    StartSettles
    QuitEnds
CHECK_DEADLOCK FALSE
