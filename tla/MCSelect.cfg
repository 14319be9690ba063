SPECIFICATION FairSpec
CONSTANTS
    Channels <- MCChannels
    Groups <- MCGroups
    ChannelsOf <- MCChannelsOf
    Priority <- MCPriority
    Weight <- MCWeight
    Tokens <- MCTokens
    RetryTimes = 2
    Affinities = {"c3", "c4"}
    MaxChanges = 2
INVARIANTS
    AttemptsAreBounded
    BilledGroupServes
    CrossGroupTriesAll
PROPERTIES
    RetryDescends
    RequestEnds
CHECK_DEADLOCK FALSE
