CONSTANTS
    A = A  B = B
    FReplica = {A}
    MaxJob = 2
    MaxLost = 0
    MaxMessages = 2
    Pipelined = FALSE
    Lag = FALSE
SPECIFICATION FollowerFairSpec
CHECK_DEADLOCK FALSE
PROPERTY EveryOutcomeShown
