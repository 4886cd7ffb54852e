SPECIFICATION TouchSpec
CONSTANTS
    Raws = {40, 42, 80}
    Idle = 40
    Garbage = 80
    Others = {TRUE}
    Pairs <- MCPairs
    T <- MCSettings
    MaxDisturbed = 1
INVARIANTS
    EveryReleaseIsTold
CHECK_DEADLOCK FALSE
