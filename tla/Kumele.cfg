SPECIFICATION KumeleSpec
CONSTANTS
    j1 = j1
    j2 = j2
    Jobs = {j1, j2}
    Batch = 1
    Fetch = 2
    Letters = 1
    Delay <- LaterAndLater
    MaxCalls = 2
    MaxFaults = 1
    MaxPresses = 1
CHECK_DEADLOCK FALSE
INVARIANTS
    ToldTruth
PROPERTIES
    NobodyStarves
    NewsArrives
