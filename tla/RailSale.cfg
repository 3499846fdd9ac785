SPECIFICATION Spec
CONSTANTS
    k1 = k1
    s1 = s1
    s2 = s2
    a1 = a1
    h1 = h1
    h2 = h2
    seedA = seedA
    seedB = seedB
    NoAddr = NoAddr
    Workers <- KickerAndSweeper
    Sweepers <- OneSweeper
    Admins = {}
    Hooks = {h1}
    Seeds <- TwoSeeds
    MaxAttempts = 3
    MaxFaults = 2
    Outside = {"decline", "rotateSeed", "dust"}
    Timely = TRUE
INVARIANTS
    OneAsset
PROPERTIES
    KeepsSale
CHECK_DEADLOCK FALSE
