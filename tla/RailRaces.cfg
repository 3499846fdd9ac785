SPECIFICATION Spec
CONSTANTS
    k1 = k1
    s1 = s1
    s2 = s2
    a1 = a1
    h1 = h1
    h2 = h2
    seedA = seedA
    seedB = seedB
    NoAddr = NoAddr
    Workers <- KickerAndSweeper
    Sweepers <- OneSweeper
    Admins = {a1}
    Hooks = {h1}
    Seeds <- OneSeed
    MaxAttempts = 1
    MaxFaults = 1
    Outside = {}
    Timely = FALSE
INVARIANTS
    ChargedFirst
    MintedIsDelivered
PROPERTIES
    KeepsOrder
CHECK_DEADLOCK FALSE
