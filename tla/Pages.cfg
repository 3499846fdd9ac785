SPECIFICATION PagesSpec
CONSTANTS
    a1 = a1
    a2 = a2
    o1 = o1
    o2 = o2
    p1 = p1
    p2 = p2
    Attempts = {a1, a2}
    Orders = {o1, o2}
    Nothing = Nothing
    MaxRerenders = 1
    People = {p1, p2}
    Nobody = Nobody
    Escrow = Escrow
    Decimals = 4
    Kept = 1
    Exponential = 3
    Typed <- Amounts
    MaxSigned = 3
    Pictures = {1, 2, 3}
    Lost = {3}
    ImageBatch = 2
    MintJobs = {1, 2, 3}
    Unreadable = {1}
    CostBatch = 2
    MaxFailures = 2
CHECK_DEADLOCK FALSE
INVARIANTS
    PaysOnce
    SaysWhatHappened
    PriceSurvives
PROPERTIES
    SpinnerStops
    BackfillReaches
