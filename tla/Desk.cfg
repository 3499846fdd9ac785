SPECIFICATION DeskSpec
CONSTANTS
    w1 = w1
    w2 = w2
    a1 = a1
    a2 = a2
    r1 = r1
    r2 = r2
    Tiers <- TwoTiers
    Wallets = {w1, w2}
    Vault = Vault
    NoOne = NoOne
    Assets = {a1, a2}
    Requests = {r1, r2}
    Configs <- Settings
    Grants <- OneOrBack
    MaxPoints = 1
    MaxSent = 3
    Isolates = {r1, r2}
    Figures = {4, 39}
    Finer = 10
    FallbackRate = 9
    Estimates = {1}
    Attached = 2
    MintBase = 3
    RentPerByte = 2
    RentOverhead = 0
    Scale = 4
    FeeFloor = 1
    BasePrice = 2
    TaxBps = 2000
    MinCharge = 3
    FixedBytes = 1
    MaxName = 2
    MaxUri = 1
    Names = {1, 2, 3}
    Uris = {1}
    Quantities = {1, 2}
    RateTtl = 1
    QuoteTtl = 0
    Retention = 0
    MaxTime = 2
    MaxQuotes = 2
    Minters = {r1, r2}
    Minted = {a1, a2}
    Signatures = {"full", "less", "short", "failed"}
    Unsigned = Unsigned
    Movement <- Movements
    Treasury = 2
    MintFee = 4
    Spellings = {"1.10", "1.1", "2"}
    Decimal <- Written
    Fans = {w1, w2}
    Clerks = {r1, r2}
    NoFan = NoFan
    k1 = k1
    Keys = {k1}
    Blobs = {w1, w2}
    Absent = Absent
    MaxTrack = 2
SYMMETRY Swaps
CHECK_DEADLOCK FALSE
INVARIANTS
    RowsAreReal
    EarnedOnly
    LeavingIsRecorded
    FallbackStaysFallback
    FeeCoversMint
    NoFreeMint
    OneMintPerFee
    AuditTellsTruth
PROPERTIES
    CountsHeal
