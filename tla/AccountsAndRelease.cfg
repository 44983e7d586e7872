SPECIFICATION ASpec
CONSTANTS
    Jobs = {j1, j2}
    Principals = {p1}
    Keys = {k1}
    Requests = {r1, r2}
    Workers = {w1}
    Recoverers = {o1}
    None = None
    MaxOutstanding = 1
    RateLimit = 1
    RateWindow = 2
    ClockLag = 1
    LeaseTime = 1
    RecoveryLockTime = 1
    PayloadTTL = 1
    JobDeadline = 1
    MaxTime = 2
    MaxEpoch = 1
    MaxGeneration = 1
    Builds = {b1, b2}
    Candidates = {c1}
    Controllers = {"k1", "k2"}
    PlanRequests <- Asked
    MaxPlans = 2
    MaxSerial = 1
    NoPlan = 0
    Images = {i1, i2}
    Shas = {s1}
    Digests = {k1}
    Runs = {x1, x2}
    Nil = Nil
SYMMETRY Symmetry
INVARIANTS
    SlotAccounting
    ReceiptsBindOneJob
    ExpiryIsTruthful
    ProductionWasPromoted
    PromotionIsWhole
PROPERTIES
    StagingStaysQuiet
CHECK_DEADLOCK FALSE
