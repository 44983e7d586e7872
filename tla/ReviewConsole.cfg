SPECIFICATION CSpec
CONSTANTS
    Absent = Absent
    NoKey = NoKey
    KeyTTL = 9
    Batches = {b1}
    Freezable = {r1}
    Agents = {a1, a2}
    Tokens = {t1}
    BatchKeys = {}
    NoLease = NoLease
    Lease = 2
    Cap = 2
    Extensions = {2}
    MaxBatchNow = 5
    MaxBatchVersion = 7
    MaxReview = 2
    Reviews = {1, 2}
    Links = {"l1"}
    People = {"p"}
    Patches <- SentPatches
    Keys <- SentKeys
    ReviewTTL = 2
    AuditTTL = 3
    Delay = 1
    MaxNow = 4
    MaxVersion = 3
    Runs = {"w1", "w2"}
    Budgets = {1}
    Attempts = {"a1", "a2"}
    Chunks <- SentChunks
    MaxImport = 3
    QueueIds = {1, 2, 3}
    LinkIds = {1, 2}
    Walkers = {"w"}
    PageSize = 1
    CursorTTL = 1
    Nothing = Nothing
    MaxReadNow = 1
INVARIANTS
    RunIsBounded
    NoOrphans
    CountersAreTrue
    RowsApplyOnce
    WalkMissesNothing
PROPERTIES
    ImplementsLease
    LedgerOutlivesProduct
    SentChunksGetThrough
CHECK_DEADLOCK FALSE
