SPECIFICATION BatchSpec
CONSTANTS
    Absent = Absent
    NoKey = NoKey
    KeyTTL = 9
    Delay = 1
    Batches = {b1}
    Freezable = {r1}
    Agents = {a1, a2}
    Tokens = {t1}
    BatchKeys = {}
    NoLease = NoLease
    Lease = 2
    Cap = 2
    Extensions = {2}
    MaxBatchNow = 5
    MaxBatchVersion = 7
    MaxReview = 2
PROPERTIES
    ElapsedIsNotExtended
CHECK_DEADLOCK FALSE
