SPECIFICATION DSpec
CONSTANTS
    Jobs = {j1}
    Principals = {p1}
    Keys = {}
    Requests = {r1}
    Workers = {w1}
    Recoverers = {o1, o2}
    None = None
    MaxOutstanding = 0
    RateLimit = 0
    RateWindow = 1
    ClockLag = 0
    LeaseTime = 1
    RecoveryLockTime = 1
    PayloadTTL = 9
    JobDeadline = 9
    MaxTime = 5
    MaxEpoch = 5
    MaxGeneration = 4
    Attempts = {a1}
    Faults = {}
    MaxFaults = 0
    Producers = {p}
    Reconcilers = {}
    Operators = {op}
    LastTick = 3
    QueueFaults = {}
    MaxQueueFaults = 0
PROPERTIES
    RequeueSparesLiveLease
CHECK_DEADLOCK FALSE
