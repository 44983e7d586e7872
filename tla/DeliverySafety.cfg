SPECIFICATION DSpec
CONSTANTS
    Jobs = {j1}
    Principals = {p1}
    Keys = {}
    Requests = {r1}
    Workers = {w1}
    Recoverers = {o1, o2}
    None = None
    MaxOutstanding = 0
    RateLimit = 0
    RateWindow = 1
    ClockLag = 0
    LeaseTime = 1
    RecoveryLockTime = 1
    PayloadTTL = 9
    JobDeadline = 9
    MaxTime = 3
    MaxEpoch = 2
    MaxGeneration = 2
    Attempts = {a1}
    Faults = {"cancel"}
    MaxFaults = 1
    Producers = {p}
    Reconcilers = {r}
    Operators = {op}
    LastTick = 2
    QueueFaults = {"exhaust"}
    MaxQueueFaults = 1
INVARIANTS
    ConfirmedMeansCreated
PROPERTIES
    RecheckBurnsOnlyDeadNames
    ImplementsWorkers
CHECK_DEADLOCK FALSE
