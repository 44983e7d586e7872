SPECIFICATION FairDSpec
CONSTANTS
    Jobs = {j1}
    Principals = {p1}
    Keys = {}
    Requests = {r1}
    Workers = {w1}
    Recoverers = {o1, o2}
    None = None
    MaxOutstanding = 0
    RateLimit = 0
    RateWindow = 1
    ClockLag = 0
    LeaseTime = 1
    RecoveryLockTime = 1
    PayloadTTL = 2
    JobDeadline = 2
    MaxTime = 5
    MaxEpoch = 2
    MaxGeneration = 3
    Attempts = {}
    Faults = {"crash", "cancel", "miss", "lost", "unrecorded"}
    MaxFaults = 1
    Producers = {p}
    Reconcilers = {r}
    Operators = {}
    LastTick = 3
    QueueFaults = {"drop", "exhaust"}
    MaxQueueFaults = 1
PROPERTIES
    EveryJobEnds
CHECK_DEADLOCK FALSE
