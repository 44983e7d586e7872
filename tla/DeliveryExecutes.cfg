SPECIFICATION FairDSpec
CONSTANTS
    Jobs = {j1}
    Principals = {p1}
    Keys = {}
    Requests = {r1}
    Workers = {w1}
    Recoverers = {o1, o2}
    None = None
    MaxOutstanding = 0
    RateLimit = 0
    RateWindow = 1
    ClockLag = 0
    LeaseTime = 1
    RecoveryLockTime = 1
    PayloadTTL = 9
    JobDeadline = 9
    MaxTime = 4
    MaxEpoch = 6
    MaxGeneration = 6
    Attempts = {a1}
    Faults = {"crash", "cancel", "lost", "unrecorded"}
    MaxFaults = 2
    Producers = {p}
    Reconcilers = {r}
    Operators = {}
    LastTick = 2
    QueueFaults = {"drop", "exhaust"}
    MaxQueueFaults = 1
PROPERTIES
    EveryJobIsExecuted
CHECK_DEADLOCK FALSE
