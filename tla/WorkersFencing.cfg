SPECIFICATION WSpec
CONSTANTS
    Jobs = {j1}
    Principals = {p1}
    Keys = {}
    Requests = {r1}
    Workers = {w1}
    Recoverers = {o1}
    None = None
    MaxOutstanding = 0
    RateLimit = 0
    RateWindow = 1
    ClockLag = 0
    LeaseTime = 1
    RecoveryLockTime = 1
    PayloadTTL = 3
    JobDeadline = 2
    MaxTime = 3
    MaxEpoch = 2
    MaxGeneration = 1
    Attempts = {a1, a2}
    Faults = {"crash", "cancel", "miss", "lost", "unrecorded"}
    MaxFaults = 1
SYMMETRY Interchangeable
INVARIANTS
    ExclusiveEpochs
    AckMeansDoneOrUnrecorded
PROPERTIES
    SupersededIsPowerless
    TerminalIsFinal
    ImplementsRepository
    LeasesAreRespected
CHECK_DEADLOCK FALSE
