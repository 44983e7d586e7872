SPECIFICATION FSpec
CONSTANTS
    Ops = {participant, plan}
    Attempts = {a1, a2}
    Mappings = {m1, m2}
    Tries = 1
    None = None
    Callers = {"w1", "w2", "w3"}
    Requests = {"q1", "q2", "q3"}
    Keys = {"k"}
    Kinds = {"shared"}
    Replies = {"accepted", "unsent", "refused"}
    Permits = 1
    Threshold = 1
    HttpTries = 2
    Null = Null
SYMMETRY Alike
INVARIANTS
    EffectsAreReserved
    ReceiptedIsNotReposted
    ObservedMeansReceipted
    OwnedWorkSurvives
    OneTaskPerKey
    ProbeSettlesOrEscapes
CHECK_DEADLOCK FALSE
