SPECIFICATION TasksSpec
CONSTANTS
    Callers = {w1, w2}
    Requests = {q1, q2}
    Keys = {}
    Kinds = {"observed"}
    Replies = {"undecodable", "refused"}
    Permits = 1
    Threshold = 1
    HttpTries = 1
    Null = Null
INVARIANTS
    HalfOpenHasProbe
CHECK_DEADLOCK FALSE
