SPECIFICATION Spec
CONSTANTS
    Ops = {participant}
    Attempts = {a1, a2}
    Mappings = {m1, m2}
    Tries = 2
    None = None
SYMMETRY Alike
PROPERTIES
    DoubtDominatesRetryable
CHECK_DEADLOCK FALSE
