SPECIFICATION ASpec
CONSTANTS
    MaxExtracted = 3
    MaxRelated = 1
    Modes = {"knowledge_only", "full", "shadow"}
    MaxAttempts = 2
    NoPlan = NoPlan
    Ids = {e1, e2}
    Cursors = {k1, k2}
    NoCursor = NoCursor
    Requests = {"r1", "r2"}
    Nobody = "nobody"
    NoOne = "nobody"
    Callers = {"c"}
    Parts = {"in", "out"}
    Scope = {"in"}
    Limit = 1
    MaxPage = 2
    PageGuard = 2
    EntryGuard = 1
    MaxRetries = 2
    DelayCap = 1
    Chunks = {1, 2, 3}
    ArticleId <- ArticleIds
    Keeper <- Keepers
    Topical = {1, 2}
    Cosines = {17, 24}
    Profiles <- RetrievalProfiles
    Kb <- Base
    PerArticle = 2
    DominantCap = 3
    DominantMin = 3
    DominantSignal = 160
    OptionsCap = 4
    Asked <- Asks
    Scorings <- Scored
    MaxFound = 3
    Labels <- Called
    ClassOf <- Class
    Points <- Known
    Likeness <- Alike
    Technical = "empty_response"
SYMMETRY Symmetry
INVARIANTS
    ReplyIsWhole
    UnprocessedIsNotSkipped
    RetryableIsNotFinal
    CompleteUnlessFlagged
    CostIsBounded
    BoostIsNoEvidence
    PrimaryIsNotExcluded
    ContextIsFull
    StrictestIntentBlocks
CHECK_DEADLOCK FALSE
