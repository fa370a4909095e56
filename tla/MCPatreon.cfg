\* A listing of at most four posts, or two processes and three sessions
SPECIFICATION MCSpec
CONSTANTS
    Worker = {w1, w2}
    Lister = lister
    MaxPost = 4
    FirstPosts = 3
    MaxDeletes = 1
    PageSize = 2
    Lookback = 2
    Keep = 3
    Attempts = 2
    LimitMax = 2
    Threshold = 2
    MaxDelay = 2
    Process = {p1, p2}
    MaxSessions = 3
INVARIANTS ListingWhole
PROPERTIES BudgetKept LoginNeeded
SYMMETRY Interchangeable
CHECK_DEADLOCK FALSE
