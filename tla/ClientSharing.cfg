SPECIFICATION FairSpec
CONSTANTS
    t1 = t1
    t2 = t2
    t3 = t3
    growth = growth
    auth = auth
    other = other
    c1 = c1
    c2 = c2
    None = None
    Foreign = Foreign
    Stale = Stale
    Threads = {t1, t2, t3}
    Process <- TwoProcesses
    MainThreads = {t3}
    Keys = {growth, auth, other}
    AuthKeys = {auth}
    Asked = {growth, auth}
    Stripe <- TwoStripes
    Contracts = {c1, c2}
    Refused <- OneRefuses
    Capacity = 2
    MaxRetries = 2
    Found <- FoundAnything
    MaxCalls = 3
    MaxFaults = 1
INVARIANTS
    ReservationHolds
    AnswersArePublished
    PolicyIsOwn
    ConflictMeansUnusable
PROPERTIES
    EntriesStay
    CallsEnd
CHECK_DEADLOCK FALSE
