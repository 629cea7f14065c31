CONSTANTS
    Threads = {t1, t2}
    MaxCalls = 2
    MaxSeals = 1
    WINDOW = 1
    MAX_SEEN = 1
    KEEP = 1
    MayReset = TRUE
    NoThread = NoThread
SPECIFICATION FairSpec
CHECK_DEADLOCK FALSE
INVARIANTS
    TypeOK
    RanAtMostOnce
    CountersFresh
PROPERTIES
    ExpiryHidden
    CallsEnd
