CONSTANTS
    Threads = {t1, t2}
    MaxCalls = 3
    MaxSeals = 2
    WINDOW = 2
    MAX_SEEN = 2
    KEEP = 1
    MayReset = FALSE
    NoThread = NoThread
SYMMETRY ThreadPermutations
SPECIFICATION Spec
CHECK_DEADLOCK FALSE
INVARIANT NoFalseReplay
