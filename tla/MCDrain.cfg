CONSTANTS
    Tasks = {t1, t2}
    Preloaders = {}
    MayHangUp = {t1, t2}
    Keys = {k1}
    model = model
    Models = {model}
    ModelOf <- MCModelOf
    CtxRequests = {0}
    DEFAULT_CTX = 1
    MAX_LOADED = 1
    QUEUE_DEPTH = 2
    Slots = {s1, s2}
    NoKey = NoKey
    NoSlot = NoSlot
    NoTask = NoTask
    STOP = STOP
SPECIFICATION FairSpec
CHECK_DEADLOCK FALSE
PROPERTY AheadOfStopIsServed
