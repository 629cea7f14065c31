SPECIFICATION Spec
CONSTANTS
    Instances = {a, b}
    Handlers = {r1, r2}
    NoObj = NoObj
    WINDOW_BITS = 2
    TTL = 1
    MAX_LIFETIME = 2
    FLOOR = 1
    MaxTime = 3
    MaxCounter = 2
    Objs = {o1, o2}
SYMMETRY Symmetric
CHECK_DEADLOCK FALSE
INVARIANTS
    TypeOK
    NoDeadKeys
    NoFalseRefusal
PROPERTIES
    EndIsFinalEverywhere
