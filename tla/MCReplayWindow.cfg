CONSTANTS
    WINDOW_BITS = 3
    Counters <- MCCounters
SPECIFICATION Spec
INVARIANTS
    TypeOK
    WindowMirrorsAccepted
PROPERTY ImplementsAntiReplay
