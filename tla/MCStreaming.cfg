SPECIFICATION FairSpec
CONSTANTS
    MAXSIZE = 3
    WIRE = 2
    MaxChunks = 7
INVARIANTS
    TypeOK
    NothingLost
PROPERTIES
    KeepsPromise
    StreamEnds
