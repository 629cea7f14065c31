CONSTANTS
    user = user
    admin = admin
    Clients <- MCClients
    Sids = {s1, s2}
    Reqs = {r1}
    NoClient = NoClient
    NoSid = NoSid
    Tenant <- MCTenant
    Scope <- MCScope
    NotBefore <- MCNotBefore
    NotAfter <- MCNotAfter
    WINDOW_BITS = 2
    TTL = 1
    MAX_LIFETIME = 1
    SKEW = 1
    MaxTime = 2
    MaxCounter = 2
    MaxSeals = 2
SYMMETRY SidPermutations
SPECIFICATION Spec
INVARIANTS
    TypeOK
    HandledAtMostOnce
    NonceNeverReused
    ClosedIsGone
PROPERTIES
    EndIsFinal
    RevocationTakesEffect
    GoodbyeIsReadable
