SPECIFICATION Spec
CONSTANTS
    home = home
    other = other
    Absent = Absent
    Torn = Torn
    Clients = {}
    Trusters = {}
    Hosts <- MCHosts
    Home = home
    Other = 0
    COST = 2
    CAPACITY = 5
    RATE = 3
    MAX_BYTES = 1
    Sizes <- MCSizes
    SKEW = 1
    Policies <- MCPolicies
    Backends <- MCBackends
    MaxTime = 5
    MaxIdentities = 1
    MaxHandshakes = 1
    MaxRestarts = 2
INVARIANT RateBound
CHECK_DEADLOCK FALSE
