SPECIFICATION Spec
CONSTANTS
    home = home
    other = other
    Absent = Absent
    Torn = Torn
    Clients = {c1}
    Trusters = {k1}
    Hosts <- MCHosts
    Home = home
    Other = 0
    COST = 1
    CAPACITY = 1
    RATE = 1
    MAX_BYTES = 1
    Sizes <- MCSizes
    SKEW = 1
    Policies <- MCPolicies
    Backends <- MCBackends
    MaxTime = 2
    MaxIdentities = 2
    MaxHandshakes = 1
    MaxRestarts = 0
INVARIANT AbsenceIsContract
CHECK_DEADLOCK FALSE
