CONSTANTS
    n1 = n1
    n2 = n2
    Nonce = {n1, n2}
    Date <- MCDate
    Applications <- MCApplications
    Worker = {w1, w2}
    Key = {k1}
    Account = k1
    MaxClock = 5
    Tolerance = 1
    MaxSize = 1
    MaxRecorded = 3
    Window = 4
    MaxRequests = 2
    Delay = 1
    MaxGrants = 3
SPECIFICATION Spec
SYMMETRY Symmetry
CHECK_DEADLOCK FALSE
INVARIANTS TypeOK NonceOncePerWindow LimitHolds RefusalsAreFree ReplayNeedsEarlyArrival GuardedLoginsWereRecorded WiredLimitHolds
