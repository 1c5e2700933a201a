\* Two deletes at once over the sessions of one user on two places, stored with
\* a short or a long ttl; time enough for sessions and indexes to expire.
SPECIFICATION Spec
CONSTANTS
    u1 = u1
    Process = {p1, p2}
    User = {u1}
    Device = {d1}
    NoDevice = NoDevice
    Serial = {1}
    Methods = {"set", "renew", "delete", "deleteByUserId", "deleteByUserIdAndDevice"}
    Breaking <- MCBreaking
    Ttls = {1, 3}
    Slack = 1
    Forever = 100
    MaxClock = 2
INVARIANTS TypeOK LiveSessionsAreListed
PROPERTIES DeletesReachAll
CHECK_DEADLOCK FALSE
SYMMETRY Symmetry
