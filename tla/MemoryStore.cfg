\* Sessions whose ttl fits setTimeout, more of them than the store takes; bans
\* that do not fit, so that their timers run in segments.
SPECIFICATION FairSpec
CONSTANTS
    SessionId = {s1, s2, s3}
    User = {u1, u2}
    Suspects = {u1}
    MaxSize = 2
    MaxTimeout = 1
    Ttls = {1}
    Durations = {2}
    Forever = 100
    MaxClock = 3
INVARIANTS TypeOK WithinCapacity EveryEntryHasItsTimer NoEarlyExpiry
PROPERTIES NewSessionIsKept ExpiredSessionsAreSwept
CHECK_DEADLOCK FALSE
