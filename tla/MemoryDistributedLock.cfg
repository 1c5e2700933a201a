SPECIFICATION FairSpec
CONSTANTS
    Key = {k1, k2}
    Ttl = 2
    MaxClock = 5
    MaxTokens = 3
INVARIANTS TypeOK LockExclusion TimersMatchEntries
PROPERTIES ImplementsLease AbandonedLockIsFreed
CHECK_DEADLOCK FALSE
