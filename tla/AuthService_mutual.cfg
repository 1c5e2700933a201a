\* mutual-exclusion: concurrent logins, every way to end a session, crashes.
SPECIFICATION Spec
CONSTANTS
    User = {u1}
    Device = {d1}
    NoDevice = NoDevice
    NoUser = NoUser
    Process = {p1, p2, p3}
    Free = Free
    Dead = Dead
    Ops = {"login", "forceLogout", "kick"}
    Policy = "mutual-exclusion"
    MaxSame = 2
    MultiAccount = FALSE
    MaxAccounts = 1
    LockEnabled = TRUE
    Retries = 1
    RandomTokens = FALSE
    DeletesByDevice = FALSE
    MayExpire = TRUE
    MayFail = TRUE
    MayCrash = TRUE
    LockMayExpire = FALSE
    MaxCreated = 4
INVARIANTS TypeOK LoginExclusion NoLeakedLock SameDeviceBound
PROPERTIES ImplementsRegistry
SYMMETRY Symmetry
