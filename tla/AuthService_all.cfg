\* Every handler, random tokens, single, an account limit that one user meets.
SPECIFICATION FairSpec
CONSTANTS
    User = {u1}
    Device = {d1}
    NoDevice = NoDevice
    NoUser = NoUser
    Process = {p1, p2}
    Free = Free
    Dead = Dead
    Ops = {"login", "logout", "forceLogout", "kick", "switchIdentity", "rotate", "safeAuth"}
    Policy = "single"
    MaxSame = 1
    MultiAccount = TRUE
    MaxAccounts = 0
    LockEnabled = TRUE
    Retries = 1
    RandomTokens = TRUE
    DeletesByDevice = TRUE
    MayExpire = TRUE
    MayFail = FALSE
    MayCrash = TRUE
    LockMayExpire = FALSE
    MaxCreated = 3
INVARIANTS NoLostSession
PROPERTIES RequestsEnd
