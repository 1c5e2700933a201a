\* safeAuth is opened on a session while it is forced out.
SPECIFICATION Spec
CONSTANTS
    User = {u1}
    Device = {d1}
    NoDevice = NoDevice
    NoUser = NoUser
    Process = {p1, p2}
    Free = Free
    Dead = Dead
    Ops = {"login", "forceLogout", "safeAuth"}
    Policy = "mutual-exclusion"
    MaxSame = 1
    MultiAccount = FALSE
    MaxAccounts = 1
    LockEnabled = TRUE
    Retries = 0
    RandomTokens = FALSE
    DeletesByDevice = FALSE
    MayExpire = FALSE
    MayFail = FALSE
    MayCrash = FALSE
    LockMayExpire = FALSE
    MaxCreated = 3
INVARIANTS NoResurrection
