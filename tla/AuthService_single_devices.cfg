\* single: two logins of one user from two devices.
SPECIFICATION Spec
CONSTANTS
    User = {u1}
    Device = {d1, d2}
    NoDevice = NoDevice
    NoUser = NoUser
    Process = {p1, p2}
    Free = Free
    Dead = Dead
    Ops = {"login"}
    Policy = "single"
    MaxSame = 1
    MultiAccount = FALSE
    MaxAccounts = 1
    LockEnabled = TRUE
    Retries = 0
    RandomTokens = FALSE
    DeletesByDevice = FALSE
    MayExpire = FALSE
    MayFail = FALSE
    MayCrash = FALSE
    LockMayExpire = FALSE
    MaxCreated = 3
INVARIANTS SingleSession
