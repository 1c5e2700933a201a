CONSTANTS
    u1 = u1
    u2 = u2
    here = here
    there = there
    app = app
    web = web
    Unknown = Unknown
    a = a
    b = b
    any = any
    admin = admin
    Segment = {a, b}
    Star = any
    MaxSegments = 2
    User = {u1, u2}
    Role = {admin}
    Client <- MCClient
    Process = {p1, p2}
    Configs <- BanConfigs
    Whitelist = {here}
    Routes <- MCRoutes
    AdminRoles = {admin}
    AdminGrants <- MCAdminGrants
    RolesOf <- MCRolesOf
    GrantsOf <- MCGrantsOf
    MaxIds = 3
    MaxSafe = 1
SPECIFICATION Spec
SYMMETRY Symmetry
CHECK_DEADLOCK FALSE
INVARIANTS BannedUsersAreRefused
