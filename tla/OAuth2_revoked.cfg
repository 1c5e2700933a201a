\* A refresh token replayed while its first use is being served.
SPECIFICATION Spec
CONSTANTS
    Process = {p1, p2}
    Code = {c1}
    CodeTtl = 0
    AccessTtl = 0
    MaxPairs = 2
    MaxClock = 0
INVARIANTS RevokedFamiliesStayDead
CHECK_DEADLOCK FALSE
SYMMETRY Symmetry
