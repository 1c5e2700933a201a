\* Two requests at once, over either store; long enough for codes and access
\* tokens to expire, with pairs enough for a family to be rotated twice.
SPECIFICATION Spec
CONSTANTS
    Process = {p1, p2}
    Code = {c1}
    CodeTtl = 0
    AccessTtl = 0
    MaxPairs = 3
    MaxClock = 1
INVARIANTS TypeOK GrantsRedeemedOnce OneUnusedPerFamily LiveTokensAreRevocable
CHECK_DEADLOCK FALSE
SYMMETRY Symmetry
