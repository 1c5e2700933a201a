---------------------------- MODULE Permissions ----------------------------
(***************************************************************************)
(* PermissionEngine of permission.engine.ts.  A permission "a:b:c" is the  *)
(* sequence of its segments; the segment "*" stands for any one segment,   *)
(* and the permission "*" for every permission.                            *)
(***************************************************************************)
EXTENDS Naturals, Sequences

CONSTANTS
    Segment,      \* the segments that are names
    Star,         \* the segment "*"
    MaxSegments   \* BOUND: segments of a permission

ASSUME SegmentAssumption ==
    /\ Star \notin Segment
    /\ \E a, b \in Segment : a # b
    /\ MaxSegments \in Nat \ {0}

\* What split(':') makes of a permission, and of one without wildcards.
Permission == UNION {[1..n -> Segment \cup {Star}] : n \in 1..MaxSegments}
Name == UNION {[1..n -> Segment] : n \in 1..MaxSegments}

\* MUTANT of matchPermission: a grant also covers what lies below it.
matchPrefix(userPerm, required) ==
    \/ userPerm = <<Star>>
    \/ userPerm = required
    \/ /\ Len(userPerm) <= Len(required)
       /\ \A i \in 1..Len(userPerm) : userPerm[i] \in {Star, required[i]}

matchPermission(userPerm, required) ==
    \/ userPerm = <<Star>>
    \/ userPerm = required
    \/ /\ Len(userPerm) = Len(required)
       /\ \A i \in 1..Len(userPerm) : userPerm[i] \in {Star, required[i]}

\* Every required permission is granted.
hasPermission(granted, required) ==
    \A r \in required : \E g \in granted : matchPermission(g, r)

\* One of the required roles is held; a route may require none.
hasRole(roles, required) == required = {} \/ required \cap roles # {}

------------------------------------------------------------------------------

\* The reference: which permissions without wildcards a pattern stands for.
StandsFor(p, name) ==
    \/ p = <<Star>>
    \/ /\ Len(p) = Len(name)
       /\ \A i \in 1..Len(p) : p[i] \in {Star, name[i]}

\* A grant matches a requirement exactly when everything the requirement stands
\* for is in the grant, wildcards on either side (permission.engine.ts:73-95).
MatchIsInclusion ==
    \A g, r \in Permission :
        matchPermission(g, r) <=> \A name \in Name : StandsFor(r, name) => StandsFor(g, name)

=============================================================================
