--------------------------- MODULE SessionRegistry ---------------------------
(***************************************************************************)
(* What AuthService promises of sessions, without requests, locks or       *)
(* stores: a login opens one session, which lives until it is ended once   *)
(* and for all, and a user never has more than Limit of them at a limited  *)
(* place (a device).  A session is named by the login that opened it.      *)
(***************************************************************************)
EXTENDS Naturals, FiniteSets

CONSTANTS
    User, Place, Login,
    Limited,   \* the places where a user's sessions are limited
    Limit      \* to how many

VARIABLES
    live,    \* the sessions that are open: [login, user, place]
    ended    \* the logins whose session is over

vars == <<live, ended>>

At(S, u, d) == {s \in S : s.user = u /\ s.place = d}

Init == live = {} /\ ended = {}

Open(n, u, d) ==
    /\ n \notin ended
    /\ \A s \in live : s.login # n
    /\ d \in Limited => Cardinality(At(live, u, d)) < Limit
    /\ live' = live \cup {[login |-> n, user |-> u, place |-> d]}
    /\ UNCHANGED ended

End(S) ==
    /\ live' = live \ S
    /\ ended' = ended \cup {s.login : s \in S}

Next ==
    \/ \E n \in Login, u \in User, d \in Place : Open(n, u, d)
    \/ \E S \in SUBSET live : End(S)

Spec == Init /\ [][Next]_vars

==============================================================================
