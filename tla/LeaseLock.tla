------------------------------ MODULE LeaseLock ------------------------------
(***************************************************************************)
(* The contract of the DistributedLock interface: a lease per key, granted *)
(* for Ttl milliseconds under a fresh token, given back only by the holder *)
(* of that token.  It is also, command by command, RedisDistributedLock:   *)
(* SET key token PX ttl NX grants, a Lua script compares and deletes, and  *)
(* the server forgets the key when its time is over.                       *)
(***************************************************************************)
EXTENDS Naturals

CONSTANTS
    Key,        \* the names that can be locked
    Ttl,        \* ttlMs, in clock ticks
    MaxClock,   \* BOUND: how long the model runs
    MaxTokens   \* BOUND: how many leases it grants

VARIABLES
    clock,        \* Date.now() of the caller, the server's clock for Redis
    lease,        \* lease[k]: who holds k, NoLease when nobody does
    issued,       \* number of tokens drawn: randomUUID never repeats one
    outstanding   \* LockTokens in the hands of callers that did not release

vars == <<clock, lease, issued, outstanding>>

Lease == [token : Nat, expireAt : Nat]
NoLease == [token |-> 0, expireAt |-> 0]
LockToken == [key : Key, token : Nat, expireAt : Nat]

TypeOK ==
    /\ clock \in Nat
    /\ lease \in [Key -> Lease]
    /\ issued \in Nat
    /\ outstanding \in SUBSET LockToken

Init ==
    /\ clock = 0
    /\ lease = [k \in Key |-> NoLease]
    /\ issued = 0
    /\ outstanding = {}

\* SET auth:lock:<key> <token> PX ttl NX answered OK.
Acquire(k) ==
    /\ issued < MaxTokens
    /\ lease[k] = NoLease
    /\ issued' = issued + 1
    /\ lease' = [lease EXCEPT ![k] = [token |-> issued + 1, expireAt |-> clock + Ttl]]
    /\ outstanding' = outstanding \cup
           {[key |-> k, token |-> issued + 1, expireAt |-> clock + Ttl]}
    /\ UNCHANGED clock

\* The compare-and-delete script, run with a token that may be long expired.
Release(l) ==
    /\ l \in outstanding
    /\ lease' = [lease EXCEPT ![l.key] = IF @.token = l.token THEN NoLease ELSE @]
    /\ outstanding' = outstanding \ {l}
    /\ UNCHANGED <<clock, issued>>

\* Time passes; the keys whose PX is over are gone.
Tick ==
    /\ clock < MaxClock
    /\ clock' = clock + 1
    /\ lease' = [k \in Key |-> IF clock + 1 < lease[k].expireAt
                               THEN lease[k] ELSE NoLease]
    /\ UNCHANGED <<issued, outstanding>>

Next ==
    \/ \E k \in Key : Acquire(k)
    \/ \E l \in outstanding : Release(l)
    \/ Tick

Spec == Init /\ [][Next]_vars

------------------------------------------------------------------------------

\* A caller still owns the lock while it has not released it and its time is
\* not over.
Owns(l) == l \in outstanding /\ clock < l.expireAt

\* Two callers never own the same key together, whatever the order of grants,
\* expiries and late releases: what login's critical section relies on.
LeaseExclusion ==
    \A l, m \in outstanding :
        l.key = m.key /\ Owns(l) /\ Owns(m) => l = m

\* A caller that owns the lock is the one the lock service knows: neither a
\* release with an old token nor an expiry takes a lease that is still running.
OwnersAreKnown ==
    \A l \in outstanding :
        Owns(l) => lease[l.key] = [token |-> l.token, expireAt |-> l.expireAt]

==============================================================================
