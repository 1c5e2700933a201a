---------------------------- MODULE LeaseLockProofs ----------------------------
(***************************************************************************)
(* Mutual exclusion of the lease contract, that is of the Redis lock, for  *)
(* every set of keys, every ttl and any number of leases.                  *)
(***************************************************************************)
EXTENDS LeaseLock, TLAPS

\* randomUUID never repeats: a token handed out is positive, was drawn, and is
\* held by one caller.
TokensAreUnique ==
    /\ \A l \in outstanding : 0 < l.token /\ l.token <= issued
    /\ \A l, m \in outstanding : l.token = m.token => l = m

LeaseInv == TypeOK /\ TokensAreUnique /\ OwnersAreKnown

\* An owner is known by its token and date, so two owners of one key are one.
LEMMA KnownOwnersExclude == LeaseInv => LeaseExclusion
<1> SUFFICES ASSUME LeaseInv, NEW l \in outstanding, NEW m \in outstanding,
                    l.key = m.key, Owns(l), Owns(m)
             PROVE  l = m
    BY DEF LeaseExclusion
<1>1. /\ lease[l.key] = [token |-> l.token, expireAt |-> l.expireAt]
      /\ lease[m.key] = [token |-> m.token, expireAt |-> m.expireAt]
    BY DEF LeaseInv, OwnersAreKnown
<1>2. l.token = m.token
    BY <1>1
<1> QED
    BY <1>2 DEF LeaseInv, TokensAreUnique

LEMMA LeaseInit == ASSUME Ttl \in Nat PROVE Init => LeaseInv
BY DEF Init, LeaseInv, TypeOK, TokensAreUnique, OwnersAreKnown, NoLease, Lease

\* A grant: the key was free, so nobody owned it, and the token is new.
LEMMA AcquireKeepsInv ==
    ASSUME Ttl \in Nat, LeaseInv, NEW k \in Key, Acquire(k)
    PROVE  LeaseInv'
<1> DEFINE new == [key |-> k, token |-> issued + 1, expireAt |-> clock + Ttl]
<1>1. /\ outstanding' = outstanding \cup {new} /\ new \in LockToken
      /\ issued' = issued + 1 /\ clock' = clock /\ issued \in Nat
      /\ lease' = [lease EXCEPT ![k] = [token |-> issued + 1, expireAt |-> clock + Ttl]]
      /\ lease \in [Key -> Lease] /\ outstanding \subseteq LockToken
    BY DEF Acquire, LeaseInv, TypeOK, LockToken
<1>2. TypeOK'
    BY <1>1 DEF LeaseInv, TypeOK, Lease, LockToken
<1>3. TokensAreUnique'
    BY <1>1 DEF LeaseInv, TokensAreUnique, LockToken
<1>4. OwnersAreKnown'
    <2> SUFFICES ASSUME NEW l \in outstanding', Owns(l)'
                 PROVE  lease'[l.key] = [token |-> l.token, expireAt |-> l.expireAt]
        BY DEF OwnersAreKnown
    <2>1. CASE l = new
        BY <1>1, <2>1
    <2>2. CASE l # new
        <3>1. /\ l \in outstanding /\ Owns(l) /\ l \in LockToken /\ 0 < l.token
              /\ lease[l.key] = [token |-> l.token, expireAt |-> l.expireAt]
            BY <1>1, <2>2 DEF LeaseInv, OwnersAreKnown, TokensAreUnique, Owns
        <3>2. lease[k] = NoLease /\ l.key \in Key
            BY <3>1 DEF Acquire, LockToken
        <3>3. l.key # k
            BY <3>1, <3>2 DEF NoLease
        <3> QED
            BY <1>1, <3>1, <3>2, <3>3
    <2> QED
        BY <2>1, <2>2
<1> QED
    BY <1>2, <1>3, <1>4 DEF LeaseInv

\* A release, however late, frees the key only under the token it was granted
\* with, and no other caller holds that token.
LEMMA ReleaseKeepsInv ==
    ASSUME LeaseInv, NEW r \in outstanding, Release(r)
    PROVE  LeaseInv'
<1>1. /\ outstanding' = outstanding \ {r} /\ outstanding \subseteq LockToken
      /\ issued' = issued /\ clock' = clock
      /\ lease' = [lease EXCEPT ![r.key] =
             IF lease[r.key].token = r.token THEN NoLease ELSE lease[r.key]]
      /\ lease \in [Key -> Lease] /\ NoLease \in Lease /\ r.key \in Key
    BY DEF Release, LeaseInv, TypeOK, LockToken, Lease, NoLease
<1>2. TypeOK'
    BY <1>1 DEF LeaseInv, TypeOK
<1>3. TokensAreUnique'
    BY <1>1 DEF LeaseInv, TokensAreUnique
<1>4. OwnersAreKnown'
    <2> SUFFICES ASSUME NEW l \in outstanding', Owns(l)'
                 PROVE  lease'[l.key] = [token |-> l.token, expireAt |-> l.expireAt]
        BY DEF OwnersAreKnown
    <2>1. /\ l \in outstanding /\ l # r /\ l.key \in Key
          /\ lease[l.key] = [token |-> l.token, expireAt |-> l.expireAt]
        BY <1>1 DEF LeaseInv, OwnersAreKnown, Owns, LockToken
    <2>2. l.token # r.token
        BY <2>1 DEF LeaseInv, TokensAreUnique
    <2> QED
        BY <1>1, <2>1, <2>2
<1> QED
    BY <1>2, <1>3, <1>4 DEF LeaseInv

\* The server forgets the keys whose time is over, and only those.
LEMMA TickKeepsInv ==
    ASSUME LeaseInv, Tick
    PROVE  LeaseInv'
<1>1. /\ outstanding' = outstanding /\ issued' = issued /\ clock' = clock + 1
      /\ outstanding \subseteq LockToken /\ clock \in Nat
      /\ lease \in [Key -> Lease] /\ NoLease \in Lease
      /\ lease' = [k \in Key |-> IF clock + 1 < lease[k].expireAt
                                 THEN lease[k] ELSE NoLease]
    BY DEF Tick, LeaseInv, TypeOK, Lease, NoLease
<1>2. TypeOK'
    BY <1>1 DEF LeaseInv, TypeOK
<1>3. TokensAreUnique'
    BY <1>1 DEF LeaseInv, TokensAreUnique
<1>4. OwnersAreKnown'
    <2> SUFFICES ASSUME NEW l \in outstanding', Owns(l)'
                 PROVE  lease'[l.key] = [token |-> l.token, expireAt |-> l.expireAt]
        BY DEF OwnersAreKnown
    <2>1. /\ l \in outstanding /\ l \in LockToken /\ l.key \in Key
          /\ clock + 1 < l.expireAt /\ l.expireAt \in Nat
        BY <1>1 DEF Owns, LockToken
    <2>2. Owns(l)
        BY <1>1, <2>1 DEF Owns
    <2>3. lease[l.key] = [token |-> l.token, expireAt |-> l.expireAt]
        BY <2>1, <2>2 DEF LeaseInv, OwnersAreKnown
    <2> QED
        BY <1>1, <2>1, <2>3
<1> QED
    BY <1>2, <1>3, <1>4 DEF LeaseInv

\* acquire and release of RedisDistributedLock: two callers never own one key
\* together, and an owner is the one Redis knows, whatever the order of grants,
\* expiries and late releases.
THEOREM LeasesExclude ==
    ASSUME Ttl \in Nat
    PROVE  Spec => [](LeaseExclusion /\ OwnersAreKnown)
<1>1. Init => LeaseInv
    BY LeaseInit
<1>2. LeaseInv /\ [Next]_vars => LeaseInv'
    <2> SUFFICES ASSUME LeaseInv, [Next]_vars PROVE LeaseInv'
        OBVIOUS
    <2>1. CASE \E k \in Key : Acquire(k)
        BY <2>1, AcquireKeepsInv
    <2>2. CASE \E l \in outstanding : Release(l)
        BY <2>2, ReleaseKeepsInv
    <2>3. CASE Tick
        BY <2>3, TickKeepsInv
    <2>4. CASE UNCHANGED vars
        BY <2>4 DEF vars, LeaseInv, TypeOK, TokensAreUnique, OwnersAreKnown, Owns
    <2> QED
        BY <2>1, <2>2, <2>3, <2>4 DEF Next
<1>3. LeaseInv => LeaseExclusion /\ OwnersAreKnown
    BY KnownOwnersExclude DEF LeaseInv
<1> QED
    BY <1>1, <1>2, <1>3, PTL DEF Spec

================================================================================
