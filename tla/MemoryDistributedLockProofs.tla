--------------------- MODULE MemoryDistributedLockProofs ---------------------
(***************************************************************************)
(* Proofs about MemoryDistributedLock, for any keys, ttl and bounds: its   *)
(* inductive invariant, mutual exclusion, and that it keeps the contract   *)
(* LeaseLock.                                                              *)
(***************************************************************************)
EXTENDS MemoryDistributedLock, TLAPS

\* Tokens are drawn once: no two LockTokens share one, none is yet to come.
TokensAreDistinct ==
    /\ \A l, m \in outstanding : l.token = m.token => l = m
    /\ \A l \in outstanding : l.token \in 1..issued
    /\ \A k \in Key : locks[k] # NoEntry => locks[k].token \in 1..issued

\* The entry of a key is that of the caller that owns it.
OwnersAreKnown ==
    \A l \in outstanding :
        Owns(l) => locks[l.key] = [token |-> l.token, expireAt |-> l.expireAt]

LockInv ==
    TypeOK /\ TokensAreDistinct /\ TimersMatchEntries /\ OwnersAreKnown

------------------------------------------------------------------------------

LEMMA LockInitially == Init => LockInv
  BY LockAssumption
  DEF Init, LockInv, TypeOK, TokensAreDistinct, TimersMatchEntries,
      OwnersAreKnown, Owns, Entry, NoEntry, LockToken, Timer, TimersOf

\* acquire: no owner of the key is left, since its entry, if any, is over.
LEMMA AcquireKeepsInv ==
  ASSUME LockInv, NEW k \in Key, Acquire(k)
  PROVE  LockInv'
<1> DEFINE entry == [token |-> issued + 1, expireAt |-> clock + Ttl]
           lt == [key |-> k, token |-> issued + 1, expireAt |-> clock + Ttl]
           timer == [key |-> k, token |-> issued + 1, fireAt |-> clock + Ttl]
<1> USE LockAssumption
<1>1. /\ entry \in Entry /\ lt \in LockToken /\ timer \in Timer
      /\ locks' = [locks EXCEPT ![k] = entry]
      /\ outstanding' = outstanding \cup {lt}
      /\ timers' = (timers \ TimersOf(k, locks[k].token)) \cup {timer}
      /\ issued' = issued + 1 /\ clock' = clock
  BY DEF LockInv, TypeOK, Acquire, Entry, LockToken, Timer
<1>2. TypeOK'
  BY <1>1 DEF LockInv, TypeOK
<1>3. TokensAreDistinct'
  <2>1. \A l \in outstanding : l.token \in 1..issued
    BY DEF LockInv, TokensAreDistinct
  <2>2. \A l, m \in outstanding' : l.token = m.token => l = m
    BY <1>1, <2>1 DEF LockInv, TypeOK, TokensAreDistinct
  <2>3. \A l \in outstanding' : l.token \in 1..issued'
    BY <1>1, <2>1 DEF LockInv, TypeOK
  <2>4. \A j \in Key : locks'[j] # NoEntry => locks'[j].token \in 1..issued'
    BY <1>1 DEF LockInv, TypeOK, TokensAreDistinct
  <2> QED BY <2>2, <2>3, <2>4 DEF TokensAreDistinct
<1>4. TimersMatchEntries'
  <2>1. ASSUME NEW t \in timers'
        PROVE  locks'[t.key] = [token |-> t.token, expireAt |-> t.fireAt]
    <3>1. CASE t = timer
      BY <1>1, <3>1 DEF LockInv, TypeOK
    <3>2. CASE t \in timers /\ t \notin TimersOf(k, locks[k].token)
      <4>1. t.key # k
        <5> SUFFICES ASSUME t.key = k PROVE FALSE
          OBVIOUS
        <5>1. locks[k] = [token |-> t.token, expireAt |-> t.fireAt]
          BY <3>2 DEF LockInv, TimersMatchEntries
        <5>2. locks[k].token = t.token
          BY <5>1
        <5> QED BY <3>2, <5>2 DEF TimersOf
      <4> QED BY <1>1, <3>2, <4>1 DEF LockInv, TypeOK, TimersMatchEntries, Timer
    <3> QED BY <1>1, <2>1, <3>1, <3>2
  <2>2. ASSUME NEW j \in Key, locks'[j] # NoEntry
        PROVE  \E t \in timers' : t.key = j /\ t.token = locks'[j].token
    <3>1. CASE j = k
      BY <1>1, <3>1 DEF LockInv, TypeOK
    <3>2. CASE j # k
      BY <1>1, <2>2, <3>2 DEF LockInv, TypeOK, TimersMatchEntries, TimersOf
    <3> QED BY <3>1, <3>2
  <2> QED BY <2>1, <2>2 DEF TimersMatchEntries, TimersOf
<1>5. OwnersAreKnown'
  <2> SUFFICES ASSUME NEW l \in outstanding', Owns(l)'
               PROVE  locks'[l.key] = [token |-> l.token, expireAt |-> l.expireAt]
    BY DEF OwnersAreKnown
  <2>1. CASE l = lt
    BY <1>1, <2>1 DEF LockInv, TypeOK
  <2>2. CASE l \in outstanding
    <3>1. locks[l.key] = [token |-> l.token, expireAt |-> l.expireAt] /\ clock < l.expireAt
      BY <1>1, <2>2 DEF LockInv, OwnersAreKnown, Owns
    <3>2. l.key # k
      <4> SUFFICES ASSUME l.key = k PROVE FALSE
        OBVIOUS
      <4>1. l.token \in 1..issued /\ issued \in Nat
        BY <2>2 DEF LockInv, TokensAreDistinct, TypeOK
      <4>2. locks[k].token = l.token /\ locks[k].expireAt = l.expireAt
        BY <3>1
      <4>3. locks[k] # NoEntry
        BY <4>1, <4>2 DEF NoEntry
      <4>4. clock >= l.expireAt
        BY <4>2, <4>3 DEF Acquire, Expired
      <4> QED BY <1>1, <2>2, <3>1, <4>4 DEF LockInv, TypeOK, LockToken
    <3> QED BY <1>1, <2>2, <3>1, <3>2 DEF LockInv, TypeOK, LockToken
  <2> QED BY <1>1, <2>1, <2>2
<1> QED BY <1>2, <1>3, <1>4, <1>5 DEF LockInv

\* release: only the entry that carries the caller's token goes, and its timer
\* with it; the owners of other tokens keep theirs.
LEMMA ReleaseKeepsInv ==
  ASSUME LockInv, NEW l \in outstanding, Release(l)
  PROVE  LockInv'
<1>1. /\ outstanding' = outstanding \ {l} /\ clock' = clock /\ issued' = issued
      /\ l \in LockToken /\ l.token \in 1..issued
  BY DEF LockInv, TypeOK, TokensAreDistinct, Release
<1>2. CASE locks[l.key].token # l.token
  <2>1. UNCHANGED <<locks, timers>>
    BY <1>2 DEF Release
  <2> QED
    BY <1>1, <2>1
    DEF LockInv, TypeOK, TokensAreDistinct, TimersMatchEntries, TimersOf,
        OwnersAreKnown, Owns
<1>3. CASE locks[l.key].token = l.token
  <2>1. /\ locks' = [locks EXCEPT ![l.key] = NoEntry]
        /\ timers' = timers \ TimersOf(l.key, l.token)
    BY <1>3 DEF Release
  <2>2. TypeOK'
    BY <1>1, <2>1, LockAssumption DEF LockInv, TypeOK, Entry, NoEntry, LockToken
  <2>3. TokensAreDistinct'
    BY <1>1, <2>1
    DEF LockInv, TypeOK, TokensAreDistinct, Entry, NoEntry, LockToken
  <2>4. TimersMatchEntries'
    <3>1. ASSUME NEW t \in timers'
          PROVE  t \in timers /\ t.key # l.key
      <4> SUFFICES ASSUME t.key = l.key PROVE FALSE
        BY <2>1
      <4>1. locks[l.key] = [token |-> t.token, expireAt |-> t.fireAt]
        BY <2>1 DEF LockInv, TimersMatchEntries
      <4>2. t.token = l.token
        BY <1>3, <4>1
      <4> QED BY <2>1, <4>2 DEF TimersOf
    <3>2. \A t \in timers' : locks'[t.key] = [token |-> t.token, expireAt |-> t.fireAt]
      BY <2>1, <3>1 DEF LockInv, TypeOK, TimersMatchEntries, Timer
    <3>3. ASSUME NEW j \in Key, locks'[j] # NoEntry
          PROVE  \E t \in timers' : t.key = j /\ t.token = locks'[j].token
      <4>1. j # l.key /\ locks'[j] = locks[j]
        BY <1>1, <2>1, <3>3 DEF LockInv, TypeOK, LockToken
      <4>2. PICK t \in timers : t.key = j /\ t.token = locks[j].token
        BY <3>3, <4>1 DEF LockInv, TimersMatchEntries, TimersOf
      <4> QED BY <2>1, <4>1, <4>2 DEF TimersOf
    <3> QED BY <3>2, <3>3 DEF TimersMatchEntries, TimersOf
  <2>5. OwnersAreKnown'
    <3> SUFFICES ASSUME NEW m \in outstanding', Owns(m)'
                 PROVE  locks'[m.key] = [token |-> m.token, expireAt |-> m.expireAt]
      BY DEF OwnersAreKnown
    <3>1. /\ m \in outstanding /\ m # l /\ m \in LockToken
          /\ locks[m.key] = [token |-> m.token, expireAt |-> m.expireAt]
      BY <1>1 DEF LockInv, TypeOK, OwnersAreKnown, Owns
    <3>2. m.key # l.key
      <4> SUFFICES ASSUME m.key = l.key PROVE FALSE
        OBVIOUS
      <4>1. m.token = l.token
        BY <1>3, <3>1
      <4> QED BY <3>1, <4>1 DEF LockInv, TokensAreDistinct
    <3> QED BY <1>1, <2>1, <3>1, <3>2 DEF LockInv, TypeOK, LockToken
  <2> QED BY <2>2, <2>3, <2>4, <2>5 DEF LockInv
<1> QED BY <1>2, <1>3

\* The timer deletes by key alone, but the entry it hits is the one that set it
\* and that one is over.
LEMMA FireKeepsInv ==
  ASSUME LockInv, NEW t \in timers, Fire(t)
  PROVE  LockInv'
<1>1. /\ locks' = [locks EXCEPT ![t.key] = NoEntry]
      /\ timers' = timers \ {t}
      /\ UNCHANGED <<clock, issued, outstanding>>
      /\ clock >= t.fireAt
      /\ t \in Timer
      /\ locks[t.key] = [token |-> t.token, expireAt |-> t.fireAt]
  BY DEF LockInv, TypeOK, TimersMatchEntries, Fire
<1>2. TypeOK'
  BY <1>1, LockAssumption DEF LockInv, TypeOK, Entry, NoEntry, Timer
<1>3. TokensAreDistinct'
  BY <1>1 DEF LockInv, TypeOK, TokensAreDistinct, Entry, NoEntry, Timer
<1>4. TimersMatchEntries'
  <2>1. ASSUME NEW r \in timers'
        PROVE  r \in timers /\ r.key # t.key
    <3> SUFFICES ASSUME r.key = t.key PROVE FALSE
      BY <1>1
    <3>1. locks[t.key] = [token |-> r.token, expireAt |-> r.fireAt]
      BY <1>1 DEF LockInv, TimersMatchEntries
    <3>2. r.token = t.token /\ r.fireAt = t.fireAt
      BY <1>1, <3>1
    <3>3. r \in Timer
      BY <1>1 DEF LockInv, TypeOK
    <3> QED BY <1>1, <3>2, <3>3 DEF Timer
  <2>2. \A r \in timers' : locks'[r.key] = [token |-> r.token, expireAt |-> r.fireAt]
    BY <1>1, <2>1 DEF LockInv, TypeOK, TimersMatchEntries, Timer
  <2>3. ASSUME NEW j \in Key, locks'[j] # NoEntry
        PROVE  \E r \in timers' : r.key = j /\ r.token = locks'[j].token
    <3>1. j # t.key /\ locks'[j] = locks[j]
      BY <1>1, <2>3 DEF LockInv, TypeOK, Timer
    <3>2. PICK r \in timers : r.key = j /\ r.token = locks[j].token
      BY <2>3, <3>1 DEF LockInv, TimersMatchEntries, TimersOf
    <3> QED BY <1>1, <3>1, <3>2
  <2> QED BY <2>2, <2>3 DEF TimersMatchEntries, TimersOf
<1>5. OwnersAreKnown'
  <2> SUFFICES ASSUME NEW m \in outstanding', Owns(m)'
               PROVE  locks'[m.key] = [token |-> m.token, expireAt |-> m.expireAt]
    BY DEF OwnersAreKnown
  <2>1. /\ m \in outstanding /\ m \in LockToken /\ clock < m.expireAt
        /\ locks[m.key] = [token |-> m.token, expireAt |-> m.expireAt]
    BY <1>1 DEF LockInv, TypeOK, OwnersAreKnown, Owns
  <2>2. m.key # t.key
    <3> SUFFICES ASSUME m.key = t.key PROVE FALSE
      OBVIOUS
    <3>1. m.expireAt = t.fireAt
      BY <1>1, <2>1
    <3> QED BY <1>1, <2>1, <3>1 DEF LockInv, TypeOK, LockToken, Timer
  <2> QED BY <1>1, <2>1, <2>2 DEF LockInv, TypeOK, LockToken
<1> QED BY <1>2, <1>3, <1>4, <1>5 DEF LockInv

LEMMA TickKeepsInv ==
  ASSUME LockInv, Tick
  PROVE  LockInv'
<1>1. /\ clock \in Nat /\ clock' = clock + 1
      /\ UNCHANGED <<locks, timers, issued, outstanding>>
  BY DEF LockInv, TypeOK, Tick
<1>2. TypeOK'
  <2>1. ASSUME NEW k \in Key PROVE locks'[k].expireAt <= clock' + Ttl
    <3>1. locks[k].expireAt \in Nat /\ locks[k].expireAt <= clock + Ttl
      BY DEF LockInv, TypeOK, Entry
    <3> QED BY <1>1, <3>1, LockAssumption
  <2> QED BY <1>1, <2>1 DEF LockInv, TypeOK
<1>3. TokensAreDistinct' /\ TimersMatchEntries'
  BY <1>1 DEF LockInv, TypeOK, TokensAreDistinct, TimersMatchEntries, TimersOf
<1>4. OwnersAreKnown'
  BY <1>1 DEF LockInv, TypeOK, OwnersAreKnown, Owns, LockToken
<1> QED BY <1>2, <1>3, <1>4 DEF LockInv

LEMMA StutterKeepsInv == LockInv /\ UNCHANGED vars => LockInv'
  BY DEF LockInv, TypeOK, TokensAreDistinct, TimersMatchEntries, TimersOf,
         OwnersAreKnown, Owns, vars

LEMMA StepKeepsInv == LockInv /\ [Next]_vars => LockInv'
  BY AcquireKeepsInv, ReleaseKeepsInv, FireKeepsInv, TickKeepsInv, StutterKeepsInv
  DEF Next

\* The inductive invariant holds in every reachable state.
LEMMA LockInvariance == Spec => []LockInv
  BY LockInitially, StepKeepsInv, PTL DEF Spec

\* The type invariant of the lock.
THEOREM TypeCorrect == Spec => []TypeOK
<1>1. LockInv => TypeOK
  BY DEF LockInv
<1> QED BY LockInvariance, <1>1, PTL

\* Acquire, release and callbacks in any order leave every entry its own timer
\* and no timer without its entry.
THEOREM TimersFollowEntries == Spec => []TimersMatchEntries
<1>1. LockInv => TimersMatchEntries
  BY DEF LockInv
<1> QED BY LockInvariance, <1>1, PTL

------------------------------------------------------------------------------

\* Two callers never own a key together.
THEOREM MutualExclusion == Spec => []LockExclusion
<1>1. LockInv => LockExclusion
  <2> SUFFICES ASSUME LockInv, NEW l \in outstanding, NEW m \in outstanding,
                      l.key = m.key, Owns(l), Owns(m)
               PROVE  l = m
    BY DEF LockExclusion
  <2>1. /\ locks[l.key] = [token |-> l.token, expireAt |-> l.expireAt]
        /\ locks[l.key] = [token |-> m.token, expireAt |-> m.expireAt]
    BY DEF LockInv, OwnersAreKnown
  <2>2. l.token = m.token
    BY <2>1
  <2> QED BY <2>2 DEF LockInv, TokensAreDistinct
<1> QED BY LockInvariance, <1>1, PTL

------------------------------------------------------------------------------
\* The contract LeaseLock, seen through LeaseView.

LEMMA ViewChangesAtKey ==
  ASSUME NEW k \in Key, NEW e,
         LeaseView'[k] = e,
         \A j \in Key : j # k => LeaseView'[j] = LeaseView[j]
  PROVE  LeaseView' = [LeaseView EXCEPT ![k] = e]
<1> DEFINE new == [LeaseView EXCEPT ![k] = e]
<1>1. LeaseView' = [j \in Key |-> LeaseView'[j]]
  BY DEF LeaseView
<1>2. LeaseView = [j \in Key |-> LeaseView[j]]
  BY DEF LeaseView
<1>3. new = [j \in Key |-> IF j = k THEN e ELSE LeaseView[j]]
  BY <1>2
<1> QED BY <1>1, <1>3

LEMMA InitIsContractInit == Init => Contract!Init
  BY DEF Init, Contract!Init, LeaseView, Contract!NoLease, NoEntry

LEMMA AcquireIsContractAcquire ==
  ASSUME LockInv, NEW k \in Key, Acquire(k)
  PROVE  Contract!Acquire(k)
<1> USE LockAssumption
<1>1. clock \in Nat /\ Ttl \in Nat \ {0} /\ clock' = clock
  BY DEF LockInv, TypeOK, Acquire
<1>2. LeaseView[k] = NoEntry
  BY <1>1 DEF Acquire, Expired, LeaseView, NoEntry, LockInv, TypeOK, Entry
<1> DEFINE lease == [token |-> issued + 1, expireAt |-> clock + Ttl]
<1>3. LeaseView' = [LeaseView EXCEPT ![k] = lease]
  <2>1. LeaseView'[k] = lease
    BY <1>1 DEF Acquire, LeaseView, LockInv, TypeOK
  <2>2. \A j \in Key : j # k => LeaseView'[j] = LeaseView[j]
    BY <1>1 DEF Acquire, LeaseView, LockInv, TypeOK
  <2> QED BY <2>1, <2>2, ViewChangesAtKey
<1> QED BY <1>2, <1>3 DEF Acquire, Contract!Acquire, Contract!NoLease, NoEntry

LEMMA ReleaseIsContractRelease ==
  ASSUME LockInv, NEW l \in outstanding, Release(l)
  PROVE  Contract!Release(l)
<1>1. l.token \in 1..issued /\ issued \in Nat /\ l \in LockToken
  BY DEF LockInv, TypeOK, TokensAreDistinct
<1>2. LeaseView' = [LeaseView EXCEPT ![l.key] = IF @.token = l.token THEN NoEntry ELSE @]
  <2>1. ASSUME NEW k \in Key, k # l.key
        PROVE  LeaseView'[k] = LeaseView[k]
    BY <1>1, <2>1 DEF Release, LeaseView, LockInv, TypeOK
  <2>2. LeaseView'[l.key] = IF LeaseView[l.key].token = l.token THEN NoEntry ELSE LeaseView[l.key]
    <3>1. l.key \in Key /\ clock' = clock
      BY <1>1 DEF LockToken, Release
    <3>2. CASE locks[l.key].token = l.token
      BY <1>1, <3>1, <3>2 DEF Release, LeaseView, NoEntry, LockInv, TypeOK
    <3>3. CASE locks[l.key].token # l.token
      BY <1>1, <3>1, <3>3 DEF Release, LeaseView, NoEntry, LockInv, TypeOK
    <3> QED BY <3>2, <3>3
  <2> QED BY <1>1, <2>1, <2>2, ViewChangesAtKey DEF LockToken
<1> QED BY <1>2 DEF Release, Contract!Release, Contract!NoLease, NoEntry

\* A callback removes what the observer no longer sees.
LEMMA FireIsContractStutter ==
  ASSUME LockInv, NEW t \in timers, Fire(t)
  PROVE  UNCHANGED Contract!vars
<1>1. /\ locks' = [locks EXCEPT ![t.key] = NoEntry]
      /\ UNCHANGED <<clock, issued, outstanding>>
      /\ clock >= t.fireAt /\ t \in Timer
      /\ locks[t.key] = [token |-> t.token, expireAt |-> t.fireAt]
  BY DEF LockInv, TypeOK, TimersMatchEntries, Fire
<1>2. ~(clock < locks[t.key].expireAt) /\ ~(clock < NoEntry.expireAt)
  BY <1>1 DEF LockInv, TypeOK, Timer, NoEntry
<1>3. LeaseView' = LeaseView
  BY <1>1, <1>2 DEF LeaseView, LockInv, TypeOK, Timer
<1> QED BY <1>1, <1>3 DEF Contract!vars

LEMMA TickIsContractTick ==
  ASSUME LockInv, Tick
  PROVE  Contract!Tick
<1>1. clock \in Nat /\ clock' = clock + 1 /\ UNCHANGED <<locks, timers, issued, outstanding>>
  BY DEF LockInv, TypeOK, Tick
<1>2. LeaseView' = [k \in Key |-> IF clock + 1 < LeaseView[k].expireAt
                                  THEN LeaseView[k] ELSE NoEntry]
  BY <1>1 DEF LeaseView, LockInv, TypeOK, Entry, NoEntry
<1> QED BY <1>1, <1>2 DEF Tick, Contract!Tick, Contract!NoLease, NoEntry

\* The in-memory lock keeps the contract that the Redis lock keeps: every step
\* is a step of LeaseLock or invisible in it.
THEOREM MemoryLockImplementsLease == Spec => ImplementsLease
<1>1. LockInv /\ [Next]_vars => [Contract!Next]_(Contract!vars)
  <2> SUFFICES ASSUME LockInv, [Next]_vars
               PROVE  [Contract!Next]_(Contract!vars)
    OBVIOUS
  <2>1. ASSUME NEW k \in Key, Acquire(k) PROVE Contract!Next
    BY <2>1, AcquireIsContractAcquire DEF Contract!Next
  <2>2. ASSUME NEW l \in outstanding, Release(l) PROVE Contract!Next
    BY <2>2, ReleaseIsContractRelease DEF Contract!Next
  <2>3. ASSUME NEW t \in timers, Fire(t) PROVE UNCHANGED Contract!vars
    BY <2>3, FireIsContractStutter
  <2>4. CASE Tick
    BY <2>4, TickIsContractTick DEF Contract!Next
  <2>5. CASE UNCHANGED vars
    BY <2>5 DEF vars, Contract!vars, LeaseView
  <2> QED BY <2>1, <2>2, <2>3, <2>4, <2>5 DEF Next
<1> QED BY InitIsContractInit, LockInvariance, <1>1, PTL
        DEF Spec, ImplementsLease, Contract!Spec

==============================================================================
