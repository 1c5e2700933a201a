------------------------ MODULE MemoryDistributedLock ------------------------
(***************************************************************************)
(* MemoryDistributedLock: a Map from key to token, expireAt and timer.     *)
(* Both methods run to their end without awaiting, so each is one action.  *)
(* The timer set by acquire deletes the entry of the key WITHOUT looking   *)
(* at the token: that no timer outlives its own entry is what makes this   *)
(* safe.  Timers fire late (the event loop may be busy), never early.      *)
(***************************************************************************)
EXTENDS Naturals

CONSTANTS Key, Ttl, MaxClock, MaxTokens

ASSUME LockAssumption ==
    /\ Ttl \in Nat \ {0}
    /\ MaxClock \in Nat
    /\ MaxTokens \in Nat

VARIABLES
    clock,        \* Date.now()
    locks,        \* the Map: locks[k] is NoEntry when the key is absent
    timers,       \* pending setTimeout callbacks: [key, entry token, fireAt]
    issued,       \* number of tokens drawn
    outstanding   \* LockTokens in the hands of callers that did not release

vars == <<clock, locks, timers, issued, outstanding>>

Entry == [token : Nat, expireAt : Nat]
NoEntry == [token |-> 0, expireAt |-> 0]
LockToken == [key : Key, token : Nat, expireAt : Nat]
Timer == [key : Key, token : Nat, fireAt : Nat]

\* No entry is dated further ahead than a ttl.
TypeOK ==
    /\ clock \in Nat
    /\ locks \in [Key -> Entry]
    /\ \A k \in Key : locks[k].expireAt <= clock + Ttl
    /\ timers \in SUBSET Timer
    /\ issued \in Nat
    /\ outstanding \in SUBSET LockToken

Init ==
    /\ clock = 0
    /\ locks = [k \in Key |-> NoEntry]
    /\ timers = {}
    /\ issued = 0
    /\ outstanding = {}

\* clearTimeout(existing.timer): the entry holds the handle of the timer its
\* own acquire set, named here by the token.
TimersOf(k, token) == {t \in timers : t.key = k /\ t.token = token}

Expired(k) == locks[k] # NoEntry /\ clock >= locks[k].expireAt

\* MUTANT of Acquire: the timer of the leftover entry is not cleared.
AcquireKeepsOldTimer(k) ==
    /\ issued < MaxTokens
    /\ locks[k] = NoEntry \/ Expired(k)
    /\ issued' = issued + 1
    /\ locks' = [locks EXCEPT ![k] = [token |-> issued + 1, expireAt |-> clock + Ttl]]
    /\ timers' = timers \cup {[key |-> k, token |-> issued + 1, fireAt |-> clock + Ttl]}
    /\ outstanding' = outstanding \cup
           {[key |-> k, token |-> issued + 1, expireAt |-> clock + Ttl]}
    /\ UNCHANGED clock

\* MUTANT of Acquire: no timer is set.
AcquireSetsNoTimer(k) ==
    /\ issued < MaxTokens
    /\ locks[k] = NoEntry \/ Expired(k)
    /\ issued' = issued + 1
    /\ locks' = [locks EXCEPT ![k] = [token |-> issued + 1, expireAt |-> clock + Ttl]]
    /\ outstanding' = outstanding \cup
           {[key |-> k, token |-> issued + 1, expireAt |-> clock + Ttl]}
    /\ UNCHANGED <<clock, timers>>

\* MUTANT of Acquire: the milliseconds are taken for seconds.
AcquireSeconds(k) ==
    /\ issued < MaxTokens
    /\ locks[k] = NoEntry \/ Expired(k)
    /\ issued' = issued + 1
    /\ locks' = [locks EXCEPT ![k] = [token |-> issued + 1, expireAt |-> clock + 1000 * Ttl]]
    /\ timers' = (timers \ TimersOf(k, locks[k].token)) \cup
           {[key |-> k, token |-> issued + 1, fireAt |-> clock + 1000 * Ttl]}
    /\ outstanding' = outstanding \cup
           {[key |-> k, token |-> issued + 1, expireAt |-> clock + 1000 * Ttl]}
    /\ UNCHANGED clock

\* acquire, granted: a leftover entry whose time is over is dropped with its
\* timer, then the new entry, its timer and the caller's token are made.
Acquire(k) ==
    /\ issued < MaxTokens
    /\ locks[k] = NoEntry \/ Expired(k)
    /\ issued' = issued + 1
    /\ locks' = [locks EXCEPT ![k] = [token |-> issued + 1, expireAt |-> clock + Ttl]]
    /\ timers' = (timers \ TimersOf(k, locks[k].token)) \cup
           {[key |-> k, token |-> issued + 1, fireAt |-> clock + Ttl]}
    /\ outstanding' = outstanding \cup
           {[key |-> k, token |-> issued + 1, expireAt |-> clock + Ttl]}
    /\ UNCHANGED clock

\* MUTANT of Release: the token is not compared.
ReleaseAnyToken(l) ==
    /\ l \in outstanding
    /\ outstanding' = outstanding \ {l}
    /\ locks' = [locks EXCEPT ![l.key] = NoEntry]
    /\ timers' = timers \ TimersOf(l.key, locks[l.key].token)
    /\ UNCHANGED <<clock, issued>>

\* MUTANT of Release: clearTimeout is forgotten.
ReleaseKeepsTimer(l) ==
    /\ l \in outstanding
    /\ outstanding' = outstanding \ {l}
    /\ locks' = IF locks[l.key].token = l.token
                THEN [locks EXCEPT ![l.key] = NoEntry] ELSE locks
    /\ UNCHANGED <<clock, issued, timers>>

\* release: does nothing unless the entry still carries the caller's token.
Release(l) ==
    /\ l \in outstanding
    /\ outstanding' = outstanding \ {l}
    /\ IF locks[l.key].token = l.token
       THEN /\ locks' = [locks EXCEPT ![l.key] = NoEntry]
            /\ timers' = timers \ TimersOf(l.key, l.token)
       ELSE UNCHANGED <<locks, timers>>
    /\ UNCHANGED <<clock, issued>>

\* The callback of acquire's setTimeout: this.locks.delete(key).
Fire(t) ==
    /\ t \in timers
    /\ clock >= t.fireAt
    /\ timers' = timers \ {t}
    /\ locks' = [locks EXCEPT ![t.key] = NoEntry]
    /\ UNCHANGED <<clock, issued, outstanding>>

Tick ==
    /\ clock < MaxClock
    /\ clock' = clock + 1
    /\ UNCHANGED <<locks, timers, issued, outstanding>>

Next ==
    \/ \E k \in Key : Acquire(k)
    \/ \E l \in outstanding : Release(l)
    \/ \E t \in timers : Fire(t)
    \/ Tick

\* The event loop runs every timer that stays due, and time goes on.
Fairness == WF_vars(Tick) /\ \A k \in Key : WF_vars(\E t \in timers : t.key = k /\ Fire(t))

Spec == Init /\ [][Next]_vars
FairSpec == Spec /\ Fairness

------------------------------------------------------------------------------

\* Two callers never own the same key together.
Owns(l) == l \in outstanding /\ clock < l.expireAt

LockExclusion ==
    \A l, m \in outstanding :
        l.key = m.key /\ Owns(l) /\ Owns(m) => l = m

\* No timer outlives the entry that set it, and every entry has its timer: a
\* callback that deletes by key alone can only hit its own entry, and an entry
\* whose holder died does not stay for ever.
TimersMatchEntries ==
    /\ \A t \in timers :
           locks[t.key] = [token |-> t.token, expireAt |-> t.fireAt]
    /\ \A k \in Key : locks[k] # NoEntry => TimersOf(k, locks[k].token) # {}

\* A lock whose holder never releases it is free again: whatever entry a key
\* has, it is gone one day (entries the bounded clock can see expire).
AbandonedLockIsFreed ==
    \A k \in Key : \A n \in 1..MaxTokens :
        (locks[k].token = n /\ locks[k].expireAt <= MaxClock) ~> locks[k].token # n

\* What a lease observer sees of the Map: expired entries do not count.
LeaseView ==
    [k \in Key |-> IF clock < locks[k].expireAt THEN locks[k] ELSE NoEntry]

Contract == INSTANCE LeaseLock WITH lease <- LeaseView

\* The in-memory lock keeps the contract the Redis lock keeps, although its
\* entries stay in the Map after their time and are swept by timers.
ImplementsLease == Contract!Spec

==============================================================================
