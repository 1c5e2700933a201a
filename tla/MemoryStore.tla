----------------------------- MODULE MemoryStore -----------------------------
(***************************************************************************)
(* MemoryStore: sessions in a Map with an expiry date and a sweeping       *)
(* timer each, an LRU order that bounds their number, and a blacklist of   *)
(* users with expiry dates and timers of its own.  Every method runs to    *)
(* its end without awaiting, so each is one action; timer callbacks run    *)
(* between them, at or after the time they are due.                        *)
(*                                                                         *)
(* A timer is a record.  "own" says that the entry of its key still holds  *)
(* its handle, so that clearTimeout reaches it; a timer whose handle was   *)
(* lost runs to its end whatever happens to the key.  Session data is      *)
(* abstracted to the user it belongs to.                                   *)
(***************************************************************************)
EXTENDS Naturals, FiniteSets

CONSTANTS
    SessionId, User,
    Suspects,     \* BOUND: the users the blacklist is asked about
    MaxSize,      \* options.maxSize, 0 means no limit
    MaxTimeout,   \* MAX_TIMEOUT_MS: the longest delay setTimeout takes
    Ttls,         \* the ttl arguments used; 0 stands for none
    Durations,    \* the ban durations used
    Forever,      \* Number.MAX_SAFE_INTEGER, the expiry of a set without ttl
    MaxClock      \* BOUND: how long the model runs

ASSUME StoreAssumption ==
    /\ MaxSize \in Nat
    /\ MaxTimeout \in Nat \ {0}
    /\ Suspects \subseteq User
    /\ Ttls \subseteq Nat
    /\ Durations \subseteq Nat
    /\ MaxClock \in Nat
    /\ Forever \in Nat
    /\ \A ttl \in Ttls \cup Durations : MaxClock + ttl < Forever

VARIABLES
    clock,      \* Date.now()
    store,      \* the Map: session id -> [user, expireAt]
    lru,        \* the LRU Map in insertion order: lru[s] is the set of the
                \* sessions before s, accessed less recently than s
    blacklist,  \* user -> expireAt
    timers      \* pending setTimeout callbacks of both kinds

vars == <<clock, store, lru, blacklist, timers>>

Item == [user : User, expireAt : Nat]

\* key is a session id or a user, as kind tells.
Timer ==
    [kind : {"session"}, key : SessionId, expireAt : Nat, fireAt : Nat, own : BOOLEAN]
    \cup
    [kind : {"ban"}, key : User, expireAt : Nat, fireAt : Nat, own : BOOLEAN]

TypeOK ==
    /\ clock \in Nat
    /\ DOMAIN store \subseteq SessionId
    /\ \A s \in DOMAIN store : store[s] \in Item
    /\ DOMAIN lru \subseteq SessionId
    /\ \A s \in DOMAIN lru : lru[s] \subseteq SessionId
    /\ DOMAIN blacklist \subseteq User
    /\ \A u \in DOMAIN blacklist : blacklist[u] \in Nat
    /\ timers \subseteq Timer

Init ==
    /\ clock = 0
    /\ store = <<>>
    /\ lru = <<>>
    /\ blacklist = <<>>
    /\ timers = {}

------------------------------------------------------------------------------

Without(f, S) == [x \in DOMAIN f \ S |-> f[x]]
With(f, x, v) == [y \in DOMAIN f \cup {x} |-> IF y = x THEN v ELSE f[y]]

\* The order without the sessions of S; the order with s moved to its end.
Unlisted(order, S) == [s \in DOMAIN order \ S |-> order[s] \ S]
Touched(s) == With(Unlisted(lru, {s}), s, DOMAIN lru \ {s})

Least(a, b) == IF a <= b THEN a ELSE b
ExpiryOf(ttl) == IF ttl = 0 THEN Forever ELSE clock + ttl

\* clearTimeout with the handles that the entries of the keys hold.
Cleared(kind, keys) == {t \in timers : ~(t.kind = kind /\ t.key \in keys /\ t.own)}

\* scheduleExpiry: the delay is cut at MaxTimeout and the callback, when it
\* comes too early for expireAt, schedules the rest.
Scheduled(kind, key, expireAt, own) ==
    [kind |-> kind, key |-> key, expireAt |-> expireAt, own |-> own,
     fireAt |-> IF expireAt <= clock THEN clock
                ELSE clock + Least(expireAt - clock, MaxTimeout)]

\* blacklist.delete leaves the timer of the entry pending, its handle is lost.
Disowned(u) ==
    {IF t.kind = "ban" /\ t.key = u THEN [t EXCEPT !.own = FALSE] ELSE t : t \in timers}

\* MUTANT of DeleteSessions: the timers of all sessions are cleared.
DeleteSessionsAllTimers(S) ==
    /\ store' = Without(store, S)
    /\ lru' = Unlisted(lru, S)
    /\ timers' = Cleared("session", SessionId)
    /\ UNCHANGED <<clock, blacklist>>

\* internalDelete of each session of S.
DeleteSessions(S) ==
    /\ store' = Without(store, S)
    /\ lru' = Unlisted(lru, S)
    /\ timers' = Cleared("session", S)
    /\ UNCHANGED <<clock, blacklist>>

\* MUTANT of Victims: off by one.
VictimsTooLate(order, size) ==
    IF MaxSize > 0 /\ size > MaxSize + 1 THEN {s \in DOMAIN order : order[s] = {}} ELSE {}

\* MUTANT of Victims: all but the first session of the order go.
VictimsButFirst(order, size) ==
    IF MaxSize > 0 /\ size > MaxSize THEN {s \in DOMAIN order : order[s] # {}} ELSE {}

\* evictIfNeeded: over capacity, the first session of the order goes.
Victims(order, size) ==
    IF MaxSize > 0 /\ size > MaxSize THEN {s \in DOMAIN order : order[s] = {}} ELSE {}

SetSession(s, u, ttl) ==
    LET item == [user |-> u, expireAt |-> ExpiryOf(ttl)]
        full == With(store, s, item)
        gone == Victims(Touched(s), Cardinality(DOMAIN full))
    IN  /\ store' = Without(full, gone)
        /\ lru' = Unlisted(Touched(s), gone)
        /\ timers' = {t \in Cleared("session", {s}) \cup
                            {Scheduled("session", s, item.expireAt, TRUE)} :
                        ~(t.kind = "session" /\ t.key \in gone /\ t.own)}
        /\ UNCHANGED <<clock, blacklist>>

\* get: touches the order, or sweeps an expired session the timer has not met.
GetSession(s) ==
    /\ s \in DOMAIN store
    /\ IF clock > store[s].expireAt
       THEN DeleteSessions({s})
       ELSE /\ lru' = Touched(s)
            /\ UNCHANGED <<clock, store, blacklist, timers>>

DeleteSession(s) == DeleteSessions({s})

DeleteByUserId(u) == DeleteSessions({s \in DOMAIN store : store[s].user = u})

\* MUTANT of Renew: no check that the session exists.
RenewUnchecked(s, ttl) ==
    /\ store' = With(store, s, IF s \in DOMAIN store
                               THEN [store[s] EXCEPT !.expireAt = ExpiryOf(ttl)]
                               ELSE [expireAt |-> ExpiryOf(ttl)])
    /\ lru' = Touched(s)
    /\ timers' = Cleared("session", {s}) \cup
                     {Scheduled("session", s, ExpiryOf(ttl), TRUE)}
    /\ UNCHANGED <<clock, blacklist>>

\* MUTANT of Renew: the old timer is cleared, no new one set.
RenewWithoutTimer(s, ttl) ==
    /\ s \in DOMAIN store
    /\ store' = [store EXCEPT ![s].expireAt = ExpiryOf(ttl)]
    /\ lru' = Touched(s)
    /\ timers' = Cleared("session", {s})
    /\ UNCHANGED <<clock, blacklist>>

\* MUTANT of Renew: the old timer is not cleared.
RenewKeepsOldTimer(s, ttl) ==
    /\ s \in DOMAIN store
    /\ store' = [store EXCEPT ![s].expireAt = ExpiryOf(ttl)]
    /\ lru' = Touched(s)
    /\ timers' = timers \cup {Scheduled("session", s, ExpiryOf(ttl), TRUE)}
    /\ UNCHANGED <<clock, blacklist>>

Renew(s, ttl) ==
    /\ s \in DOMAIN store
    /\ store' = [store EXCEPT ![s].expireAt = ExpiryOf(ttl)]
    /\ lru' = Touched(s)
    /\ timers' = Cleared("session", {s}) \cup
                     {Scheduled("session", s, ExpiryOf(ttl), TRUE)}
    /\ UNCHANGED <<clock, blacklist>>

Clear ==
    /\ store' = <<>>
    /\ lru' = <<>>
    /\ blacklist' = <<>>
    /\ timers' = {t \in timers : ~t.own}
    /\ UNCHANGED clock

Ban(u, duration) ==
    /\ blacklist' = With(blacklist, u, clock + duration)
    /\ timers' = Cleared("ban", {u}) \cup
                     {Scheduled("ban", u, clock + duration, TRUE)}
    /\ UNCHANGED <<clock, store, lru>>

Unban(u) ==
    /\ u \in DOMAIN blacklist
    /\ blacklist' = Without(blacklist, {u})
    /\ timers' = Cleared("ban", {u})
    /\ UNCHANGED <<clock, store, lru>>

\* isBanned drops an entry whose time is over, without clearing its timer.
IsBanned(u) ==
    /\ u \in DOMAIN blacklist
    /\ clock > blacklist[u]
    /\ blacklist' = Without(blacklist, {u})
    /\ timers' = Disowned(u)
    /\ UNCHANGED <<clock, store, lru>>

------------------------------------------------------------------------------

\* A timer segment ends before expireAt: the next segment is scheduled, and
\* the handle it returns is dropped.
FireSegment(t) ==
    /\ clock < t.expireAt
    /\ timers' = (timers \ {t}) \cup {Scheduled(t.kind, t.key, t.expireAt, FALSE)}
    /\ UNCHANGED <<clock, store, lru, blacklist>>

FireSession(t) ==
    /\ t.kind = "session" /\ clock >= t.expireAt
    /\ store' = Without(store, {t.key})
    /\ lru' = Unlisted(lru, {t.key})
    /\ timers' = Cleared("session", {t.key}) \ {t}
    /\ UNCHANGED <<clock, blacklist>>

FireBan(t) ==
    /\ t.kind = "ban" /\ clock >= t.expireAt
    /\ blacklist' = Without(blacklist, {t.key})
    /\ timers' = {IF r.kind = "ban" /\ r.key = t.key THEN [r EXCEPT !.own = FALSE] ELSE r :
                     r \in timers \ {t}}
    /\ UNCHANGED <<clock, store, lru>>

Fire(t) ==
    /\ t \in timers
    /\ clock >= t.fireAt
    /\ FireSegment(t) \/ FireSession(t) \/ FireBan(t)

Tick ==
    /\ clock < MaxClock
    /\ clock' = clock + 1
    /\ UNCHANGED <<store, lru, blacklist, timers>>

Next ==
    \/ \E s \in SessionId :
           \/ \E u \in User, ttl \in Ttls : SetSession(s, u, ttl)
           \/ GetSession(s)
           \/ DeleteSession(s)
           \/ \E ttl \in Ttls : Renew(s, ttl)
    \/ \E u \in User : DeleteByUserId(u)
    \/ \E u \in Suspects :
           \/ \E duration \in Durations : Ban(u, duration)
           \/ Unban(u)
           \/ IsBanned(u)
    \/ Clear
    \/ \E t \in timers : Fire(t)
    \/ Tick

Spec == Init /\ [][Next]_vars

\* The event loop runs every timer that stays due, and time goes on.
FairSpec ==
    /\ Spec
    /\ WF_vars(Tick)
    /\ \A s \in SessionId :
           WF_vars(\E t \in timers : t.kind = "session" /\ t.key = s /\ Fire(t))
    /\ \A u \in User :
           WF_vars(\E t \in timers : t.kind = "ban" /\ t.key = u /\ Fire(t))

------------------------------------------------------------------------------

\* The LRU order lists exactly the stored sessions, each of two sessions on one
\* side of the other: an eviction always finds its victim in the Map.
LruMatchesStore ==
    /\ DOMAIN lru = DOMAIN store
    /\ \A s \in DOMAIN lru : lru[s] \subseteq DOMAIN lru \ {s}
    /\ \A s, r \in DOMAIN lru : s # r => (s \in lru[r] <=> r \notin lru[s])

\* evictIfNeeded drops one session per set and that is enough, as the order it
\* takes its victim from lists what is stored: the Map never holds more than
\* maxSize sessions.
WithinCapacity == LruMatchesStore /\ (MaxSize > 0 => Cardinality(DOMAIN store) <= MaxSize)

\* set never evicts the session it has just stored: a login that filled the
\* store does not hand out a token without a session.
NewSessionIsKept ==
    [][\A s \in SessionId, u \in User, ttl \in Ttls :
           SetSession(s, u, ttl) => s \in DOMAIN store']_vars

\* Every session with an expiry date has a timer that will sweep it at that
\* date, and so has every ban: nothing expired stays in memory for ever.
EveryEntryHasItsTimer ==
    /\ \A s \in DOMAIN store : \E t \in timers :
           t.kind = "session" /\ t.key = s /\ t.expireAt = store[s].expireAt
    /\ \A u \in DOMAIN blacklist : \E t \in timers :
           t.kind = "ban" /\ t.key = u /\ t.expireAt = blacklist[u]

\* No pending timer will delete a session before the expiry date it has now:
\* "clear the old timer" in set and renew (memory-store.ts:67, :192).
NoEarlyExpiry ==
    \A t \in timers : t.kind = "session" /\ t.key \in DOMAIN store =>
        t.expireAt >= store[t.key].expireAt

\* A session whose date the clock reaches is gone one day, renewed or set to
\* another date, whatever the callers do: renewals cannot detach the sweeping.
ExpiredSessionsAreSwept ==
    \A s \in SessionId : \A e \in 0..MaxClock :
        (s \in DOMAIN store /\ store[s].expireAt = e)
            ~> ~(s \in DOMAIN store /\ store[s].expireAt = e)

==============================================================================
