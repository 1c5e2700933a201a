-------------------------- MODULE MemoryStoreProofs --------------------------
(***************************************************************************)
(* MemoryStore, for any sessions, users, capacity, ttls and longest delay  *)
(* of a timer: its types, its capacity, that a set keeps the session it    *)
(* stores, that every entry has the timer that will remove it, and that no *)
(* timer comes early as long as the ttls fit one segment of a timer.       *)
(***************************************************************************)
EXTENDS MemoryStore, FiniteSetTheorems, TLAPS

\* The LRU Map as it should be: a strict total order, given by predecessors.
IsOrder(order) ==
    /\ \A s \in DOMAIN order : order[s] \subseteq DOMAIN order \ {s}
    /\ \A s, r \in DOMAIN order : s # r => (s \in order[r] <=> r \notin order[s])
    /\ \A s \in DOMAIN order : \A r \in order[s] : order[r] \subseteq order[s]

\* It orders what is stored, which is never too much.
CapacityInv ==
    /\ IsOrder(lru) /\ DOMAIN lru = DOMAIN store
    /\ IsFiniteSet(DOMAIN store)
    /\ MaxSize > 0 => Cardinality(DOMAIN store) <= MaxSize

LEMMA BoundsAreNaturals ==
    /\ MaxSize \in Nat /\ MaxTimeout \in Nat \ {0} /\ MaxClock \in Nat /\ Forever \in Nat
    /\ \A ttl \in Ttls : ttl \in Nat /\ MaxClock + ttl < Forever
    /\ \A duration \in Durations : duration \in Nat
    /\ Suspects \subseteq User
BY StoreAssumption

------------------------------------------------------------------------------
\* Types

LEMMA TimerForms ==
    ASSUME NEW t \in Timer
    PROVE  /\ t.kind \in {"session", "ban"}
           /\ t.expireAt \in Nat /\ t.fireAt \in Nat /\ t.own \in BOOLEAN
           /\ t.kind = "session" => t.key \in SessionId
           /\ t.kind = "ban" => t.key \in User
BY DEF Timer

\* The timers scheduleExpiry makes: with a handle in the entry for set, renew and
\* ban, without one for a further segment.
OwnTimer(kind, key, e) == Scheduled(kind, key, e, TRUE)
NextSegment(t) == Scheduled(t.kind, t.key, t.expireAt, FALSE)

LEMMA DelayIs ==
    ASSUME clock \in Nat, NEW e \in Nat,
           NEW f, f = IF e <= clock THEN clock ELSE clock + Least(e - clock, MaxTimeout)
    PROVE  f \in Nat /\ (clock < e /\ e <= clock + MaxTimeout => f = e)
BY BoundsAreNaturals DEF Least

LEMMA SessionTimers ==
    ASSUME NEW s \in SessionId, NEW e \in Nat, NEW f \in Nat,
           NEW t, t = [kind |-> "session", key |-> s, expireAt |-> e, own |-> TRUE, fireAt |-> f]
    PROVE  t \in Timer
<1>1. t \in [kind : {"session"}, key : SessionId, expireAt : Nat, fireAt : Nat, own : BOOLEAN]
    OBVIOUS
<1> QED
    BY <1>1 DEF Timer

LEMMA BanTimers ==
    ASSUME NEW u \in User, NEW e \in Nat, NEW f \in Nat,
           NEW t, t = [kind |-> "ban", key |-> u, expireAt |-> e, own |-> TRUE, fireAt |-> f]
    PROVE  t \in Timer
<1>1. t \in [kind : {"ban"}, key : User, expireAt : Nat, fireAt : Nat, own : BOOLEAN]
    OBVIOUS
<1> QED
    BY <1>1 DEF Timer

LEMMA SessionTimerIs ==
    ASSUME clock \in Nat, NEW s \in SessionId, NEW e \in Nat,
           NEW t, t = OwnTimer("session", s, e)
    PROVE  /\ t.kind = "session" /\ t.key = s /\ t.expireAt = e /\ t \in Timer
           /\ clock < e /\ e <= clock + MaxTimeout => t.fireAt = e
<1> PICK f : f = IF e <= clock THEN clock ELSE clock + Least(e - clock, MaxTimeout)
    OBVIOUS
<1>1. f \in Nat /\ (clock < e /\ e <= clock + MaxTimeout => f = e)
    BY DelayIs
<1>2. t = [kind |-> "session", key |-> s, expireAt |-> e, own |-> TRUE, fireAt |-> f]
    BY DEF Scheduled, OwnTimer
<1>3. t.kind = "session" /\ t.key = s /\ t.expireAt = e /\ t.fireAt = f
    BY <1>2
<1>4. t \in Timer
    BY <1>1, <1>2, SessionTimers
<1> QED
    BY <1>1, <1>3, <1>4

LEMMA SessionTimerIsOwn ==
    ASSUME NEW s, NEW e, NEW t, t = OwnTimer("session", s, e)
    PROVE  t.own
BY DEF OwnTimer, Scheduled

LEMMA BanTimerIs ==
    ASSUME clock \in Nat, NEW u \in User, NEW e \in Nat,
           NEW t, t = OwnTimer("ban", u, e)
    PROVE  t.kind = "ban" /\ t.key = u /\ t.expireAt = e /\ t \in Timer
<1> PICK f : f = IF e <= clock THEN clock ELSE clock + Least(e - clock, MaxTimeout)
    OBVIOUS
<1>1. f \in Nat
    BY DelayIs
<1>2. t = [kind |-> "ban", key |-> u, expireAt |-> e, own |-> TRUE, fireAt |-> f]
    BY DEF Scheduled, OwnTimer
<1>3. t.kind = "ban" /\ t.key = u /\ t.expireAt = e
    BY <1>2
<1>4. t \in Timer
    BY <1>1, <1>2, BanTimers
<1> QED
    BY <1>3, <1>4

LEMMA SegmentTimerIs ==
    ASSUME clock \in Nat, NEW r \in Timer,
           NEW t, t = NextSegment(r)
    PROVE  /\ t.kind = r.kind /\ t.key = r.key /\ t.expireAt = r.expireAt /\ t.own = FALSE
           /\ t \in Timer
<1> PICK k : k = r.kind
    OBVIOUS
<1> PICK x : x = r.key
    OBVIOUS
<1> PICK e : e = r.expireAt
    OBVIOUS
<1> PICK f : f = IF e <= clock THEN clock ELSE clock + Least(e - clock, MaxTimeout)
    OBVIOUS
<1>1. e \in Nat /\ ((k = "session" /\ x \in SessionId) \/ (k = "ban" /\ x \in User))
    BY TimerForms
<1>2. f \in Nat
    BY <1>1, DelayIs
<1>3. t = [kind |-> k, key |-> x, expireAt |-> e, own |-> FALSE, fireAt |-> f]
    BY DEF Scheduled, NextSegment
<1>4. t.kind = k /\ t.key = x /\ t.expireAt = e /\ t.own = FALSE
    BY <1>3
<1>5. t \in Timer
    BY <1>1, <1>2, <1>3 DEF Timer
<1> QED
    BY <1>4, <1>5

LEMMA ExpiryTypes ==
    ASSUME clock \in Nat, NEW ttl \in Ttls
    PROVE  ExpiryOf(ttl) \in Nat
BY BoundsAreNaturals DEF ExpiryOf

\* blacklist.delete in a set of timers: the bans of u lose their handle.
DisownedIn(T, u) ==
    {IF r.kind = "ban" /\ r.key = u THEN [r EXCEPT !.own = FALSE] ELSE r : r \in T}

LEMMA DisownedIs ==
    ASSUME NEW T, T \subseteq Timer, NEW u
    PROVE  /\ \A t \in DisownedIn(T, u) : t \in Timer /\ (t.kind = "session" => t \in T)
           /\ \A r \in T : \E t \in DisownedIn(T, u) :
                  t.kind = r.kind /\ t.key = r.key /\ t.expireAt = r.expireAt
<1>1. ASSUME NEW r \in T
      PROVE  \E t \in Timer :
                 /\ t = IF r.kind = "ban" /\ r.key = u THEN [r EXCEPT !.own = FALSE] ELSE r
                 /\ t.kind = r.kind /\ t.key = r.key /\ t.expireAt = r.expireAt
                 /\ t.kind = "session" => t = r
    <2>1. CASE r.kind = "ban" /\ r.key = u
        <3>1. r \in [kind : {"ban"}, key : User, expireAt : Nat, fireAt : Nat, own : BOOLEAN]
            BY <2>1 DEF Timer
        <3> PICK t : t = [r EXCEPT !.own = FALSE]
            OBVIOUS
        <3>2. /\ t \in [kind : {"ban"}, key : User, expireAt : Nat, fireAt : Nat, own : BOOLEAN]
              /\ t.kind = r.kind /\ t.key = r.key /\ t.expireAt = r.expireAt
            BY <3>1
        <3> QED
            BY <2>1, <3>2 DEF Timer
    <2>2. CASE ~(r.kind = "ban" /\ r.key = u)
        BY <2>2
    <2> QED
        BY <2>1, <2>2
<1>2. ASSUME NEW t \in DisownedIn(T, u)
      PROVE  t \in Timer /\ (t.kind = "session" => t \in T)
    <2> PICK r \in T :
            t = IF r.kind = "ban" /\ r.key = u THEN [r EXCEPT !.own = FALSE] ELSE r
        BY DEF DisownedIn
    <2> QED
        BY <1>1
<1>3. ASSUME NEW r \in T
      PROVE  \E t \in DisownedIn(T, u) :
                 t.kind = r.kind /\ t.key = r.key /\ t.expireAt = r.expireAt
    <2> PICK t : t = IF r.kind = "ban" /\ r.key = u THEN [r EXCEPT !.own = FALSE] ELSE r
        OBVIOUS
    <2>1. t \in DisownedIn(T, u)
        BY DEF DisownedIn
    <2> QED
        BY <1>1, <2>1
<1> QED
    BY <1>2, <1>3

\* internalDelete of some sessions, alone or in the course of a longer method.
LEMMA DeleteTypes ==
    ASSUME TypeOK, NEW S, store' = Without(store, S), lru' = Unlisted(lru, S),
           timers' \subseteq Timer, UNCHANGED <<clock, blacklist>>
    PROVE  TypeOK'
BY DEF TypeOK, Without, Unlisted

LEMMA DeleteSessionsTypes ==
    ASSUME TypeOK, NEW S, DeleteSessions(S)
    PROVE  TypeOK'
<1>1. timers' \subseteq Timer
    BY DEF TypeOK, DeleteSessions, Cleared
<1> QED
    BY <1>1, DeleteTypes DEF DeleteSessions

LEMMA TouchedTypes ==
    ASSUME TypeOK, NEW s \in SessionId
    PROVE  /\ DOMAIN Touched(s) \subseteq SessionId
           /\ \A r \in DOMAIN Touched(s) : Touched(s)[r] \subseteq SessionId
BY DEF TypeOK, Touched, With, Unlisted

LEMMA SetSessionTypes ==
    ASSUME TypeOK, NEW s \in SessionId, NEW u \in User, NEW ttl \in Ttls, SetSession(s, u, ttl)
    PROVE  TypeOK'
<1> PICK e : e = ExpiryOf(ttl)
    OBVIOUS
<1> PICK item : item = [user |-> u, expireAt |-> e]
    OBVIOUS
<1> PICK full : full = With(store, s, item)
    OBVIOUS
<1> PICK order : order = Touched(s)
    OBVIOUS
<1> PICK gone : gone = Victims(order, Cardinality(DOMAIN full))
    OBVIOUS
<1> PICK t : t = OwnTimer("session", s, e)
    OBVIOUS
<1>1. clock \in Nat /\ e \in Nat /\ item \in Item
    BY ExpiryTypes DEF TypeOK, Item
<1>2. store' = Without(full, gone) /\ lru' = Unlisted(order, gone) /\ UNCHANGED <<clock, blacklist>>
    BY DEF SetSession
<1>3. timers' \subseteq timers \cup {t}
    BY DEF SetSession, Cleared, OwnTimer
<1>4. t \in Timer
    BY <1>1, SessionTimerIs
<1>5. timers' \subseteq Timer
    BY <1>3, <1>4 DEF TypeOK
<1>6. DOMAIN store' \subseteq SessionId /\ \A r \in DOMAIN store' : store'[r] \in Item
    BY <1>1, <1>2 DEF TypeOK, With, Without
<1>7. DOMAIN lru' \subseteq SessionId /\ \A r \in DOMAIN lru' : lru'[r] \subseteq SessionId
    BY <1>2, TouchedTypes DEF Unlisted
<1> QED
    BY <1>2, <1>5, <1>6, <1>7 DEF TypeOK

LEMMA GetSessionTypes ==
    ASSUME TypeOK, NEW s \in SessionId, GetSession(s)
    PROVE  TypeOK'
<1>1. CASE DeleteSessions({s})
    BY <1>1, DeleteSessionsTypes
<1>2. CASE lru' = Touched(s) /\ UNCHANGED <<clock, store, blacklist, timers>>
    BY <1>2, TouchedTypes DEF TypeOK
<1> QED
    BY <1>1, <1>2 DEF GetSession

LEMMA RenewTypes ==
    ASSUME TypeOK, NEW s \in SessionId, NEW ttl \in Ttls, Renew(s, ttl)
    PROVE  TypeOK'
<1> PICK e : e = ExpiryOf(ttl)
    OBVIOUS
<1> PICK t : t = OwnTimer("session", s, e)
    OBVIOUS
<1>1. clock \in Nat /\ e \in Nat /\ s \in DOMAIN store /\ store[s] \in Item
    BY ExpiryTypes DEF TypeOK, Renew
<1>2. /\ store' = [store EXCEPT ![s].expireAt = e] /\ lru' = Touched(s)
      /\ UNCHANGED <<clock, blacklist>>
    BY DEF Renew
<1>3. t \in Timer
    BY <1>1, SessionTimerIs
<1>4. timers' \subseteq Timer
    BY <1>3 DEF TypeOK, Renew, Cleared, OwnTimer
<1>5. DOMAIN store' \subseteq SessionId /\ \A r \in DOMAIN store' : store'[r] \in Item
    BY <1>1, <1>2 DEF TypeOK, Item
<1>6. DOMAIN lru' \subseteq SessionId /\ \A r \in DOMAIN lru' : lru'[r] \subseteq SessionId
    BY <1>2, TouchedTypes
<1> QED
    BY <1>2, <1>4, <1>5, <1>6 DEF TypeOK

LEMMA BanTypes ==
    ASSUME TypeOK, NEW u \in Suspects, NEW duration \in Durations, Ban(u, duration)
    PROVE  TypeOK'
<1> PICK e : e = clock + duration
    OBVIOUS
<1> PICK t : t = OwnTimer("ban", u, e)
    OBVIOUS
<1>1. clock \in Nat /\ e \in Nat /\ u \in User
    BY BoundsAreNaturals DEF TypeOK
<1>2. t \in Timer
    BY <1>1, BanTimerIs
<1>3. timers' \subseteq Timer
    BY <1>2 DEF TypeOK, Ban, Cleared, OwnTimer
<1>4. DOMAIN blacklist' \subseteq User /\ \A v \in DOMAIN blacklist' : blacklist'[v] \in Nat
    BY <1>1 DEF TypeOK, Ban, With
<1> QED
    BY <1>3, <1>4 DEF TypeOK, Ban

LEMMA UnbanTypes ==
    ASSUME TypeOK, NEW u, Unban(u) \/ IsBanned(u)
    PROVE  TypeOK'
<1>1. Disowned(u) = DisownedIn(timers, u)
    BY DEF Disowned, DisownedIn
<1>2. timers' \subseteq Timer
    BY <1>1, DisownedIs DEF TypeOK, Unban, IsBanned, Cleared
<1> QED
    BY <1>2 DEF TypeOK, Unban, IsBanned, Without

LEMMA FireTypes ==
    ASSUME TypeOK, NEW t \in timers, FireSegment(t) \/ FireSession(t) \/ FireBan(t)
    PROVE  TypeOK'
<1>1. t \in Timer
    BY DEF TypeOK
<1>2. CASE FireSegment(t)
    <2> PICK r : r = NextSegment(t)
        OBVIOUS
    <2>1. r \in Timer
        BY <1>1, SegmentTimerIs DEF TypeOK
    <2> QED
        BY <1>2, <2>1 DEF FireSegment, NextSegment, TypeOK
<1>3. CASE FireSession(t)
    <2>1. timers' \subseteq Timer
        BY <1>3 DEF FireSession, Cleared, TypeOK
    <2> QED
        BY <1>3, <2>1, DeleteTypes DEF FireSession
<1>4. CASE FireBan(t)
    <2>1. timers' = DisownedIn(timers \ {t}, t.key)
        BY <1>4 DEF FireBan, DisownedIn
    <2>2. timers' \subseteq Timer
        BY <2>1, DisownedIs DEF TypeOK
    <2> QED
        BY <1>4, <2>2 DEF FireBan, TypeOK, Without
<1> QED
    BY <1>2, <1>3, <1>4

LEMMA TypeInit == Init => TypeOK
BY DEF Init, TypeOK

LEMMA TypeNext == TypeOK /\ [Next]_vars => TypeOK'
<1> SUFFICES ASSUME TypeOK, [Next]_vars PROVE TypeOK'
    OBVIOUS
<1>1. ASSUME NEW s \in SessionId, NEW u \in User, NEW ttl \in Ttls, SetSession(s, u, ttl)
      PROVE  TypeOK'
    BY <1>1, SetSessionTypes
<1>2. ASSUME NEW s \in SessionId, GetSession(s) \/ DeleteSession(s) PROVE TypeOK'
    BY <1>2, GetSessionTypes, DeleteSessionsTypes DEF DeleteSession
<1>3. ASSUME NEW s \in SessionId, NEW ttl \in Ttls, Renew(s, ttl) PROVE TypeOK'
    BY <1>3, RenewTypes
<1>4. ASSUME NEW u \in User, DeleteByUserId(u) PROVE TypeOK'
    BY <1>4, DeleteSessionsTypes DEF DeleteByUserId
<1>5. ASSUME NEW u \in Suspects, NEW duration \in Durations, Ban(u, duration) PROVE TypeOK'
    BY <1>5, BanTypes
<1>6. ASSUME NEW u \in Suspects, Unban(u) \/ IsBanned(u) PROVE TypeOK'
    BY <1>6, UnbanTypes
<1>7. CASE Clear
    BY <1>7 DEF Clear, TypeOK
<1>8. ASSUME NEW t \in timers, Fire(t) PROVE TypeOK'
    BY <1>8, FireTypes DEF Fire
<1>9. CASE Tick
    BY <1>9 DEF Tick, TypeOK
<1>10. CASE UNCHANGED vars
    BY <1>10 DEF vars, TypeOK
<1> QED
    BY <1>1, <1>2, <1>3, <1>4, <1>5, <1>6, <1>7, <1>8, <1>9, <1>10 DEF Next

\* The Maps and the pending timers keep their types, whatever is called and in
\* whatever order callbacks run.
THEOREM TypeCorrect == Spec => []TypeOK
BY TypeInit, TypeNext, PTL DEF Spec
------------------------------------------------------------------------------
\* Every entry has its timer

\* The parts of EveryEntryHasItsTimer, an entry at a time.
SessionHasTimer(s) == \E t \in timers :
    t.kind = "session" /\ t.key = s /\ t.expireAt = store[s].expireAt
BanHasTimer(u) == \E t \in timers :
    t.kind = "ban" /\ t.key = u /\ t.expireAt = blacklist[u]

LEMMA EntryParts ==
    EveryEntryHasItsTimer <=>
        /\ \A s \in DOMAIN store : SessionHasTimer(s)
        /\ \A u \in DOMAIN blacklist : BanHasTimer(u)
BY DEF EveryEntryHasItsTimer, SessionHasTimer, BanHasTimer

LEMMA SetSessionHasTimers ==
    ASSUME TypeOK, EveryEntryHasItsTimer,
           NEW s \in SessionId, NEW u \in User, NEW ttl \in Ttls, SetSession(s, u, ttl)
    PROVE  EveryEntryHasItsTimer'
<1> PICK e : e = ExpiryOf(ttl)
    OBVIOUS
<1> PICK item : item = [user |-> u, expireAt |-> e]
    OBVIOUS
<1> PICK full : full = With(store, s, item)
    OBVIOUS
<1> PICK gone : gone = Victims(Touched(s), Cardinality(DOMAIN full))
    OBVIOUS
<1> PICK t : t = OwnTimer("session", s, e)
    OBVIOUS
<1>1. clock \in Nat /\ e \in Nat
    BY ExpiryTypes DEF TypeOK
<1>2. t.kind = "session" /\ t.key = s /\ t.expireAt = e /\ t \in Timer
    BY <1>1, SessionTimerIs
<1>3. /\ store' = Without(full, gone) /\ blacklist' = blacklist
      /\ timers' = {r \in Cleared("session", {s}) \cup {t} :
                        ~(r.kind = "session" /\ r.key \in gone /\ r.own)}
    BY DEF SetSession, OwnTimer
<1>4. ASSUME NEW r \in DOMAIN store' PROVE SessionHasTimer(r)'
    <2>1. r \notin gone /\ r \in DOMAIN store \cup {s}
        BY <1>3 DEF Without, With
    <2>2. CASE r = s
        <3>1. store'[r].expireAt = e
            BY <1>3, <2>1, <2>2 DEF Without, With
        <3>2. t \in timers'
            BY <1>2, <1>3, <2>1, <2>2
        <3> QED
            BY <1>2, <2>2, <3>1, <3>2 DEF SessionHasTimer
    <2>3. CASE r # s
        <3>1. r \in DOMAIN store /\ store'[r] = store[r]
            BY <1>3, <2>1, <2>3 DEF Without, With
        <3>2. PICK w \in timers :
                  w.kind = "session" /\ w.key = r /\ w.expireAt = store[r].expireAt
            BY <3>1, EntryParts DEF SessionHasTimer
        <3>3. w \in timers'
            BY <1>3, <2>1, <2>3, <3>2 DEF Cleared
        <3> QED
            BY <3>1, <3>2, <3>3 DEF SessionHasTimer
    <2> QED
        BY <2>2, <2>3
<1>5. ASSUME NEW v \in DOMAIN blacklist' PROVE BanHasTimer(v)'
    <2>1. PICK w \in timers : w.kind = "ban" /\ w.key = v /\ w.expireAt = blacklist[v]
        BY <1>3, EntryParts DEF BanHasTimer
    <2>2. w \in timers'
        BY <1>3, <2>1 DEF Cleared
    <2> QED
        BY <1>3, <2>1, <2>2 DEF BanHasTimer
<1> QED
    BY <1>4, <1>5 DEF EveryEntryHasItsTimer, SessionHasTimer, BanHasTimer

LEMMA DeleteHasTimers ==
    ASSUME EveryEntryHasItsTimer, NEW S,
           store' = Without(store, S), blacklist' = blacklist,
           \A t \in timers : t \in timers' \/ (t.kind = "session" /\ t.key \in S)
    PROVE  EveryEntryHasItsTimer'
<1>1. ASSUME NEW r \in DOMAIN store' PROVE SessionHasTimer(r)'
    <2>1. r \in DOMAIN store /\ r \notin S /\ store'[r] = store[r]
        BY DEF Without
    <2>2. PICK w \in timers :
              w.kind = "session" /\ w.key = r /\ w.expireAt = store[r].expireAt
        BY <2>1, EntryParts DEF SessionHasTimer
    <2> QED
        BY <2>1, <2>2 DEF SessionHasTimer
<1>2. ASSUME NEW v \in DOMAIN blacklist' PROVE BanHasTimer(v)'
    <2>1. PICK w \in timers : w.kind = "ban" /\ w.key = v /\ w.expireAt = blacklist[v]
        BY EntryParts DEF BanHasTimer
    <2> QED
        BY <2>1 DEF BanHasTimer
<1> QED
    BY <1>1, <1>2 DEF EveryEntryHasItsTimer, SessionHasTimer, BanHasTimer

LEMMA DeleteSessionsHasTimers ==
    ASSUME EveryEntryHasItsTimer, NEW S, DeleteSessions(S)
    PROVE  EveryEntryHasItsTimer'
<1>1. store' = Without(store, S) /\ blacklist' = blacklist
    BY DEF DeleteSessions
<1>2. \A t \in timers : t \in timers' \/ (t.kind = "session" /\ t.key \in S)
    BY DEF DeleteSessions, Cleared
<1> QED
    BY <1>1, <1>2, DeleteHasTimers

LEMMA RenewHasTimers ==
    ASSUME TypeOK, EveryEntryHasItsTimer, NEW s \in SessionId, NEW ttl \in Ttls, Renew(s, ttl)
    PROVE  EveryEntryHasItsTimer'
<1> PICK e : e = ExpiryOf(ttl)
    OBVIOUS
<1> PICK t : t = OwnTimer("session", s, e)
    OBVIOUS
<1>1. clock \in Nat /\ e \in Nat /\ s \in DOMAIN store /\ store[s] \in Item
    BY ExpiryTypes DEF TypeOK, Renew
<1>2. t.kind = "session" /\ t.key = s /\ t.expireAt = e
    BY <1>1, SessionTimerIs
<1>3. /\ store' = [store EXCEPT ![s].expireAt = e] /\ blacklist' = blacklist
      /\ timers' = Cleared("session", {s}) \cup {t}
    BY DEF Renew, OwnTimer
<1>4. ASSUME NEW r \in DOMAIN store' PROVE SessionHasTimer(r)'
    <2>1. CASE r = s
        <3>1. store'[r].expireAt = e
            BY <1>1, <1>3, <2>1 DEF Item
        <3> QED
            BY <1>2, <1>3, <2>1, <3>1 DEF SessionHasTimer
    <2>2. CASE r # s
        <3>1. r \in DOMAIN store /\ store'[r] = store[r]
            BY <1>3, <2>2
        <3>2. PICK w \in timers :
                  w.kind = "session" /\ w.key = r /\ w.expireAt = store[r].expireAt
            BY <3>1, EntryParts DEF SessionHasTimer
        <3>3. w \in timers'
            BY <1>3, <2>2, <3>2 DEF Cleared
        <3> QED
            BY <3>1, <3>2, <3>3 DEF SessionHasTimer
    <2> QED
        BY <2>1, <2>2
<1>5. ASSUME NEW v \in DOMAIN blacklist' PROVE BanHasTimer(v)'
    <2>1. PICK w \in timers : w.kind = "ban" /\ w.key = v /\ w.expireAt = blacklist[v]
        BY <1>3, EntryParts DEF BanHasTimer
    <2>2. w \in timers'
        BY <1>3, <2>1 DEF Cleared
    <2> QED
        BY <1>3, <2>1, <2>2 DEF BanHasTimer
<1> QED
    BY <1>4, <1>5 DEF EveryEntryHasItsTimer, SessionHasTimer, BanHasTimer

LEMMA BanHasTimers ==
    ASSUME TypeOK, EveryEntryHasItsTimer, NEW u \in Suspects, NEW duration \in Durations,
           Ban(u, duration)
    PROVE  EveryEntryHasItsTimer'
<1> PICK e : e = clock + duration
    OBVIOUS
<1> PICK t : t = OwnTimer("ban", u, e)
    OBVIOUS
<1>1. clock \in Nat /\ e \in Nat /\ u \in User
    BY BoundsAreNaturals DEF TypeOK
<1>2. t.kind = "ban" /\ t.key = u /\ t.expireAt = e
    BY <1>1, BanTimerIs
<1>3. /\ blacklist' = With(blacklist, u, e) /\ store' = store
      /\ timers' = Cleared("ban", {u}) \cup {t}
    BY DEF Ban, OwnTimer
<1>4. ASSUME NEW r \in DOMAIN store' PROVE SessionHasTimer(r)'
    <2>1. PICK w \in timers :
              w.kind = "session" /\ w.key = r /\ w.expireAt = store[r].expireAt
        BY <1>3, EntryParts DEF SessionHasTimer
    <2>2. w \in timers'
        BY <1>3, <2>1 DEF Cleared
    <2> QED
        BY <1>3, <2>1, <2>2 DEF SessionHasTimer
<1>5. ASSUME NEW v \in DOMAIN blacklist' PROVE BanHasTimer(v)'
    <2>1. CASE v = u
        <3>1. blacklist'[v] = e
            BY <1>3, <2>1 DEF With
        <3> QED
            BY <1>2, <1>3, <2>1, <3>1 DEF BanHasTimer
    <2>2. CASE v # u
        <3>1. v \in DOMAIN blacklist /\ blacklist'[v] = blacklist[v]
            BY <1>3, <2>2 DEF With
        <3>2. PICK w \in timers : w.kind = "ban" /\ w.key = v /\ w.expireAt = blacklist[v]
            BY <3>1, EntryParts DEF BanHasTimer
        <3>3. w \in timers'
            BY <1>3, <2>2, <3>2 DEF Cleared
        <3> QED
            BY <3>1, <3>2, <3>3 DEF BanHasTimer
    <2> QED
        BY <2>1, <2>2
<1> QED
    BY <1>4, <1>5 DEF EveryEntryHasItsTimer, SessionHasTimer, BanHasTimer

\* The end of a ban, by unban, isBanned or a timer: the timers left are those of
\* the others, with or without their handle.
LEMMA EndOfBanHasTimers ==
    ASSUME EveryEntryHasItsTimer, NEW u,
           store' = store, blacklist' = Without(blacklist, {u}),
           \A r \in timers : ~(r.kind = "ban" /\ r.key = u) =>
               \E t \in timers' : t.kind = r.kind /\ t.key = r.key /\ t.expireAt = r.expireAt
    PROVE  EveryEntryHasItsTimer'
<1>1. ASSUME NEW r \in DOMAIN store' PROVE SessionHasTimer(r)'
    <2>1. PICK w \in timers :
              w.kind = "session" /\ w.key = r /\ w.expireAt = store[r].expireAt
        BY EntryParts DEF SessionHasTimer
    <2>2. PICK t \in timers' : t.kind = w.kind /\ t.key = w.key /\ t.expireAt = w.expireAt
        BY <2>1
    <2> QED
        BY <2>1, <2>2 DEF SessionHasTimer
<1>2. ASSUME NEW v \in DOMAIN blacklist' PROVE BanHasTimer(v)'
    <2>1. v # u /\ v \in DOMAIN blacklist /\ blacklist'[v] = blacklist[v]
        BY DEF Without
    <2>2. PICK w \in timers : w.kind = "ban" /\ w.key = v /\ w.expireAt = blacklist[v]
        BY <2>1, EntryParts DEF BanHasTimer
    <2>3. PICK t \in timers' : t.kind = w.kind /\ t.key = w.key /\ t.expireAt = w.expireAt
        BY <2>1, <2>2
    <2> QED
        BY <2>1, <2>2, <2>3 DEF BanHasTimer
<1> QED
    BY <1>1, <1>2 DEF EveryEntryHasItsTimer, SessionHasTimer, BanHasTimer

LEMMA UnbanHasTimers ==
    ASSUME TypeOK, EveryEntryHasItsTimer, NEW u, Unban(u) \/ IsBanned(u)
    PROVE  EveryEntryHasItsTimer'
<1>1. store' = store /\ blacklist' = Without(blacklist, {u})
    BY DEF Unban, IsBanned
<1>2. ASSUME NEW r \in timers, ~(r.kind = "ban" /\ r.key = u)
      PROVE  \E t \in timers' : t.kind = r.kind /\ t.key = r.key /\ t.expireAt = r.expireAt
    <2>1. CASE Unban(u)
        BY <1>2, <2>1 DEF Unban, Cleared
    <2>2. CASE IsBanned(u)
        <3>1. timers' = DisownedIn(timers, u)
            BY <2>2 DEF IsBanned, Disowned, DisownedIn
        <3> QED
            BY <3>1, DisownedIs DEF TypeOK
    <2> QED
        BY <2>1, <2>2
<1> QED
    BY <1>1, <1>2, EndOfBanHasTimers

LEMMA FireHasTimers ==
    ASSUME TypeOK, EveryEntryHasItsTimer, NEW t \in timers,
           FireSegment(t) \/ FireSession(t) \/ FireBan(t)
    PROVE  EveryEntryHasItsTimer'
<1>1. t \in Timer /\ clock \in Nat
    BY DEF TypeOK
<1>2. CASE FireSegment(t)
    <2> PICK r : r = NextSegment(t)
        OBVIOUS
    <2>1. r.kind = t.kind /\ r.key = t.key /\ r.expireAt = t.expireAt
        BY <1>1, SegmentTimerIs
    <2>2. /\ timers' = (timers \ {t}) \cup {r}
          /\ store' = store /\ blacklist' = blacklist
        BY <1>2 DEF FireSegment, NextSegment
    <2>3. \A w \in timers : \E x \in timers' :
              x.kind = w.kind /\ x.key = w.key /\ x.expireAt = w.expireAt
        BY <2>1, <2>2
    <2> QED
        BY <2>2, <2>3 DEF EveryEntryHasItsTimer
<1>3. CASE FireSession(t)
    <2>1. store' = Without(store, {t.key}) /\ blacklist' = blacklist
        BY <1>3 DEF FireSession
    <2>2. \A w \in timers : w \in timers' \/ (w.kind = "session" /\ w.key \in {t.key})
        BY <1>3 DEF FireSession, Cleared
    <2> QED
        BY <2>1, <2>2, DeleteHasTimers
<1>4. CASE FireBan(t)
    <2>1. /\ store' = store /\ blacklist' = Without(blacklist, {t.key})
          /\ timers' = DisownedIn(timers \ {t}, t.key) /\ t.kind = "ban"
        BY <1>4 DEF FireBan, DisownedIn
    <2> PICK T : T = timers \ {t}
        OBVIOUS
    <2>2. T \subseteq Timer /\ timers' = DisownedIn(T, t.key)
        BY <2>1 DEF TypeOK
    <2>3. \A r \in timers \ {t} : \E x \in timers' :
              x.kind = r.kind /\ x.key = r.key /\ x.expireAt = r.expireAt
        BY <2>2, DisownedIs
    <2>4. \A r \in timers : ~(r.kind = "ban" /\ r.key = t.key) =>
              \E x \in timers' : x.kind = r.kind /\ x.key = r.key /\ x.expireAt = r.expireAt
        BY <2>1, <2>3
    <2> QED
        BY <2>1, <2>4, EndOfBanHasTimers
<1> QED
    BY <1>2, <1>3, <1>4

LEMMA EntriesNext == TypeOK /\ EveryEntryHasItsTimer /\ [Next]_vars => EveryEntryHasItsTimer'
<1> SUFFICES ASSUME TypeOK, EveryEntryHasItsTimer, [Next]_vars PROVE EveryEntryHasItsTimer'
    OBVIOUS
<1>1. ASSUME NEW s \in SessionId, NEW u \in User, NEW ttl \in Ttls, SetSession(s, u, ttl)
      PROVE  EveryEntryHasItsTimer'
    BY <1>1, SetSessionHasTimers
<1>2. ASSUME NEW s \in SessionId, GetSession(s) \/ DeleteSession(s)
      PROVE  EveryEntryHasItsTimer'
    <2>1. CASE DeleteSessions({s})
        BY <2>1, DeleteSessionsHasTimers
    <2>2. CASE UNCHANGED <<clock, store, blacklist, timers>>
        BY <2>2 DEF EveryEntryHasItsTimer
    <2> QED
        BY <1>2, <2>1, <2>2 DEF GetSession, DeleteSession
<1>3. ASSUME NEW s \in SessionId, NEW ttl \in Ttls, Renew(s, ttl) PROVE EveryEntryHasItsTimer'
    BY <1>3, RenewHasTimers
<1>4. ASSUME NEW u \in User, DeleteByUserId(u) PROVE EveryEntryHasItsTimer'
    BY <1>4, DeleteSessionsHasTimers DEF DeleteByUserId
<1>5. ASSUME NEW u \in Suspects, NEW duration \in Durations, Ban(u, duration)
      PROVE  EveryEntryHasItsTimer'
    BY <1>5, BanHasTimers
<1>6. ASSUME NEW u \in Suspects, Unban(u) \/ IsBanned(u) PROVE EveryEntryHasItsTimer'
    BY <1>6, UnbanHasTimers
<1>7. CASE Clear
    BY <1>7 DEF Clear, EveryEntryHasItsTimer
<1>8. ASSUME NEW t \in timers, Fire(t) PROVE EveryEntryHasItsTimer'
    BY <1>8, FireHasTimers DEF Fire
<1>9. CASE Tick
    BY <1>9 DEF Tick, EveryEntryHasItsTimer
<1>10. CASE UNCHANGED vars
    BY <1>10 DEF vars, EveryEntryHasItsTimer
<1> QED
    BY <1>1, <1>2, <1>3, <1>4, <1>5, <1>6, <1>7, <1>8, <1>9, <1>10 DEF Next

\* Sets, renewals, bans, evictions and segments of timers in any order leave each
\* stored session and each ban a timer for exactly the date it has now.
THEOREM EntriesHaveTimers == Spec => []EveryEntryHasItsTimer
<1>1. Init => EveryEntryHasItsTimer
    BY DEF Init, EveryEntryHasItsTimer
<1> QED
    BY <1>1, TypeInit, TypeNext, EntriesNext, PTL DEF Spec
------------------------------------------------------------------------------
\* The LRU order and the capacity

LEMMA UnlistedIsOrder ==
    ASSUME NEW order, IsOrder(order), NEW S
    PROVE  /\ IsOrder(Unlisted(order, S))
           /\ DOMAIN Unlisted(order, S) = DOMAIN order \ S
BY DEF IsOrder, Unlisted

LEMMA TouchedIsOrder ==
    ASSUME IsOrder(lru), NEW s
    PROVE  /\ IsOrder(Touched(s))
           /\ DOMAIN Touched(s) = DOMAIN lru \cup {s}
           /\ Touched(s)[s] = DOMAIN lru \ {s}
<1> PICK rest : rest = Unlisted(lru, {s})
    OBVIOUS
<1> PICK order : order = Touched(s)
    OBVIOUS
<1>1. IsOrder(rest) /\ DOMAIN rest = DOMAIN lru \ {s}
    BY UnlistedIsOrder
<1>2. /\ DOMAIN order = DOMAIN lru \cup {s}
      /\ order[s] = DOMAIN lru \ {s}
      /\ \A r \in DOMAIN rest : order[r] = rest[r]
    BY <1>1 DEF Touched, With
<1>3. /\ s \notin DOMAIN rest
      /\ \A r \in DOMAIN order : r = s \/ r \in DOMAIN rest
      /\ \A r \in DOMAIN rest : order[r] \subseteq DOMAIN rest \ {r} /\ r \in order[s]
    BY <1>1, <1>2 DEF IsOrder
<1>4. \A r \in DOMAIN order : order[r] \subseteq DOMAIN order \ {r}
    BY <1>1, <1>2, <1>3
<1>5. ASSUME NEW r \in DOMAIN order, NEW q \in DOMAIN order, r # q
      PROVE  r \in order[q] <=> q \notin order[r]
    <2>1. CASE r = s
        BY <1>3, <1>5, <2>1
    <2>2. CASE q = s
        BY <1>3, <1>5, <2>2
    <2>3. CASE r # s /\ q # s
        <3>1. r \in DOMAIN rest /\ q \in DOMAIN rest /\ order[r] = rest[r] /\ order[q] = rest[q]
            BY <1>2, <1>3, <2>3
        <3> QED
            BY <1>1, <1>5, <3>1 DEF IsOrder
    <2> QED
        BY <2>1, <2>2, <2>3
<1>6. ASSUME NEW r \in DOMAIN order, NEW q \in order[r]
      PROVE  order[q] \subseteq order[r]
    <2>1. q \in DOMAIN rest /\ order[q] = rest[q]
        BY <1>1, <1>2, <1>3, <1>6
    <2>2. CASE r = s
        BY <1>1, <1>2, <1>3, <2>1, <2>2
    <2>3. CASE r # s
        <3>1. r \in DOMAIN rest /\ order[r] = rest[r]
            BY <1>2, <1>3, <2>3
        <3> QED
            BY <1>1, <1>6, <2>1, <3>1 DEF IsOrder
    <2> QED
        BY <2>2, <2>3
<1>7. IsOrder(order)
    BY <1>4, <1>5, <1>6 DEF IsOrder
<1> QED
    BY <1>2, <1>7

\* A finite order that is not empty has exactly one first element: the victim of
\* evictIfNeeded exists, and there is one.
LEMMA FirstOfOrder ==
    ASSUME NEW order, IsOrder(order), IsFiniteSet(DOMAIN order), DOMAIN order # {}
    PROVE  \E v \in DOMAIN order : {s \in DOMAIN order : order[s] = {}} = {v}
<1> PICK D : D = DOMAIN order
    OBVIOUS
<1> PICK T : T = {order[s] : s \in D}
    OBVIOUS
<1>1. T \subseteq FiniteSubsetsOf(D) /\ T # {}
    <2>1. \A s \in D : order[s] \subseteq D
        BY DEF IsOrder
    <2>2. T \subseteq SUBSET D
        BY <2>1
    <2>3. FiniteSubsetsOf(D) = SUBSET D
        BY FS_FiniteSubsetsOfFinite
    <2> QED
        BY <2>2, <2>3
<1>2. PICK x \in T : \A y \in T : ~(<<y, x>> \in StrictSubsetOrdering(D))
    BY <1>1, WFMin, FS_StrictSubsetOrderingWellFounded
<1>3. PICK v \in D : x = order[v]
    OBVIOUS
<1>4. order[v] = {}
    <2> SUFFICES ASSUME NEW r \in order[v] PROVE FALSE
        OBVIOUS
    <2>1. r \in D /\ order[r] \subseteq order[v] /\ r \notin order[r] /\ order[v] \subseteq D
        BY DEF IsOrder
    <2>2. order[r] # order[v]
        BY <2>1
    <2>3. <<order[r], x>> \in StrictSubsetOrdering(D)
        BY <1>3, <2>1, <2>2 DEF StrictSubsetOrdering
    <2> QED
        BY <1>2, <2>1, <2>3
<1>5. \A s \in D : order[s] = {} => s = v
    BY <1>4 DEF IsOrder
<1> QED
    BY <1>4, <1>5

\* What evictIfNeeded takes from a Map of one entry more than it should have.
LEMMA VictimsAre ==
    ASSUME NEW order, IsOrder(order), IsFiniteSet(DOMAIN order),
           NEW gone, gone = Victims(order, Cardinality(DOMAIN order))
    PROVE  /\ gone = {} \/ \E v \in DOMAIN order : order[v] = {} /\ gone = {v}
           /\ MaxSize > 0 /\ Cardinality(DOMAIN order) > MaxSize => gone # {}
           /\ gone # {} => MaxSize > 0 /\ Cardinality(DOMAIN order) > MaxSize
<1> PICK n : n = Cardinality(DOMAIN order)
    OBVIOUS
<1>1. n \in Nat /\ MaxSize \in Nat /\ (n = 0 <=> DOMAIN order = {})
    BY FS_CardinalityType, FS_EmptySet, BoundsAreNaturals
<1>2. CASE MaxSize > 0 /\ n > MaxSize
    <2>1. DOMAIN order # {}
        <3>1. n # 0
            BY <1>1, <1>2
        <3> QED
            BY <1>1, <3>1
    <2>2. PICK v \in DOMAIN order : {s \in DOMAIN order : order[s] = {}} = {v}
        BY <2>1, FirstOfOrder
    <2>3. gone = {v} /\ order[v] = {}
        BY <1>2, <2>2 DEF Victims
    <2> QED
        BY <1>2, <2>3
<1>3. CASE ~(MaxSize > 0 /\ n > MaxSize)
    BY <1>3 DEF Victims
<1> QED
    BY <1>2, <1>3

LEMMA DeleteCapacity ==
    ASSUME CapacityInv, NEW S, store' = Without(store, S), lru' = Unlisted(lru, S)
    PROVE  CapacityInv'
<1> PICK order : order = Unlisted(lru, S)
    OBVIOUS
<1>1. IsOrder(order) /\ DOMAIN order = DOMAIN lru \ S
    BY UnlistedIsOrder DEF CapacityInv
<1>2. IsOrder(lru)' /\ DOMAIN lru' = DOMAIN lru \ S /\ DOMAIN store' = DOMAIN store \ S
    BY <1>1 DEF Without, IsOrder
<1> PICK D : D = DOMAIN store
    OBVIOUS
<1> PICK E : E = DOMAIN store'
    OBVIOUS
<1>3. IsFiniteSet(D) /\ E \in SUBSET D
    BY <1>2 DEF CapacityInv
<1>4. /\ IsFiniteSet(E) /\ Cardinality(E) <= Cardinality(D)
      /\ Cardinality(E) \in Nat /\ Cardinality(D) \in Nat /\ MaxSize \in Nat
    BY <1>3, FS_Subset, FS_CardinalityType, BoundsAreNaturals
<1>5. MaxSize > 0 => Cardinality(E) <= MaxSize
    BY <1>4 DEF CapacityInv
<1> QED
    BY <1>2, <1>4, <1>5 DEF CapacityInv

LEMMA TouchCapacity ==
    ASSUME CapacityInv, NEW s \in DOMAIN store, lru' = Touched(s), DOMAIN store' = DOMAIN store
    PROVE  CapacityInv'
<1>1. IsOrder(lru)' /\ DOMAIN lru' = DOMAIN lru
    BY TouchedIsOrder DEF CapacityInv, IsOrder
<1> QED
    BY <1>1 DEF CapacityInv

\* What set leaves in the Map: all that was there and the new session, but the
\* victim, which is not the new session.
LEMMA SetSessionCapacity ==
    ASSUME CapacityInv, NEW s, NEW u, NEW ttl, SetSession(s, u, ttl)
    PROVE  CapacityInv' /\ s \in DOMAIN store'
<1> PICK item : item = [user |-> u, expireAt |-> ExpiryOf(ttl)]
    OBVIOUS
<1> PICK full : full = With(store, s, item)
    OBVIOUS
<1> PICK order : order = Touched(s)
    OBVIOUS
<1> PICK gone : gone = Victims(order, Cardinality(DOMAIN full))
    OBVIOUS
<1> PICK D : D = DOMAIN store
    OBVIOUS
<1> PICK F : F = DOMAIN full
    OBVIOUS
<1>1. store' = Without(full, gone) /\ lru' = Unlisted(order, gone)
    BY DEF SetSession
<1>2. F = D \cup {s} /\ DOMAIN order = F /\ IsOrder(order) /\ order[s] = D \ {s}
    BY TouchedIsOrder DEF CapacityInv, With
<1>3. IsOrder(lru)' /\ DOMAIN lru' = F \ gone /\ DOMAIN store' = F \ gone
    <2> PICK rest : rest = Unlisted(order, gone)
        OBVIOUS
    <2>1. IsOrder(rest) /\ DOMAIN rest = F \ gone
        BY <1>2, UnlistedIsOrder
    <2> QED
        BY <1>1, <2>1 DEF IsOrder, Without
<1>4. /\ IsFiniteSet(D) /\ IsFiniteSet(F) /\ Cardinality(D) \in Nat /\ Cardinality(F) \in Nat
      /\ Cardinality(F) <= Cardinality(D) + 1
    BY <1>2, FS_AddElement, FS_CardinalityType DEF CapacityInv
<1>5. MaxSize \in Nat /\ (MaxSize > 0 => Cardinality(D) <= MaxSize)
    BY BoundsAreNaturals DEF CapacityInv
<1>6. /\ gone = {} \/ \E v \in F : order[v] = {} /\ gone = {v}
      /\ MaxSize > 0 /\ Cardinality(F) > MaxSize => gone # {}
      /\ gone # {} => MaxSize > 0 /\ Cardinality(F) > MaxSize
    BY <1>2, <1>4, VictimsAre
<1>7. s \notin gone
    <2> SUFFICES ASSUME s \in gone PROVE FALSE
        OBVIOUS
    <2>1. D \ {s} = {}
        BY <1>2, <1>6
    <2>2. F = {s} /\ Cardinality(F) = 1
        BY <1>2, <2>1, FS_Singleton
    <2> QED
        BY <1>5, <1>6, <2>2
<1>8. IsFiniteSet(F \ gone) /\ (MaxSize > 0 => Cardinality(F \ gone) <= MaxSize)
    <2>1. CASE gone = {}
        <3>1. F \ gone = F
            BY <2>1
        <3> QED
            BY <1>4, <1>5, <1>6, <2>1, <3>1
    <2>2. CASE gone # {}
        <3>1. PICK v \in F : gone = {v}
            BY <1>6, <2>2
        <3>2. IsFiniteSet(F \ {v}) /\ Cardinality(F \ {v}) = Cardinality(F) - 1
            BY <1>4, FS_RemoveElement
        <3> QED
            BY <1>4, <1>5, <3>1, <3>2
    <2> QED
        BY <2>1, <2>2
<1>9. CapacityInv'
    BY <1>3, <1>8 DEF CapacityInv
<1> QED
    BY <1>2, <1>3, <1>7, <1>9

LEMMA CapacityInit == Init => CapacityInv
<1> SUFFICES ASSUME Init PROVE CapacityInv
    OBVIOUS
<1>1. DOMAIN store = {} /\ DOMAIN lru = {}
    BY DEF Init
<1>2. IsFiniteSet({}) /\ Cardinality({}) = 0
    BY FS_EmptySet
<1> QED
    BY <1>1, <1>2, BoundsAreNaturals DEF CapacityInv, IsOrder

LEMMA CapacityNext == CapacityInv /\ [Next]_vars => CapacityInv'
<1> SUFFICES ASSUME CapacityInv, [Next]_vars PROVE CapacityInv'
    OBVIOUS
<1>1. ASSUME NEW s \in SessionId, NEW u \in User, NEW ttl \in Ttls, SetSession(s, u, ttl)
      PROVE  CapacityInv'
    BY <1>1, SetSessionCapacity
<1>2. ASSUME NEW S, DeleteSessions(S) PROVE CapacityInv'
    BY <1>2, DeleteCapacity DEF DeleteSessions
<1>3. ASSUME NEW s \in SessionId, GetSession(s) PROVE CapacityInv'
    BY <1>2, <1>3, TouchCapacity DEF GetSession
<1>4. ASSUME NEW s \in SessionId, NEW ttl \in Ttls, Renew(s, ttl) PROVE CapacityInv'
    <2>1. s \in DOMAIN store /\ lru' = Touched(s) /\ DOMAIN store' = DOMAIN store
        BY <1>4 DEF Renew
    <2> QED
        BY <2>1, TouchCapacity
<1>5. CASE UNCHANGED <<store, lru>>
    BY <1>5 DEF CapacityInv, IsOrder
<1>6. CASE Clear
    <2>1. DOMAIN store' = {} /\ DOMAIN lru' = {}
        BY <1>6 DEF Clear
    <2>2. IsFiniteSet({}) /\ Cardinality({}) = 0
        BY FS_EmptySet
    <2> QED
        BY <2>1, <2>2, BoundsAreNaturals DEF CapacityInv, IsOrder
<1>7. ASSUME NEW t \in timers, Fire(t) PROVE CapacityInv'
    <2>1. CASE FireSession(t)
        BY <2>1, DeleteCapacity DEF FireSession
    <2> QED
        BY <1>5, <1>7, <2>1 DEF Fire, FireSegment, FireBan
<1> QED
    BY <1>1, <1>2, <1>3, <1>4, <1>5, <1>6, <1>7
    DEF Next, vars, DeleteSession, DeleteByUserId, Ban, Unban, IsBanned, Tick

LEMMA CapacityIsInvariant == Spec => []CapacityInv
BY CapacityInit, CapacityNext, PTL DEF Spec

\* One eviction per set is enough, and the order it takes its victim from lists
\* exactly what is stored: no sequence of calls fills the Map over maxSize.
THEOREM CapacityHolds == Spec => []WithinCapacity
<1>1. CapacityInv => WithinCapacity
    BY DEF CapacityInv, IsOrder, WithinCapacity, LruMatchesStore
<1> QED
    BY <1>1, CapacityIsInvariant, PTL

\* A set that evicts takes another session than the one it has just stored.
THEOREM NewSessionsStay == Spec => NewSessionIsKept
<1>1. CapacityInv /\ [Next]_vars =>
          [\A s \in SessionId, u \in User, ttl \in Ttls :
               SetSession(s, u, ttl) => s \in DOMAIN store']_vars
    BY SetSessionCapacity
<1> QED
    BY <1>1, CapacityIsInvariant, PTL DEF Spec, NewSessionIsKept
------------------------------------------------------------------------------
\* No timer is early, if the ttls fit one segment

\* What NoEarlyExpiry needs of the callers: every ttl fits the longest delay of
\* setTimeout.  With a longer one the property fails: a further segment has no
\* handle, and a renewal does not clear it.
TtlsFit == \A ttl \in Ttls : ttl <= MaxTimeout

DatesAreBounded ==
    /\ clock <= MaxClock
    /\ \A s \in DOMAIN store : store[s].expireAt <= Forever

\* A session timer with a handle is for the date its session has.
OwnTimersAreCurrent ==
    \A t \in timers : t.kind = "session" /\ t.own =>
        t.key \in DOMAIN store /\ store[t.key].expireAt = t.expireAt

\* A session timer for a real date has its handle and runs in one segment.
ShortTimersAreOwn ==
    \A t \in timers : t.kind = "session" /\ t.expireAt < Forever =>
        t.own /\ t.fireAt = t.expireAt

TimelyInv == DatesAreBounded /\ OwnTimersAreCurrent /\ ShortTimersAreOwn

LEMMA ExpiryFits ==
    ASSUME TtlsFit, clock \in Nat, clock <= MaxClock, NEW ttl \in Ttls,
           NEW e, e = ExpiryOf(ttl)
    PROVE  /\ e \in Nat /\ e <= Forever
           /\ e < Forever => clock < e /\ e <= clock + MaxTimeout
BY BoundsAreNaturals DEF TtlsFit, ExpiryOf

\* set and renew: one session gets a new date and a timer for it, the sessions of
\* gone leave with theirs.
LEMMA WriteIsTimely ==
    ASSUME TtlsFit, TypeOK, TimelyInv, NEW s \in SessionId, NEW ttl \in Ttls, NEW gone,
           NEW e, e = ExpiryOf(ttl), NEW t, t = OwnTimer("session", s, e),
           clock' = clock,
           \A r \in DOMAIN store' : r = s \/ (r \in DOMAIN store /\ store'[r] = store[r]),
           \A r \in DOMAIN store : r # s /\ r \notin gone => r \in DOMAIN store',
           s \notin gone => s \in DOMAIN store',
           s \in DOMAIN store' => store'[s].expireAt = e,
           timers' \subseteq Cleared("session", {s}) \cup {t},
           \A r \in timers' : r.kind = "session" /\ r.own => r.key \notin gone
    PROVE  TimelyInv'
<1>1. clock \in Nat /\ clock <= MaxClock /\ MaxClock \in Nat /\ Forever \in Nat
    BY BoundsAreNaturals DEF TypeOK, TimelyInv, DatesAreBounded
<1>2. e \in Nat /\ e <= Forever /\ (e < Forever => clock < e /\ e <= clock + MaxTimeout)
    BY <1>1, ExpiryFits
<1>3. /\ t.kind = "session" /\ t.key = s /\ t.expireAt = e
      /\ e < Forever => t.fireAt = e
    BY <1>1, <1>2, SessionTimerIs
<1>4. t.own
    BY SessionTimerIsOwn
<1>5. ASSUME NEW r \in timers', r.kind = "session", r # t
      PROVE  r \in timers /\ ~(r.key = s /\ r.own)
    BY <1>5 DEF Cleared
<1>6. DatesAreBounded'
    BY <1>1, <1>2 DEF TimelyInv, DatesAreBounded
<1>7. OwnTimersAreCurrent'
    <2> SUFFICES ASSUME NEW r \in timers', r.kind = "session", r.own
                 PROVE  r.key \in DOMAIN store' /\ store'[r.key].expireAt = r.expireAt
        BY DEF OwnTimersAreCurrent
    <2>1. r.key \notin gone
        OBVIOUS
    <2>2. CASE r = t
        BY <1>3, <2>1, <2>2
    <2>3. CASE r # t
        <3>1. r.key # s /\ r.key \in DOMAIN store /\ store[r.key].expireAt = r.expireAt
            BY <1>5, <2>3 DEF TimelyInv, OwnTimersAreCurrent
        <3> QED
            BY <2>1, <3>1
    <2> QED
        BY <2>2, <2>3
<1>8. ShortTimersAreOwn'
    BY <1>3, <1>4, <1>5 DEF TimelyInv, ShortTimersAreOwn
<1> QED
    BY <1>6, <1>7, <1>8 DEF TimelyInv

LEMMA SetSessionTimely ==
    ASSUME TtlsFit, TypeOK, TimelyInv,
           NEW s \in SessionId, NEW u \in User, NEW ttl \in Ttls, SetSession(s, u, ttl)
    PROVE  TimelyInv'
<1> PICK e : e = ExpiryOf(ttl)
    OBVIOUS
<1> PICK item : item = [user |-> u, expireAt |-> e]
    OBVIOUS
<1> PICK full : full = With(store, s, item)
    OBVIOUS
<1> PICK gone : gone = Victims(Touched(s), Cardinality(DOMAIN full))
    OBVIOUS
<1> PICK t : t = OwnTimer("session", s, e)
    OBVIOUS
<1>1. /\ store' = Without(full, gone) /\ clock' = clock
      /\ timers' = {r \in Cleared("session", {s}) \cup {t} :
                        ~(r.kind = "session" /\ r.key \in gone /\ r.own)}
    BY DEF SetSession, OwnTimer
<1>2. /\ \A r \in DOMAIN store' : r = s \/ (r \in DOMAIN store /\ store'[r] = store[r])
      /\ \A r \in DOMAIN store : r # s /\ r \notin gone => r \in DOMAIN store'
      /\ s \notin gone => s \in DOMAIN store'
      /\ s \in DOMAIN store' => store'[s].expireAt = e
    BY <1>1 DEF With, Without
<1>3. /\ timers' \subseteq Cleared("session", {s}) \cup {t}
      /\ \A r \in timers' : r.kind = "session" /\ r.own => r.key \notin gone
    BY <1>1
<1> QED
    BY <1>1, <1>2, <1>3, WriteIsTimely

LEMMA RenewTimely ==
    ASSUME TtlsFit, TypeOK, TimelyInv, NEW s \in SessionId, NEW ttl \in Ttls, Renew(s, ttl)
    PROVE  TimelyInv'
<1> PICK e : e = ExpiryOf(ttl)
    OBVIOUS
<1> PICK t : t = OwnTimer("session", s, e)
    OBVIOUS
<1> PICK gone : gone = {}
    OBVIOUS
<1>1. /\ s \in DOMAIN store /\ store' = [store EXCEPT ![s].expireAt = e] /\ clock' = clock
      /\ timers' = Cleared("session", {s}) \cup {t}
    BY DEF Renew, OwnTimer
<1>2. store'[s].expireAt = e
    BY <1>1 DEF TypeOK, Item
<1>3. /\ \A r \in DOMAIN store' : r = s \/ (r \in DOMAIN store /\ store'[r] = store[r])
      /\ \A r \in DOMAIN store : r # s /\ r \notin gone => r \in DOMAIN store'
      /\ s \in DOMAIN store'
    BY <1>1
<1>4. /\ timers' \subseteq Cleared("session", {s}) \cup {t}
      /\ \A r \in timers' : r.kind = "session" /\ r.own => r.key \notin gone
    BY <1>1
<1> QED
    BY <1>1, <1>2, <1>3, <1>4, WriteIsTimely

\* Every other method leaves session timers as they were or removes them, and the
\* sessions it removes take the timers with a handle along.
LEMMA RemovalIsTimely ==
    ASSUME TimelyInv, NEW S, clock' = clock,
           \A r \in DOMAIN store' : r \in DOMAIN store /\ store'[r] = store[r],
           \A r \in DOMAIN store \ S : r \in DOMAIN store',
           \A t \in timers' : t.kind = "session" =>
               t \in timers /\ ~(t.key \in S /\ t.own)
    PROVE  TimelyInv'
<1>1. DatesAreBounded'
    BY DEF TimelyInv, DatesAreBounded
<1>2. OwnTimersAreCurrent'
    <2> SUFFICES ASSUME NEW t \in timers', t.kind = "session", t.own
                 PROVE  t.key \in DOMAIN store' /\ store'[t.key].expireAt = t.expireAt
        BY DEF OwnTimersAreCurrent
    <2>1. t \in timers /\ t.key \notin S
        OBVIOUS
    <2>2. t.key \in DOMAIN store /\ store[t.key].expireAt = t.expireAt
        BY <2>1 DEF TimelyInv, OwnTimersAreCurrent
    <2> QED
        BY <2>1, <2>2
<1>3. ShortTimersAreOwn'
    BY DEF TimelyInv, ShortTimersAreOwn
<1> QED
    BY <1>1, <1>2, <1>3 DEF TimelyInv

LEMMA DeleteSessionsTimely ==
    ASSUME TimelyInv, NEW S, DeleteSessions(S)
    PROVE  TimelyInv'
<1>1. /\ \A r \in DOMAIN store' : r \in DOMAIN store /\ store'[r] = store[r]
      /\ \A r \in DOMAIN store \ S : r \in DOMAIN store'
      /\ clock' = clock
    BY DEF DeleteSessions, Without
<1>2. \A t \in timers' : t.kind = "session" => t \in timers /\ ~(t.key \in S /\ t.own)
    BY DEF DeleteSessions, Cleared
<1> QED
    BY <1>1, <1>2, RemovalIsTimely

LEMMA BanTimely ==
    ASSUME TypeOK, TimelyInv, NEW u \in Suspects, NEW duration \in Durations, Ban(u, duration)
    PROVE  TimelyInv'
<1> PICK e : e = clock + duration
    OBVIOUS
<1> PICK t : t = OwnTimer("ban", u, e)
    OBVIOUS
<1> PICK S : S = {}
    OBVIOUS
<1>1. clock \in Nat /\ e \in Nat /\ u \in User
    BY BoundsAreNaturals DEF TypeOK
<1>2. t.kind = "ban"
    BY <1>1, BanTimerIs
<1>3. clock' = clock /\ store' = store /\ timers' = Cleared("ban", {u}) \cup {t}
    BY DEF Ban, OwnTimer
<1>4. \A r \in timers' : r.kind = "session" => r \in timers
    BY <1>2, <1>3 DEF Cleared
<1> QED
    BY <1>3, <1>4, RemovalIsTimely

LEMMA UnbanTimely ==
    ASSUME TypeOK, TimelyInv, NEW u, Unban(u) \/ IsBanned(u)
    PROVE  TimelyInv'
<1> PICK S : S = {}
    OBVIOUS
<1>1. clock' = clock /\ store' = store
    BY DEF Unban, IsBanned
<1>2. CASE Unban(u)
    BY <1>1, <1>2, RemovalIsTimely DEF Unban, Cleared
<1>3. CASE IsBanned(u)
    <2>1. timers' = DisownedIn(timers, u)
        BY <1>3 DEF IsBanned, Disowned, DisownedIn
    <2>2. \A r \in timers' : r.kind = "session" => r \in timers
        BY <2>1, DisownedIs DEF TypeOK
    <2> QED
        BY <1>1, <2>2, RemovalIsTimely
<1> QED
    BY <1>2, <1>3

LEMMA ClearTimely ==
    ASSUME TimelyInv, Clear
    PROVE  TimelyInv'
<1> PICK S : S = DOMAIN store
    OBVIOUS
<1>1. clock' = clock /\ DOMAIN store' = {} /\ \A t \in timers' : t \in timers /\ ~t.own
    BY DEF Clear
<1> QED
    BY <1>1, RemovalIsTimely

LEMMA FireTimely ==
    ASSUME TypeOK, TimelyInv, NEW t \in timers, Fire(t)
    PROVE  TimelyInv'
<1>1. /\ t \in Timer /\ clock \in Nat /\ clock >= t.fireAt
      /\ t.fireAt \in Nat /\ t.expireAt \in Nat /\ Forever \in Nat
    BY TimerForms, BoundsAreNaturals DEF TypeOK, Fire
<1>2. CASE FireSegment(t)
    <2> PICK r : r = NextSegment(t)
        OBVIOUS
    <2>1. r.kind = t.kind /\ r.key = t.key /\ r.expireAt = t.expireAt
        BY <1>1, SegmentTimerIs
    <2>2. ~r.own
        BY DEF NextSegment, Scheduled
    <2>3. /\ timers' = (timers \ {t}) \cup {r} /\ clock < t.expireAt
          /\ clock' = clock /\ store' = store
        BY <1>2 DEF FireSegment, NextSegment
    <2>4. t.kind = "session" => ~(t.expireAt < Forever)
        BY <1>1, <2>3 DEF TimelyInv, ShortTimersAreOwn
    <2>5. DatesAreBounded'
        BY <2>3 DEF TimelyInv, DatesAreBounded
    <2>6. OwnTimersAreCurrent'
        BY <2>2, <2>3 DEF TimelyInv, OwnTimersAreCurrent
    <2>7. ShortTimersAreOwn'
        BY <2>1, <2>3, <2>4 DEF TimelyInv, ShortTimersAreOwn
    <2> QED
        BY <2>5, <2>6, <2>7 DEF TimelyInv
<1>3. CASE FireSession(t)
    <2> PICK S : S = {t.key}
        OBVIOUS
    <2>1. /\ \A r \in DOMAIN store' : r \in DOMAIN store /\ store'[r] = store[r]
          /\ \A r \in DOMAIN store \ S : r \in DOMAIN store'
          /\ clock' = clock
        BY <1>3 DEF FireSession, Without
    <2>2. \A r \in timers' : r.kind = "session" => r \in timers /\ ~(r.key \in S /\ r.own)
        BY <1>3 DEF FireSession, Cleared
    <2> QED
        BY <2>1, <2>2, RemovalIsTimely
<1>4. CASE FireBan(t)
    <2> PICK T : T = timers \ {t}
        OBVIOUS
    <2> PICK S : S = {}
        OBVIOUS
    <2>1. /\ timers' = DisownedIn(T, t.key) /\ T \subseteq Timer
          /\ clock' = clock /\ store' = store
        BY <1>4 DEF FireBan, DisownedIn, TypeOK
    <2>2. \A r \in timers' : r.kind = "session" => r \in timers
        BY <2>1, DisownedIs
    <2> QED
        BY <2>1, <2>2, RemovalIsTimely
<1> QED
    BY <1>2, <1>3, <1>4 DEF Fire

LEMMA TimelyNext ==
    ASSUME TtlsFit
    PROVE  TypeOK /\ TimelyInv /\ [Next]_vars => TimelyInv'
<1> SUFFICES ASSUME TypeOK, TimelyInv, [Next]_vars PROVE TimelyInv'
    OBVIOUS
<1>1. ASSUME NEW s \in SessionId, NEW u \in User, NEW ttl \in Ttls, SetSession(s, u, ttl)
      PROVE  TimelyInv'
    BY <1>1, SetSessionTimely
<1>2. ASSUME NEW S, DeleteSessions(S) PROVE TimelyInv'
    BY <1>2, DeleteSessionsTimely
<1>3. CASE UNCHANGED <<clock, store, timers>>
    BY <1>3 DEF TimelyInv, DatesAreBounded, OwnTimersAreCurrent, ShortTimersAreOwn
<1>4. ASSUME NEW s \in SessionId, NEW ttl \in Ttls, Renew(s, ttl) PROVE TimelyInv'
    BY <1>4, RenewTimely
<1>5. ASSUME NEW u \in Suspects,
             (\E duration \in Durations : Ban(u, duration)) \/ Unban(u) \/ IsBanned(u)
      PROVE  TimelyInv'
    BY <1>5, BanTimely, UnbanTimely
<1>6. CASE Clear
    BY <1>6, ClearTimely
<1>7. ASSUME NEW t \in timers, Fire(t) PROVE TimelyInv'
    BY <1>7, FireTimely
<1>8. CASE Tick
    <2>1. clock \in Nat /\ MaxClock \in Nat /\ clock < MaxClock /\ clock' = clock + 1
        BY <1>8, BoundsAreNaturals DEF Tick, TypeOK
    <2>2. store' = store /\ timers' = timers
        BY <1>8 DEF Tick
    <2> QED
        BY <2>1, <2>2 DEF TimelyInv, DatesAreBounded, OwnTimersAreCurrent, ShortTimersAreOwn
<1> QED
    BY <1>1, <1>2, <1>3, <1>4, <1>5, <1>6, <1>7, <1>8
    DEF Next, vars, GetSession, DeleteSession, DeleteByUserId

\* As long as the ttls fit one delay of setTimeout, no pending timer, whatever was
\* set, renewed, deleted and set again, is early for the session of its key.
THEOREM NoTimerIsEarly ==
    ASSUME TtlsFit
    PROVE  Spec => []NoEarlyExpiry
<1>1. Init => TimelyInv
    BY BoundsAreNaturals
    DEF Init, TimelyInv, DatesAreBounded, OwnTimersAreCurrent, ShortTimersAreOwn
<1>2. TypeOK /\ TimelyInv /\ [Next]_vars => TimelyInv'
    BY TimelyNext
<1>3. TypeOK /\ TimelyInv => NoEarlyExpiry
    <2> SUFFICES ASSUME TypeOK, TimelyInv,
                        NEW t \in timers, t.kind = "session", t.key \in DOMAIN store
                 PROVE  t.expireAt >= store[t.key].expireAt
        BY DEF NoEarlyExpiry
    <2>1. t.expireAt \in Nat /\ Forever \in Nat /\ store[t.key].expireAt \in Nat
        BY TimerForms, BoundsAreNaturals DEF TypeOK, Item
    <2>2. CASE t.expireAt < Forever
        BY <2>1, <2>2 DEF TimelyInv, ShortTimersAreOwn, OwnTimersAreCurrent
    <2>3. CASE ~(t.expireAt < Forever)
        BY <2>1, <2>3 DEF TimelyInv, DatesAreBounded
    <2> QED
        BY <2>2, <2>3
<1> QED
    BY <1>1, <1>2, <1>3, TypeInit, TypeNext, PTL DEF Spec

===============================================================================
