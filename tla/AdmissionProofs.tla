---------------------------- MODULE AdmissionProofs ----------------------------
(***************************************************************************)
(* The limiter and the nonce store keep their promises where the guard and *)
(* login use them: a run of Admission is a run of either, because no       *)
(* command is on its way for longer than Late.  What the composition adds  *)
(* follows from that, for any workers, nonces, dates and applications.     *)
(***************************************************************************)
EXTENDS Admission, FiniteSetTheorems, TLAPS

------------------------------------------------------------------------------
(***************************************************************************)
(* The rate limiters.  The bounds of both sliding windows, for any keys,   *)
(* window, limit, delay and number of grants.  What carries them: a grant  *)
(* still in the window has its stamp in the store, and Redis does not drop *)
(* that stamp earlier.                                                     *)
(***************************************************************************)

\* The grant's stamp is stored, under its own entry or, in Redis, its date's.
Stamped(g) ==
    \E e \in stamps[g.key] :
        /\ e.ts = g.ts
        /\ backend = "memory" => e.seq = g.seq
        /\ backend = "redis" => expireAt[g.key] >= g.ts + Window

StampsAreFew ==
    \A k \in Key : IsFiniteSet(stamps[k]) /\ Cardinality(stamps[k]) <= MaxRequests

GrantsArePast == \A g \in granted : g.ts <= clock

GrantsAreStamped == \A g \in granted : g.ts > clock - Window => Stamped(g)

\* The dates of the grants of a window, shorter by the way of a command.
DatesIn(k, t) == {g.ts : g \in GrantsIn(k, t, Window - Delay)}

\* The bounds, with the finiteness Cardinality needs.
WindowsAreFinite ==
    \A k \in Key : \A t \in 0..MaxClock :
        /\ backend = "memory" => IsFiniteSet(GrantsIn(k, t, Window))
        /\ backend = "redis" => IsFiniteSet(DatesIn(k, t))

LimitInv ==
    /\ SharedTypeOK /\ LimitTypeOK
    /\ StampsAreFew /\ GrantsArePast /\ GrantsAreStamped
    /\ WindowsAreFinite /\ MemoryLimitHolds /\ RedisLimitHolds
    /\ RefusalsAreFree

------------------------------------------------------------------------------
\* Facts about the constants, and about counting

LEMMA LimitNumbers ==
    /\ Window \in Nat /\ Window > 0
    /\ MaxRequests \in Nat /\ MaxRequests > 0
    /\ Delay \in Nat /\ MaxGrants \in Nat /\ MaxClock \in Nat
BY LimitAssumption, ClockAssumption

\* One element more in a set that was not full.
LEMMA OneMore ==
    ASSUME NEW S, NEW T, NEW x, NEW m \in Nat,
           IsFiniteSet(S), Cardinality(S) < m, T \subseteq S \cup {x}
    PROVE  IsFiniteSet(T) /\ Cardinality(T) <= m
<1>1. Cardinality(S) \in Nat
    BY FS_CardinalityType
<1>2. /\ IsFiniteSet(S \cup {x})
      /\ Cardinality(S \cup {x}) = IF x \in S THEN Cardinality(S) ELSE Cardinality(S) + 1
    BY FS_AddElement
<1>3. IsFiniteSet(T) /\ Cardinality(T) <= Cardinality(S \cup {x})
    BY <1>2, FS_Subset
<1>4. Cardinality(T) \in Nat
    BY <1>3, FS_CardinalityType
<1> QED
    BY <1>1, <1>2, <1>3, <1>4

\* Fewer than m elements, when each one has an entry of its own in S.
LEMMA FewerThan ==
    ASSUME NEW S, NEW T, NEW m \in Nat, NEW f \in Injection(T, S),
           IsFiniteSet(S), Cardinality(S) < m
    PROVE  IsFiniteSet(T) /\ Cardinality(T) < m
<1>1. IsFiniteSet(T) /\ Cardinality(T) <= Cardinality(S)
    BY FS_Injection
<1>2. Cardinality(T) \in Nat /\ Cardinality(S) \in Nat
    BY <1>1, FS_CardinalityType
<1> QED
    BY <1>1, <1>2

LEMMA SmallerSet ==
    ASSUME NEW S, NEW T \in SUBSET S, NEW m \in Nat,
           IsFiniteSet(S), Cardinality(S) <= m
    PROVE  IsFiniteSet(T) /\ Cardinality(T) <= m
<1>1. IsFiniteSet(T) /\ Cardinality(T) <= Cardinality(S)
    BY FS_Subset
<1>2. Cardinality(T) \in Nat /\ Cardinality(S) \in Nat
    BY <1>1, FS_CardinalityType
<1> QED
    BY <1>1, <1>2

LEMMA EmptyFits == IsFiniteSet({}) /\ Cardinality({}) <= MaxRequests
BY FS_EmptySet, LimitNumbers

LEMMA RecentIsStored ==
    ASSUME NEW k \in Key, NEW now, StampsAreFew
    PROVE  /\ Recent(k, now) \subseteq stamps[k]
           /\ IsFiniteSet(Recent(k, now))
           /\ Cardinality(Recent(k, now)) \in Nat
<1>1. Recent(k, now) \subseteq stamps[k]
    BY DEF Recent, Stored
<1>2. IsFiniteSet(Recent(k, now))
    BY <1>1, FS_Subset DEF StampsAreFew
<1> QED
    BY <1>1, <1>2, FS_CardinalityType

\* The dates allow may act on lie in the past, none of them too far.
LEMMA DatesAreRecent ==
    ASSUME SharedTypeOK, NEW now \in Dates
    PROVE  /\ now \in 0..MaxClock /\ now <= clock /\ now >= clock - Delay
           /\ backend = "memory" => now = clock
BY LimitNumbers DEF Dates, SharedTypeOK, Backends

\* A grant whose date is in the window is among the recent stamps of its key.
LEMMA GrantIsRecent ==
    ASSUME LimitInv, NEW g \in granted, g.ts > clock - Window, NEW now \in Dates
    PROVE  \E e \in Recent(g.key, now) :
               e.ts = g.ts /\ (backend = "memory" => e.seq = g.seq)
<1>1. PICK e \in stamps[g.key] :
          /\ e.ts = g.ts
          /\ backend = "memory" => e.seq = g.seq
          /\ backend = "redis" => expireAt[g.key] >= g.ts + Window
    BY DEF LimitInv, GrantsAreStamped, Stamped
<1>2. now \in Int /\ now <= clock /\ clock \in Int /\ Window \in Int
    BY DatesAreRecent, LimitNumbers DEF LimitInv, SharedTypeOK
<1>3. g.key \in Key /\ g.ts \in Int /\ expireAt[g.key] \in Int
    BY LimitNumbers DEF LimitInv, LimitTypeOK, Grant
<1>4. e \in Stored(g.key)
    BY <1>1, <1>2, <1>3 DEF Stored
<1>5. e.ts > now - Window
    BY <1>1, <1>2, <1>3
<1> QED
    BY <1>1, <1>4, <1>5 DEF Recent

------------------------------------------------------------------------------
\* A granted request

\* What allow writes: one stamp more for its key, and the grant.
LEMMA AllowWrites ==
    ASSUME LimitInv, NEW k \in Key, NEW now \in Dates, Allow(k, now), UNCHANGED shared
    PROVE  LET e == [ts |-> now, seq |-> served + 1]
               g == [key |-> k, ts |-> now, seq |-> served + 1]
           IN  /\ e \in Stamp /\ g \in Grant
               /\ granted' = granted \cup {g}
               /\ stamps'[k] = Counted(k, now)
               /\ e \in Counted(k, now)
               /\ Counted(k, now) \subseteq Recent(k, now) \cup {e}
               /\ \A j \in Key \ {k} : stamps'[j] = stamps[j] /\ expireAt'[j] = expireAt[j]
               /\ backend = "redis" => expireAt'[k] = clock + Window
               /\ Cardinality(Recent(k, now)) < MaxRequests
               /\ clock' = clock /\ backend' = backend
<1>1. Cardinality(Recent(k, now)) \in Nat
    BY RecentIsStored DEF LimitInv
<1>2. Cardinality(Recent(k, now)) < MaxRequests
    BY <1>1, LimitNumbers DEF Allow, Full
<1>3. served + 1 \in 1..MaxGrants /\ now \in 0..MaxClock
    BY DatesAreRecent, LimitNumbers DEF Allow, LimitInv, LimitTypeOK
<1>4. /\ stamps' = [stamps EXCEPT ![k] = Counted(k, now)]
      /\ stamps \in [Key -> SUBSET Stamp]
      /\ expireAt \in [Key -> 0..(MaxClock + Window)]
      /\ expireAt' = IF backend = "redis" THEN [expireAt EXCEPT ![k] = clock + Window] ELSE expireAt
    BY DEF Allow, RenewKey, KeyDate, LimitInv, LimitTypeOK
<1> QED
    BY <1>2, <1>3, <1>4 DEF Allow, Counted, Stamp, Grant, shared

LEMMA AllowKeepsTypes ==
    ASSUME LimitInv, NEW k \in Key, NEW now \in Dates, Allow(k, now), UNCHANGED shared
    PROVE  SharedTypeOK' /\ LimitTypeOK'
<1>1. SharedTypeOK'
    BY DEF LimitInv, SharedTypeOK, shared
<1>2. Counted(k, now) \in SUBSET Stamp
    <2> DEFINE e == [ts |-> now, seq |-> served + 1]
    <2>1. e \in Stamp /\ Counted(k, now) \subseteq Recent(k, now) \cup {e}
        BY AllowWrites
    <2>2. Recent(k, now) \subseteq stamps[k] /\ stamps[k] \subseteq Stamp
        BY RecentIsStored DEF LimitInv, LimitTypeOK
    <2> QED BY <2>1, <2>2
<1>3. stamps' \in [Key -> SUBSET Stamp]
    BY <1>2 DEF Allow, LimitInv, LimitTypeOK
<1>4. clock + Window \in 0..(MaxClock + Window)
    <2>1. clock \in 0..MaxClock
        BY DEF LimitInv, SharedTypeOK
    <2> QED BY <2>1, LimitNumbers
<1>5. expireAt' \in [Key -> 0..(MaxClock + Window)]
    BY <1>4 DEF Allow, RenewKey, KeyDate, LimitInv, LimitTypeOK
<1>6. served' \in 0..MaxGrants
    BY LimitNumbers DEF Allow, LimitInv, LimitTypeOK
<1>7. granted' \subseteq Grant
    BY AllowWrites DEF LimitInv, LimitTypeOK
<1> QED
    BY <1>1, <1>3, <1>5, <1>6, <1>7 DEF LimitTypeOK

LEMMA AllowKeepsStamps ==
    ASSUME LimitInv, NEW k \in Key, NEW now \in Dates, Allow(k, now), UNCHANGED shared
    PROVE  StampsAreFew' /\ GrantsArePast' /\ GrantsAreStamped' /\ RefusalsAreFree'
<1> DEFINE e == [ts |-> now, seq |-> served + 1]
           g == [key |-> k, ts |-> now, seq |-> served + 1]
<1>1. /\ granted' = granted \cup {g} /\ granted \subseteq Grant
      /\ stamps'[k] = Counted(k, now) /\ e \in Counted(k, now)
      /\ Counted(k, now) \subseteq Recent(k, now) \cup {e}
      /\ \A j \in Key \ {k} : stamps'[j] = stamps[j] /\ expireAt'[j] = expireAt[j]
      /\ backend = "redis" => expireAt'[k] = clock + Window
      /\ Cardinality(Recent(k, now)) < MaxRequests
      /\ clock' = clock /\ backend' = backend
    BY AllowWrites DEF LimitInv, LimitTypeOK
<1>2. now <= clock /\ now \in Int /\ clock \in Int /\ (backend = "memory" => now = clock)
    BY DatesAreRecent DEF LimitInv, SharedTypeOK
<1>3. StampsAreFew'
    <2> HIDE DEF e, g
    <2>0. IsFiniteSet(Recent(k, now)) /\ MaxRequests \in Nat
        BY RecentIsStored, LimitNumbers DEF LimitInv
    <2>1. IsFiniteSet(Counted(k, now)) /\ Cardinality(Counted(k, now)) <= MaxRequests
        BY <1>1, <2>0, OneMore
    <2>2. ASSUME NEW j \in Key PROVE IsFiniteSet(stamps'[j]) /\ Cardinality(stamps'[j]) <= MaxRequests
        <3>1. CASE j = k BY <1>1, <2>1, <3>1
        <3>2. CASE j # k BY <1>1, <3>2 DEF LimitInv, StampsAreFew
        <3> QED BY <3>1, <3>2
    <2> QED BY <2>2 DEF StampsAreFew
<1>4. GrantsArePast'
    BY <1>1, <1>2 DEF LimitInv, GrantsArePast
<1>5. GrantsAreStamped'
    <2> SUFFICES ASSUME NEW h \in granted', h.ts > clock - Window
                 PROVE  Stamped(h)'
        BY <1>1 DEF GrantsAreStamped
    <2>1. CASE h = g
        BY <1>1, <1>2, <2>1, LimitNumbers DEF Stamped
    <2>2. CASE h # g /\ h.key # k
        <3>1. h \in granted /\ h.key \in Key \ {k}
            BY <1>1, <2>2 DEF Grant
        <3>2. Stamped(h)
            BY <3>1 DEF LimitInv, GrantsAreStamped
        <3> QED
            BY <1>1, <3>1, <3>2 DEF Stamped
    <2>3. CASE h # g /\ h.key = k
        <3>1. h \in granted /\ h.ts <= clock /\ h.ts \in Int
            BY <1>1, <2>3 DEF LimitInv, GrantsArePast, Grant
        <3>2. PICK d \in Recent(k, now) :
                  d.ts = h.ts /\ (backend = "memory" => d.seq = h.seq)
            BY <2>3, <3>1, GrantIsRecent
        <3>3. CASE backend = "redis" /\ d.ts = now
            BY <1>1, <1>2, <2>3, <3>1, <3>2, <3>3, LimitNumbers DEF Stamped
        <3>4. CASE backend # "redis" \/ d.ts # now
            <4>1. d \in Counted(k, now)
                BY <3>2, <3>4 DEF Counted
            <4>2. backend = "redis" => expireAt'[k] >= h.ts + Window
                BY <1>1, <1>2, <3>1, LimitNumbers
            <4> QED
                BY <1>1, <2>3, <3>2, <4>1, <4>2 DEF Stamped
        <3> QED BY <3>3, <3>4
    <2> QED BY <2>1, <2>2, <2>3
<1>6. RefusalsAreFree'
    <2> SUFFICES ASSUME NEW j \in Key, NEW d \in stamps'[j]
                 PROVE  \E h \in granted' : h.key = j /\ h.ts = d.ts /\ h.seq = d.seq
        BY DEF RefusalsAreFree
    <2>1. CASE j = k /\ d = e
        <3>1. g \in granted' /\ g.key = j /\ g.ts = d.ts /\ g.seq = d.seq
            BY <1>1, <2>1
        <3> QED BY <3>1
    <2>2. CASE j # k \/ d # e
        <3>1. d \in stamps[j]
            BY <1>1, <2>2, RecentIsStored DEF LimitInv
        <3> QED
            BY <1>1, <3>1 DEF LimitInv, RefusalsAreFree
    <2> QED BY <2>1, <2>2
<1> QED
    BY <1>3, <1>4, <1>5, <1>6

\* The new grant is in the window: its fellows there have stamps of their own
\* among the recent ones, which were not full.
LEMMA AllowKeepsMemoryWindow ==
    ASSUME LimitInv, NEW k \in Key, NEW now \in Dates, Allow(k, now), UNCHANGED shared,
           backend = "memory", NEW j \in Key, NEW t \in 0..MaxClock
    PROVE  LET G == {h \in granted' : h.key = j /\ t - Window < h.ts /\ h.ts <= t}
           IN  IsFiniteSet(G) /\ Cardinality(G) <= MaxRequests
<1> DEFINE g == [key |-> k, ts |-> now, seq |-> served + 1]
           T == GrantsIn(j, t, Window)
           G == {h \in granted' : h.key = j /\ t - Window < h.ts /\ h.ts <= t}
           R == Recent(k, now)
<1>1. granted' = granted \cup {g} /\ Cardinality(R) < MaxRequests
    BY AllowWrites
<1>2. IsFiniteSet(T) /\ Cardinality(T) <= MaxRequests
    BY DEF LimitInv, WindowsAreFinite, MemoryLimitHolds
<1>3. CASE g \notin G
    <2>1. G = T
        BY <1>1, <1>3 DEF GrantsIn
    <2> QED BY <1>2, <2>1
<1>4. CASE g \in G
    <2> DEFINE f == [h \in T |-> [ts |-> h.ts, seq |-> h.seq]]
    <2>1. j = k /\ t - Window < now
        BY <1>4
    <2>2. now = clock /\ clock \in Int /\ t \in Int /\ now <= t
        BY <1>4, DatesAreRecent DEF LimitInv, SharedTypeOK
    <2>3. ASSUME NEW h \in T
          PROVE  [ts |-> h.ts, seq |-> h.seq] \in R
        <3>1. h \in granted /\ h \in Grant /\ h.key = k /\ t - Window < h.ts
            BY <2>1 DEF GrantsIn, LimitInv, LimitTypeOK
        <3>2. h.ts > clock - Window
            BY <2>2, <3>1, LimitNumbers DEF Grant
        <3>3. PICK d \in R : d.ts = h.ts /\ d.seq = h.seq
            BY <3>1, <3>2, GrantIsRecent
        <3>4. d \in Stamp
            BY RecentIsStored DEF LimitInv, LimitTypeOK
        <3>5. d = [ts |-> h.ts, seq |-> h.seq]
            BY <3>3, <3>4 DEF Stamp
        <3> QED BY <3>5
    <2>4. ASSUME NEW h \in T, NEW i \in T, f[h] = f[i] PROVE h = i
        <3>1. h \in Grant /\ i \in Grant /\ h.key = i.key
            BY DEF GrantsIn, LimitInv, LimitTypeOK
        <3>2. h.ts = i.ts /\ h.seq = i.seq
            BY <2>4
        <3> QED BY <3>1, <3>2 DEF Grant
    <2>5. f \in Injection(T, R)
        BY <2>3, <2>4 DEF Injection, IsInjective
    <2>6. IsFiniteSet(R) /\ MaxRequests \in Nat
        BY RecentIsStored, LimitNumbers DEF LimitInv
    <2> HIDE DEF f, T, R, g
    <2>7. IsFiniteSet(T) /\ Cardinality(T) < MaxRequests
        BY <1>1, <2>5, <2>6, FewerThan
    <2>8. G \subseteq T \cup {g}
        BY <1>1 DEF T, GrantsIn
    <2> HIDE DEF G
    <2>9. IsFiniteSet(G) /\ Cardinality(G) <= MaxRequests
        BY <2>6, <2>7, <2>8, OneMore
    <2> QED BY <2>9 DEF G
<1> QED BY <1>3, <1>4

\* In Redis the window that holds the new date ends at most Delay ticks before
\* the clock does, so all the dates in it are within a full window of the clock.
LEMMA AllowKeepsRedisWindow ==
    ASSUME LimitInv, NEW k \in Key, NEW now \in Dates, Allow(k, now), UNCHANGED shared,
           backend = "redis", NEW j \in Key, NEW t \in 0..MaxClock
    PROVE  LET D == {h.ts : h \in {i \in granted' :
                         i.key = j /\ t - (Window - Delay) < i.ts /\ i.ts <= t}}
           IN  IsFiniteSet(D) /\ Cardinality(D) <= MaxRequests
<1> DEFINE g == [key |-> k, ts |-> now, seq |-> served + 1]
           T == DatesIn(j, t)
           D == {h.ts : h \in {i \in granted' :
                         i.key = j /\ t - (Window - Delay) < i.ts /\ i.ts <= t}}
           R == Recent(k, now)
<1>1. granted' = granted \cup {g} /\ Cardinality(R) < MaxRequests
    BY AllowWrites
<1>2. IsFiniteSet(T) /\ Cardinality(T) <= MaxRequests
    BY DEF LimitInv, WindowsAreFinite, RedisLimitHolds, DatesIn
<1>3. CASE ~(j = k /\ t - (Window - Delay) < now /\ now <= t)
    <2>1. D = T
        BY <1>1, <1>3 DEF DatesIn, GrantsIn
    <2> QED BY <1>2, <2>1
<1>4. CASE j = k /\ t - (Window - Delay) < now /\ now <= t
    <2> DEFINE f == [x \in T |-> CHOOSE d \in R : d.ts = x]
    <2>1. now >= clock - Delay /\ now \in Int /\ clock \in Int /\ t \in Int
        BY DatesAreRecent DEF LimitInv, SharedTypeOK
    <2>2. ASSUME NEW x \in T
          PROVE  f[x] \in R /\ f[x].ts = x
        <3>1. PICK h \in granted : h.key = k /\ t - (Window - Delay) < h.ts /\ h.ts = x
            BY <1>4 DEF DatesIn, GrantsIn
        <3>2. h.ts > clock - Window
            BY <1>4, <2>1, <3>1, LimitNumbers DEF LimitInv, LimitTypeOK, Grant
        <3>3. \E d \in R : d.ts = x
            BY <3>1, <3>2, GrantIsRecent
        <3> QED BY <3>3
    <2>3. f \in Injection(T, R)
        BY <2>2 DEF Injection, IsInjective
    <2>4. IsFiniteSet(R) /\ MaxRequests \in Nat
        BY RecentIsStored, LimitNumbers DEF LimitInv
    <2> HIDE DEF f, T, R
    <2>5. IsFiniteSet(T) /\ Cardinality(T) < MaxRequests
        BY <1>1, <2>3, <2>4, FewerThan
    <2>6. D \subseteq T \cup {now}
        BY <1>1 DEF T, DatesIn, GrantsIn
    <2> HIDE DEF D
    <2>7. IsFiniteSet(D) /\ Cardinality(D) <= MaxRequests
        BY <2>4, <2>5, <2>6, OneMore
    <2> QED BY <2>7 DEF D
<1> QED BY <1>3, <1>4

LEMMA AllowKeepsInv ==
    ASSUME LimitInv, NEW k \in Key, NEW now \in Dates, Allow(k, now), UNCHANGED shared
    PROVE  LimitInv'
<1>1. backend' = backend
    BY DEF shared
<1>2. WindowsAreFinite' /\ MemoryLimitHolds' /\ RedisLimitHolds'
    BY <1>1, AllowKeepsMemoryWindow, AllowKeepsRedisWindow
       DEF WindowsAreFinite, MemoryLimitHolds, RedisLimitHolds, DatesIn, GrantsIn
<1> QED
    BY <1>2, AllowKeepsTypes, AllowKeepsStamps DEF LimitInv

------------------------------------------------------------------------------
\* Steps that grant nothing

\* No window gains a grant.
LEMMA WindowsShrink ==
    ASSUME LimitInv, granted' \subseteq granted, backend' = backend
    PROVE  WindowsAreFinite' /\ MemoryLimitHolds' /\ RedisLimitHolds'
<1>1. ASSUME NEW k \in Key, NEW t \in 0..MaxClock, backend = "memory"
      PROVE  IsFiniteSet(GrantsIn(k, t, Window)') /\ Cardinality(GrantsIn(k, t, Window)') <= MaxRequests
    <2>1. GrantsIn(k, t, Window)' \in SUBSET GrantsIn(k, t, Window)
        BY DEF GrantsIn
    <2>2. IsFiniteSet(GrantsIn(k, t, Window)) /\ Cardinality(GrantsIn(k, t, Window)) <= MaxRequests
        BY <1>1 DEF LimitInv, WindowsAreFinite, MemoryLimitHolds
    <2> QED BY <2>1, <2>2, SmallerSet, LimitNumbers
<1>2. ASSUME NEW k \in Key, NEW t \in 0..MaxClock, backend = "redis"
      PROVE  IsFiniteSet(DatesIn(k, t)') /\ Cardinality(DatesIn(k, t)') <= MaxRequests
    <2>1. DatesIn(k, t)' \in SUBSET DatesIn(k, t)
        BY DEF DatesIn, GrantsIn
    <2>2. IsFiniteSet(DatesIn(k, t)) /\ Cardinality(DatesIn(k, t)) <= MaxRequests
        BY <1>2 DEF LimitInv, WindowsAreFinite, RedisLimitHolds, DatesIn
    <2> QED BY <2>1, <2>2, SmallerSet, LimitNumbers
<1> QED
    BY <1>1, <1>2 DEF WindowsAreFinite, MemoryLimitHolds, RedisLimitHolds, DatesIn

\* A refusal only drops what has left the window, and renews the ttl.
LEMMA RefuseKeepsInv ==
    ASSUME LimitInv, NEW k \in Key, NEW now \in Dates, Refuse(k, now), UNCHANGED shared
    PROVE  LimitInv'
<1>1. /\ stamps' = [stamps EXCEPT ![k] = Recent(k, now)]
      /\ expireAt' = IF backend = "redis" THEN [expireAt EXCEPT ![k] = clock + Window] ELSE expireAt
      /\ granted' = granted /\ served' = served /\ clock' = clock /\ backend' = backend
    BY DEF Refuse, Left, RenewKey, KeyDate, shared
<1>2. /\ stamps \in [Key -> SUBSET Stamp] /\ expireAt \in [Key -> 0..(MaxClock + Window)]
      /\ granted \subseteq Grant /\ clock \in 0..MaxClock
      /\ Recent(k, now) \subseteq stamps[k]
    BY RecentIsStored DEF LimitInv, LimitTypeOK, SharedTypeOK
<1>3. SharedTypeOK' /\ LimitTypeOK'
    <2>1. clock + Window \in 0..(MaxClock + Window)
        BY <1>2, LimitNumbers
    <2> QED BY <1>1, <1>2, <2>1 DEF LimitInv, LimitTypeOK, SharedTypeOK
<1>4. StampsAreFew'
    <2>1. IsFiniteSet(Recent(k, now)) /\ Cardinality(Recent(k, now)) <= MaxRequests
        BY <1>2, SmallerSet, LimitNumbers DEF LimitInv, StampsAreFew
    <2>2. ASSUME NEW j \in Key PROVE IsFiniteSet(stamps'[j]) /\ Cardinality(stamps'[j]) <= MaxRequests
        <3>1. CASE j = k BY <1>1, <1>2, <2>1, <3>1
        <3>2. CASE j # k BY <1>1, <1>2, <3>2 DEF LimitInv, StampsAreFew
        <3> QED BY <3>1, <3>2
    <2> QED BY <2>2 DEF StampsAreFew
<1>5. GrantsArePast'
    BY <1>1 DEF LimitInv, GrantsArePast
<1>6. GrantsAreStamped'
    <2> SUFFICES ASSUME NEW h \in granted, h.ts > clock - Window
                 PROVE  Stamped(h)'
        BY <1>1 DEF GrantsAreStamped
    <2>1. h.key \in Key /\ h.ts \in Int /\ h.ts <= clock /\ Stamped(h)
        BY <1>2 DEF LimitInv, GrantsAreStamped, GrantsArePast, Grant
    <2>2. CASE h.key = k
        <3>1. PICK d \in Recent(k, now) : d.ts = h.ts /\ (backend = "memory" => d.seq = h.seq)
            BY <2>2, GrantIsRecent
        <3>2. backend = "redis" => expireAt'[k] >= h.ts + Window
            BY <1>1, <1>2, <2>1, LimitNumbers
        <3> QED BY <1>1, <1>2, <2>2, <3>1, <3>2 DEF Stamped
    <2>3. CASE h.key # k
        BY <1>1, <1>2, <2>1, <2>3 DEF Stamped
    <2> QED BY <2>2, <2>3
<1>7. RefusalsAreFree'
    <2>1. ASSUME NEW j \in Key PROVE stamps'[j] \subseteq stamps[j]
        BY <1>1, <1>2
    <2> QED BY <1>1, <2>1 DEF LimitInv, RefusalsAreFree
<1> QED
    BY <1>1, <1>3, <1>4, <1>5, <1>6, <1>7, WindowsShrink DEF LimitInv

\* A clear forgets whole keys, their grants with them.
LEMMA ClearKeepsInv ==
    ASSUME LimitInv, NEW K \in Sweeps, Clear(K), UNCHANGED shared
    PROVE  LimitInv'
<1>1. /\ stamps' = [k \in Key |-> IF k \in K THEN {} ELSE stamps[k]]
      /\ granted' = {g \in granted : g.key \notin K}
      /\ UNCHANGED <<expireAt, served>>
    BY DEF Clear
<1>2. clock' = clock /\ backend' = backend
    BY DEF shared
<1>3. SharedTypeOK' /\ LimitTypeOK'
    BY <1>1, <1>2 DEF LimitInv, LimitTypeOK, SharedTypeOK
<1>4. StampsAreFew'
    BY <1>1, EmptyFits DEF LimitInv, StampsAreFew
<1>5. GrantsArePast'
    BY <1>1, <1>2 DEF LimitInv, GrantsArePast
<1>6. GrantsAreStamped'
    BY <1>1, <1>2 DEF LimitInv, GrantsAreStamped, Stamped, LimitTypeOK, Grant
<1>7. RefusalsAreFree'
    BY <1>1 DEF LimitInv, RefusalsAreFree
<1> QED
    BY <1>1, <1>2, <1>3, <1>4, <1>5, <1>6, <1>7, WindowsShrink DEF LimitInv

\* Time only moves grants out of the window.
LEMMA TickKeepsInv ==
    ASSUME LimitInv, Tick, UNCHANGED <<backend, stamps, expireAt, served, granted>>
    PROVE  LimitInv'
<1>1. clock' = clock + 1 /\ clock' \in 0..MaxClock /\ clock \in Int
    BY LimitNumbers DEF Tick, LimitInv, SharedTypeOK
<1>2. SharedTypeOK' /\ LimitTypeOK' /\ StampsAreFew' /\ RefusalsAreFree'
    BY <1>1 DEF LimitInv, SharedTypeOK, LimitTypeOK, StampsAreFew, RefusalsAreFree
<1>3. GrantsArePast' /\ GrantsAreStamped'
    <2>1. ASSUME NEW g \in granted PROVE g.ts \in Int
        BY DEF LimitInv, LimitTypeOK, Grant
    <2> QED
        BY <1>1, <2>1, LimitNumbers DEF LimitInv, GrantsArePast, GrantsAreStamped, Stamped
<1> QED
    BY <1>2, <1>3, WindowsShrink DEF LimitInv

\* A step that changes nothing.
LEMMA StutterKeepsInv ==
    ASSUME LimitInv, UNCHANGED <<shared, limitVars>>
    PROVE  LimitInv'
<1>1. /\ clock' = clock /\ backend' = backend
      /\ stamps' = stamps /\ expireAt' = expireAt /\ served' = served /\ granted' = granted
    BY DEF shared, limitVars
<1>2. SharedTypeOK' /\ LimitTypeOK'
    BY <1>1 DEF LimitInv, SharedTypeOK, LimitTypeOK
<1>3. StampsAreFew'
    BY <1>1 DEF LimitInv, StampsAreFew
<1>4. GrantsArePast' /\ GrantsAreStamped'
    BY <1>1 DEF LimitInv, GrantsArePast, GrantsAreStamped, Stamped
<1>5. RefusalsAreFree'
    BY <1>1 DEF LimitInv, RefusalsAreFree
<1> QED
    BY <1>1, <1>2, <1>3, <1>4, <1>5, WindowsShrink DEF LimitInv

LEMMA LimitInitInv == SharedInit /\ LimitInit => LimitInv
<1> SUFFICES ASSUME SharedInit, LimitInit PROVE LimitInv
    OBVIOUS
<1>1. SharedTypeOK /\ LimitTypeOK
    BY LimitNumbers DEF SharedInit, LimitInit, SharedTypeOK, LimitTypeOK
<1>2. StampsAreFew
    BY EmptyFits DEF LimitInit, StampsAreFew
<1>3. WindowsAreFinite /\ MemoryLimitHolds /\ RedisLimitHolds
    <2>1. ASSUME NEW k \in Key, NEW t \in 0..MaxClock
          PROVE  GrantsIn(k, t, Window) = {} /\ DatesIn(k, t) = {}
        BY DEF LimitInit, GrantsIn, DatesIn
    <2> QED
        BY <2>1, EmptyFits DEF WindowsAreFinite, MemoryLimitHolds, RedisLimitHolds, DatesIn
<1>4. GrantsArePast /\ GrantsAreStamped /\ RefusalsAreFree
    BY DEF LimitInit, GrantsArePast, GrantsAreStamped, RefusalsAreFree
<1> QED
    BY <1>1, <1>2, <1>3, <1>4 DEF LimitInv

LEMMA LimitStepInv == LimitInv /\ [LimitNext]_<<shared, limitVars>> => LimitInv'
<1> SUFFICES ASSUME LimitInv, [LimitNext]_<<shared, limitVars>> PROVE LimitInv'
    OBVIOUS
<1>1. ASSUME NEW k \in Key, NEW now \in Dates, Allow(k, now) \/ Refuse(k, now), UNCHANGED shared
      PROVE  LimitInv'
    BY <1>1, AllowKeepsInv, RefuseKeepsInv
<1>2. ASSUME NEW K \in Sweeps, Clear(K), UNCHANGED shared PROVE LimitInv'
    BY <1>2, ClearKeepsInv
<1>3. CASE Tick /\ UNCHANGED <<backend, stamps, expireAt, served, granted>>
    BY <1>3, TickKeepsInv
<1>4. CASE UNCHANGED <<shared, limitVars>>
    BY <1>4, StutterKeepsInv
<1> QED
    BY <1>1, <1>2, <1>3, <1>4 DEF LimitNext

\* MemoryRateLimiter and RedisRateLimiter keep their types and their bounds: no
\* window of windowSeconds holds more than maxRequests grants in memory, none
\* shorter by the way of a command holds grants of more dates in Redis.
THEOREM LimitsHold == LimitSpec => [](LimitTypeOK /\ LimitHolds)
<1>1. LimitSpec => []LimitInv
    BY LimitInitInv, LimitStepInv, PTL DEF LimitSpec
<1>2. LimitInv => LimitTypeOK /\ LimitHolds
    BY DEF LimitInv, LimitHolds
<1> QED
    BY <1>1, <1>2, PTL

\* A refused request is never counted.
THEOREM RefusalsCountNothing == LimitSpec => []RefusalsAreFree
<1>1. LimitSpec => []LimitInv
    BY LimitInitInv, LimitStepInv, PTL DEF LimitSpec
<1>2. LimitInv => RefusalsAreFree
    BY DEF LimitInv
<1> QED
    BY <1>1, <1>2, PTL

------------------------------------------------------------------------------
(***************************************************************************)
(* The nonce stores.  No nonce is accepted twice within its ttl, for any   *)
(* nonces, ttl and capacity.  What carries it: whatever was recorded is    *)
(* still stored, or its ttl is over, or so many nonces followed that it    *)
(* was evicted.                                                            *)
(***************************************************************************)

\* The ttl of a nonce is over: Redis drops it one tick after the Map would.
OverAt(r, now) ==
    r.at + Tolerance <= now /\ (backend = "redis" => r.at + Tolerance < now)

Remembered(r) ==
    \/ \E e \in records :
           e.nonce = r.nonce /\ e.seq = r.seq /\ e.expireAt = r.at + Tolerance
    \/ OverAt(r, clock)
    \/ backend = "memory" /\ issued >= r.seq + MaxSize

RecordsAreNumbered ==
    /\ IsFiniteSet(records)
    /\ \A e \in records : e.seq <= issued
    /\ \A e, f \in records : e.seq = f.seq => e = f

ReceiptsArePast == \A r \in recorded : r.seq <= issued

\* NonceOncePerWindow, with the tick more that Redis takes.
RepeatsComeLate ==
    \A e, f \in recorded :
        e.nonce = f.nonce /\ e.seq < f.seq =>
            OverAt(e, f.at) \/ (backend = "memory" /\ f.seq > e.seq + MaxSize)

NonceInv ==
    /\ SharedTypeOK /\ NonceTypeOK
    /\ RecordsAreNumbered /\ ReceiptsArePast
    /\ \A r \in recorded : Remembered(r)
    /\ RepeatsComeLate

------------------------------------------------------------------------------

LEMMA NonceNumbers ==
    /\ Tolerance \in Nat /\ MaxSize \in Nat /\ MaxSize > 0
    /\ MaxRecorded \in Nat /\ MaxClock \in Nat
BY NonceAssumption, ClockAssumption

LEMMA KeptIsStored ==
    /\ Kept \subseteq records
    /\ \A e \in records : e \notin Kept =>
           \/ backend = "memory" /\ e.expireAt <= clock
           \/ backend = "redis" /\ e.expireAt < clock
BY DEF Kept, Gone

\* All that is stored was numbered from the oldest entry on.
LEMMA OldestIsFarBehind ==
    ASSUME NonceInv, NEW e \in Oldest(Kept), Cardinality(Kept) >= MaxSize
    PROVE  issued + 1 >= e.seq + MaxSize
<1>1. e \in Entry /\ e.seq \in Int /\ issued \in Int /\ e.seq <= issued
    BY KeptIsStored, NonceNumbers
       DEF Oldest, NonceInv, NonceTypeOK, Entry, RecordsAreNumbered
<1> DEFINE f == [d \in Kept |-> d.seq]
<1>2. \A d \in Kept : d.seq \in e.seq..issued
    BY <1>1, KeptIsStored
       DEF Oldest, NonceInv, NonceTypeOK, Entry, RecordsAreNumbered
<1>3. \A d, c \in Kept : d.seq = c.seq => d = c
    BY KeptIsStored DEF NonceInv, RecordsAreNumbered
<1>4. f \in Injection(Kept, e.seq..issued)
    BY <1>2, <1>3 DEF Injection, IsInjective
<1>5. /\ IsFiniteSet(e.seq..issued)
      /\ Cardinality(e.seq..issued) = IF e.seq > issued THEN 0 ELSE issued - e.seq + 1
    BY <1>1, FS_Interval
<1> HIDE DEF f
<1>6. IsFiniteSet(Kept) /\ Cardinality(Kept) <= Cardinality(e.seq..issued)
    BY <1>4, <1>5, FS_Injection
<1>7. Cardinality(Kept) \in Nat
    BY <1>6, FS_CardinalityType
<1> QED
    BY <1>1, <1>5, <1>6, <1>7, NonceNumbers

LEMMA MakeRoomKeeps ==
    /\ MakeRoom \subseteq Kept
    /\ \A e \in Kept :
        \/ e \in MakeRoom
        \/ (backend = "memory" /\ e \in Oldest(Kept) /\ Cardinality(Kept) >= MaxSize)
BY DEF MakeRoom

\* A nonce recorded is new, or forgotten for one of the two reasons.
LEMMA RecordKeepsInv ==
    ASSUME NonceInv, NEW n \in Nonce, Record(n), UNCHANGED shared
    PROVE  NonceInv'
<1> DEFINE e0 == [nonce |-> n, seq |-> issued + 1, expireAt |-> clock + Tolerance]
           r0 == [nonce |-> n, seq |-> issued + 1, at |-> clock]
<1>1. /\ records' = MakeRoom \cup {e0} /\ recorded' = recorded \cup {r0}
      /\ issued' = issued + 1 /\ issued < MaxRecorded
      /\ clock' = clock /\ backend' = backend /\ ~Has(n)
    BY DEF Record, shared
<1>2. /\ records \subseteq Entry /\ recorded \subseteq Receipt
      /\ issued \in Nat /\ clock \in 0..MaxClock
      /\ MakeRoom \subseteq records
    BY KeptIsStored, MakeRoomKeeps, NonceNumbers DEF NonceInv, NonceTypeOK, SharedTypeOK
<1>3. SharedTypeOK' /\ NonceTypeOK'
    <2>1. e0 \in Entry /\ r0 \in Receipt /\ issued + 1 \in 0..MaxRecorded
        BY <1>1, <1>2, NonceNumbers DEF Entry, Receipt
    <2> HIDE DEF e0, r0
    <2> QED BY <1>1, <1>2, <2>1 DEF NonceInv, NonceTypeOK, SharedTypeOK
<1>4. RecordsAreNumbered'
    <2>1. IsFiniteSet(MakeRoom)
        BY <1>2, FS_Subset DEF NonceInv, RecordsAreNumbered
    <2>2. IsFiniteSet(records')
        BY <1>1, <2>1, FS_AddElement
    <2>3. \A e \in records : e.seq <= issued /\ e.seq \in Int
        BY <1>2 DEF NonceInv, RecordsAreNumbered, Entry
    <2>4. \A e, f \in records' : e.seq = f.seq => e = f
        BY <1>1, <1>2, <2>3 DEF NonceInv, RecordsAreNumbered
    <2>5. \A e \in records' : e.seq <= issued'
        BY <1>1, <1>2, <2>3
    <2> QED BY <2>2, <2>4, <2>5 DEF RecordsAreNumbered
<1>5. ReceiptsArePast'
    BY <1>1, <1>2 DEF NonceInv, ReceiptsArePast, Receipt
<1>6. ASSUME NEW r \in recorded' PROVE Remembered(r)'
    <2>1. CASE r = r0
        <3>1. e0 \in records' /\ e0.nonce = r.nonce /\ e0.seq = r.seq /\ e0.expireAt = r.at + Tolerance
            BY <1>1, <2>1
        <3> QED BY <3>1 DEF Remembered
    <2>2. CASE r # r0
        <3>1. r \in recorded /\ r \in Receipt /\ Remembered(r)
            BY <1>1, <1>2, <2>2 DEF NonceInv
        <3>2. CASE OverAt(r, clock)
            BY <1>1, <3>2 DEF Remembered, OverAt
        <3>3. CASE backend = "memory" /\ issued >= r.seq + MaxSize
            BY <1>1, <1>2, <3>1, <3>3, NonceNumbers DEF Remembered, Receipt
        <3>4. CASE \E e \in records :
                       e.nonce = r.nonce /\ e.seq = r.seq /\ e.expireAt = r.at + Tolerance
            <4>1. PICK e \in records :
                      e.nonce = r.nonce /\ e.seq = r.seq /\ e.expireAt = r.at + Tolerance
                BY <3>4
            <4>2. CASE e \notin Kept
                <5>1. OverAt(r, clock)
                    BY <1>2, <4>1, <4>2, KeptIsStored DEF Entry, OverAt
                <5> QED BY <1>1, <5>1 DEF Remembered, OverAt
            <4>3. CASE e \in MakeRoom
                BY <1>1, <4>1, <4>3 DEF Remembered
            <4>4. CASE backend = "memory" /\ e \in Oldest(Kept) /\ Cardinality(Kept) >= MaxSize
                <5>1. issued + 1 >= r.seq + MaxSize
                    BY <4>1, <4>4, OldestIsFarBehind
                <5> QED BY <1>1, <4>4, <5>1 DEF Remembered
            <4> QED BY <4>2, <4>3, <4>4, MakeRoomKeeps
        <3> QED BY <3>1, <3>2, <3>3, <3>4 DEF Remembered
    <2> QED BY <2>1, <2>2
<1>7. RepeatsComeLate'
    <2> SUFFICES ASSUME NEW e \in recorded', NEW f \in recorded', e.nonce = f.nonce, e.seq < f.seq
                 PROVE  OverAt(e, f.at) \/ (backend = "memory" /\ f.seq > e.seq + MaxSize)
        BY <1>1 DEF RepeatsComeLate, OverAt
    <2>1. CASE e \in recorded /\ f \in recorded
        BY <2>1 DEF NonceInv, RepeatsComeLate
    <2>2. CASE e = r0
        <3>1. f = r0 \/ (f \in recorded /\ f \in Receipt /\ f.seq <= issued)
            BY <1>1, <1>2 DEF NonceInv, ReceiptsArePast
        <3> QED BY <1>2, <2>2, <3>1 DEF Receipt
    <2>3. CASE e \in recorded /\ f = r0
        <3>1. Remembered(e) /\ e \in Receipt /\ e.nonce = n /\ f.at = clock /\ f.seq = issued + 1
            BY <1>2, <2>3 DEF NonceInv
        <3>2. CASE \E d \in records :
                       d.nonce = e.nonce /\ d.seq = e.seq /\ d.expireAt = e.at + Tolerance
            <4>1. PICK d \in records :
                      d.nonce = e.nonce /\ d.seq = e.seq /\ d.expireAt = e.at + Tolerance
                BY <3>2
            <4>2. d \notin Kept
                BY <1>1, <3>1, <4>1 DEF Has
            <4>3. OverAt(e, clock)
                BY <1>2, <4>1, <4>2, KeptIsStored DEF Entry, OverAt
            <4> QED BY <3>1, <4>3
        <3>3. CASE OverAt(e, clock)
            BY <3>1, <3>3
        <3>4. CASE backend = "memory" /\ issued >= e.seq + MaxSize
            BY <1>2, <3>1, <3>4, NonceNumbers DEF Receipt
        <3> QED BY <3>1, <3>2, <3>3, <3>4 DEF Remembered
    <2> QED BY <1>1, <2>1, <2>2, <2>3
<1> QED
    BY <1>3, <1>4, <1>5, <1>6, <1>7 DEF NonceInv

\* A duplicate only drops what is over.
LEMMA DuplicateKeepsInv ==
    ASSUME NonceInv, NEW n \in Nonce, Duplicate(n), UNCHANGED shared
    PROVE  NonceInv'
<1>1. /\ records' = Kept /\ recorded' = recorded /\ issued' = issued
      /\ clock' = clock /\ backend' = backend /\ Kept \subseteq records
    BY KeptIsStored DEF Duplicate, shared
<1>2. SharedTypeOK' /\ NonceTypeOK' /\ ReceiptsArePast' /\ RepeatsComeLate'
    BY <1>1 DEF NonceInv, NonceTypeOK, SharedTypeOK, ReceiptsArePast, RepeatsComeLate, OverAt
<1>3. RecordsAreNumbered'
    <2>1. IsFiniteSet(Kept)
        BY <1>1, FS_Subset DEF NonceInv, RecordsAreNumbered
    <2> QED BY <1>1, <2>1 DEF NonceInv, RecordsAreNumbered
<1>4. ASSUME NEW r \in recorded PROVE Remembered(r)'
    <2>1. Remembered(r) /\ clock \in Int
        BY DEF NonceInv, SharedTypeOK
    <2>2. ASSUME NEW e \in records, e \notin Kept, e.expireAt = r.at + Tolerance
          PROVE  OverAt(r, clock)
        BY <2>1, <2>2, KeptIsStored DEF OverAt, NonceInv, NonceTypeOK, Entry
    <2> QED BY <1>1, <2>1, <2>2 DEF Remembered, OverAt
<1> QED
    BY <1>1, <1>2, <1>3, <1>4 DEF NonceInv

LEMMA NonceTickKeepsInv ==
    ASSUME NonceInv, Tick, UNCHANGED <<backend, records, issued, recorded>>
    PROVE  NonceInv'
<1>1. clock' = clock + 1 /\ clock' \in 0..MaxClock /\ clock \in Int
    BY NonceNumbers DEF Tick, NonceInv, SharedTypeOK
<1>2. /\ SharedTypeOK' /\ NonceTypeOK' /\ RecordsAreNumbered' /\ ReceiptsArePast'
      /\ RepeatsComeLate'
    BY <1>1 DEF NonceInv, SharedTypeOK, NonceTypeOK, RecordsAreNumbered, ReceiptsArePast,
       RepeatsComeLate, OverAt
<1>3. ASSUME NEW r \in recorded PROVE Remembered(r)'
    <2>1. Remembered(r) /\ r.at \in Int
        BY DEF NonceInv, NonceTypeOK, Receipt
    <2> QED BY <1>1, <2>1, NonceNumbers DEF Remembered, OverAt
<1> QED
    BY <1>2, <1>3 DEF NonceInv

LEMMA NonceInitInv == SharedInit /\ NonceInit => NonceInv
<1> SUFFICES ASSUME SharedInit, NonceInit PROVE NonceInv
    OBVIOUS
<1>1. SharedTypeOK /\ NonceTypeOK
    BY NonceNumbers DEF SharedInit, NonceInit, SharedTypeOK, NonceTypeOK
<1>2. RecordsAreNumbered
    BY FS_EmptySet DEF NonceInit, RecordsAreNumbered
<1> QED
    BY <1>1, <1>2 DEF NonceInit, NonceInv, ReceiptsArePast, RepeatsComeLate

LEMMA NonceStepInv == NonceInv /\ [NonceNext]_<<shared, nonceVars>> => NonceInv'
<1> SUFFICES ASSUME NonceInv, [NonceNext]_<<shared, nonceVars>> PROVE NonceInv'
    OBVIOUS
<1>1. ASSUME NEW n \in Nonce, Record(n) \/ Duplicate(n), UNCHANGED shared
      PROVE  NonceInv'
    BY <1>1, RecordKeepsInv, DuplicateKeepsInv
<1>2. CASE Tick /\ UNCHANGED <<backend, records, issued, recorded>>
    BY <1>2, NonceTickKeepsInv
<1>3. CASE UNCHANGED <<shared, nonceVars>>
    BY <1>3 DEF shared, nonceVars, NonceInv, SharedTypeOK, NonceTypeOK, RecordsAreNumbered,
       ReceiptsArePast, Remembered, RepeatsComeLate, OverAt
<1> QED
    BY <1>1, <1>2, <1>3 DEF NonceNext

\* setIfAbsent of both stores accepts a nonce again only after its ttl, or after
\* as many other nonces as the memory store holds.
THEOREM NoncesHold == NonceSpec => [](NonceTypeOK /\ NonceOncePerWindow)
<1>1. NonceSpec => []NonceInv
    BY NonceInitInv, NonceStepInv, PTL DEF NonceSpec
<1>2. NonceInv => NonceTypeOK /\ NonceOncePerWindow
    BY DEF NonceInv, NonceOncePerWindow, RepeatsComeLate, OverAt, NonceTypeOK, Receipt
<1> QED
    BY <1>1, <1>2, PTL

------------------------------------------------------------------------------
(***************************************************************************)
(* The composition: the workers of Admission as callers of both.           *)
(***************************************************************************)

FlightType == flight \in [Worker -> {Idle} \cup AtNonce \cup AtLimit]

\* A worker under way read its date at most Late ticks ago.
NobodyIsLate ==
    \A w \in Worker : flight[w].pc # "idle" =>
        flight[w].at <= clock /\ clock - flight[w].at <= Late

\* The date is within the window of the timestamp.
Valid(n, t) == t - Date[n] <= Tolerance /\ Date[n] - t <= Tolerance

\* At the await of the nonce the timestamp of a signed message was valid.
TimestampsWereValid ==
    \A w \in Worker : flight[w].pc = "nonce" /\ flight[w].signed =>
        Valid(flight[w].nonce, flight[w].at)

FlightInv ==
    /\ SharedTypeOK /\ NonceInv /\ FlightType
    /\ NobodyIsLate /\ TimestampsWereValid

LEMMA AdmissionNumbers ==
    /\ Late \in Nat /\ Delay \in Nat /\ MaxClock \in Nat /\ Tolerance \in Nat
    /\ Account \in Key
    /\ \A n \in Nonce : Date[n] \in Int
<1>1. Delay \in Nat /\ MaxClock \in Nat
    BY LimitNumbers
<1>2. Account \in Key /\ \A n \in Nonce : Date[n] \in Int
    BY AdmissionAssumption
<1> QED
    BY <1>1, <1>2, NonceNumbers DEF Late

\* What a worker that is not idle carries.
LEMMA UnderWay ==
    ASSUME FlightInv, NEW w \in Worker, flight[w].pc # "idle"
    PROVE  /\ flight[w].at \in 0..MaxClock /\ flight[w].at <= clock /\ clock - flight[w].at <= Late
           /\ flight[w].pc \in {"nonce", "limit"}
           /\ flight[w].pc = "nonce" => flight[w].nonce \in Nonce /\ flight[w].signed \in BOOLEAN
           /\ flight[w].pc = "limit" => flight[w].msg \in Message
<1>1. flight[w] \in AtNonce \cup AtLimit
    BY DEF FlightInv, FlightType, Idle
<1>2. flight[w].at <= clock /\ clock - flight[w].at <= Late
    BY DEF FlightInv, NobodyIsLate
<1> QED
    BY <1>1, <1>2 DEF AtNonce, AtLimit

LEMMA StepOfNonceStore == FlightInv /\ [Next]_vars => [NonceNext]_<<shared, nonceVars>>
<1> SUFFICES ASSUME FlightInv, [Next]_vars PROVE [NonceNext]_<<shared, nonceVars>>
    OBVIOUS
<1>1. ASSUME NEW w \in Worker, CheckNonce(w) \/ CommandFails(w)
      PROVE  [NonceNext]_<<shared, nonceVars>>
    <2>1. UNCHANGED shared
        BY <1>1 DEF CheckNonce, CommandFails
    <2>2. CASE UNCHANGED nonceVars
        BY <2>1, <2>2
    <2>3. CASE flight[w].pc = "nonce" /\ (Record(flight[w].nonce) \/ Duplicate(flight[w].nonce))
        <3>1. flight[w].nonce \in Nonce
            BY <2>3, UnderWay
        <3> QED BY <2>1, <2>3, <3>1 DEF NonceNext
    <2> QED BY <1>1, <2>2, <2>3 DEF CheckNonce, CommandFails
<1>2. CASE Advance
    BY <1>2 DEF Advance, NonceNext, nonceVars
<1>3. CASE Boot \/ Shutdown \/ ClearLimits
    BY <1>3 DEF Boot, Shutdown, ClearLimits
<1>4. ASSUME NEW w \in Worker, NEW n \in Nonce, NEW signed \in BOOLEAN,
             CheckTimestamp(w, n, signed)
      PROVE  UNCHANGED <<shared, nonceVars>>
    BY <1>4 DEF CheckTimestamp
<1>5. ASSUME NEW w \in Worker, AskLimiter(w) \/ ArriveUnguarded(w)
      PROVE  UNCHANGED <<shared, nonceVars>>
    BY <1>5 DEF AskLimiter, ArriveUnguarded
<1>6. CASE UNCHANGED vars
    BY <1>6 DEF vars
<1> QED
    BY <1>1, <1>2, <1>3, <1>4, <1>5, <1>6 DEF Next

\* A step that leaves the clock alone and gives one worker a state of the tick.
LEMMA FlightStep ==
    ASSUME FlightInv, NonceInv', UNCHANGED shared, NEW w \in Worker,
           NEW r \in {Idle} \cup AtNonce \cup AtLimit,
           flight' = [flight EXCEPT ![w] = r],
           r.pc # "idle" => r.at = clock,
           r.pc = "nonce" /\ r.signed => Valid(r.nonce, clock)
    PROVE  FlightInv'
<1>1. clock' = clock /\ backend' = backend /\ Late' = Late /\ clock \in Int
    BY DEF shared, Late, FlightInv, SharedTypeOK
<1>2. SharedTypeOK' /\ FlightType'
    BY <1>1 DEF FlightInv, SharedTypeOK, FlightType
<1>3. ASSUME NEW v \in Worker PROVE flight'[v] = IF v = w THEN r ELSE flight[v]
    BY DEF FlightInv, FlightType
<1>4. NobodyIsLate'
    BY <1>1, <1>3, AdmissionNumbers DEF FlightInv, NobodyIsLate
<1>5. TimestampsWereValid'
    <2> SUFFICES ASSUME NEW v \in Worker, flight'[v].pc = "nonce", flight'[v].signed
                 PROVE  Valid(flight'[v].nonce, flight'[v].at)
        BY DEF TimestampsWereValid, Valid
    <2>1. CASE v = w
        BY <1>3, <2>1 DEF Idle
    <2>2. CASE v # w
        BY <1>3, <2>2 DEF FlightInv, TimestampsWereValid
    <2> QED BY <2>1, <2>2
<1> QED
    BY <1>2, <1>4, <1>5 DEF FlightInv

LEMMA LetInKeepsFlight ==
    ASSUME FlightInv, NonceInv', UNCHANGED shared,
           NEW w \in Worker, NEW m, NEW now, NEW counts, LetIn(w, m, now, counts)
    PROVE  FlightInv'
BY FlightStep DEF LetIn, Idle

LEMMA RefusedKeepsFlight ==
    ASSUME FlightInv, NonceInv', UNCHANGED shared, NEW w \in Worker, Refused(w)
    PROVE  FlightInv'
BY FlightStep DEF Refused, Idle

LEMMA ProceedKeepsFlight ==
    ASSUME FlightInv, NonceInv', UNCHANGED shared, NEW w \in Worker, NEW m \in Message,
           Proceed(w, m)
    PROVE  FlightInv'
<1>1. CASE flight' = [flight EXCEPT ![w] = [pc |-> "limit", msg |-> m, at |-> clock]]
    <2> DEFINE r == [pc |-> "limit", msg |-> m, at |-> clock]
    <2>1. r \in AtLimit /\ r.pc = "limit" /\ r.at = clock
        BY DEF AtLimit, FlightInv, SharedTypeOK
    <2>2. flight' = [flight EXCEPT ![w] = r]
        BY <1>1
    <2> HIDE DEF r
    <2> QED BY <2>1, <2>2, FlightStep
<1>2. CASE LetIn(w, m, clock, FALSE) \/ Refused(w)
    BY <1>2, LetInKeepsFlight, RefusedKeepsFlight
<1> QED BY <1>1, <1>2 DEF Proceed

\* A receipt is only given while there is a number for it.
LEMMA PassedIsMessage ==
    ASSUME FlightInv, NEW w \in Worker, flight[w].pc = "nonce", Record(flight[w].nonce)
    PROVE  /\ Passed(flight[w]) \in Checked
           /\ Passed(flight[w]).nonce = flight[w].nonce
           /\ Passed(flight[w]).signed = flight[w].signed
           /\ Passed(flight[w]).arrived = flight[w].at
           /\ Passed(flight[w]).receipt = issued + 1
<1>1. issued + 1 \in 1..MaxRecorded
    BY NonceNumbers DEF Record, FlightInv, NonceInv, NonceTypeOK
<1>2. flight[w].nonce \in Nonce /\ flight[w].signed \in BOOLEAN /\ flight[w].at \in 0..MaxClock
    BY UnderWay
<1> QED
    BY <1>1, <1>2 DEF Passed, Checked

LEMMA CheckTimestampKeepsFlight ==
    ASSUME FlightInv, NonceInv', NEW w \in Worker, NEW n \in Nonce, NEW signed \in BOOLEAN,
           CheckTimestamp(w, n, signed)
    PROVE  FlightInv'
<1> DEFINE r == [pc |-> "nonce", nonce |-> n, signed |-> signed, at |-> clock]
<1>1. r \in AtNonce /\ r.pc = "nonce" /\ r.at = clock /\ r.nonce = n /\ r.signed = signed
    BY DEF AtNonce, FlightInv, SharedTypeOK
<1>2. flight' = [flight EXCEPT ![w] = r] /\ UNCHANGED shared /\ (signed => Valid(n, clock))
    BY DEF CheckTimestamp, TimestampValid, Valid
<1> HIDE DEF r
<1> QED BY <1>1, <1>2, FlightStep

LEMMA CheckNonceKeepsFlight ==
    ASSUME FlightInv, NonceInv', NEW w \in Worker, CheckNonce(w)
    PROVE  FlightInv'
<1>1. flight[w].pc = "nonce" /\ UNCHANGED shared
    BY DEF CheckNonce
<1>2. CASE Refused(w)
    BY <1>1, <1>2, RefusedKeepsFlight
<1>3. CASE Record(flight[w].nonce) /\ Proceed(w, Passed(flight[w]))
    <2>1. Passed(flight[w]) \in Message
        BY <1>1, <1>3, PassedIsMessage DEF Message
    <2> QED BY <1>1, <1>3, <2>1, ProceedKeepsFlight
<1> QED BY <1>2, <1>3 DEF CheckNonce, Verified

\* Time passes only while it makes nobody too late.
LEMMA AdvanceKeepsFlight ==
    ASSUME FlightInv, NonceInv', Advance
    PROVE  FlightInv'
<1>1. /\ clock' = clock + 1 /\ clock' \in 0..MaxClock /\ clock \in Int
      /\ backend' = backend /\ flight' = flight /\ Late' = Late
    BY AdmissionNumbers DEF Advance, Tick, FlightInv, SharedTypeOK, Late
<1>2. SharedTypeOK' /\ FlightType' /\ TimestampsWereValid'
    BY <1>1 DEF FlightInv, SharedTypeOK, FlightType, TimestampsWereValid
<1>3. ASSUME NEW w \in Worker, flight[w].pc # "idle"
      PROVE  flight'[w].at <= clock' /\ clock' - flight'[w].at <= Late'
    <2>1. clock - flight[w].at < Late
        BY <1>3 DEF Advance
    <2> QED BY <1>1, <1>3, <2>1, UnderWay, AdmissionNumbers
<1>4. NobodyIsLate'
    BY <1>1, <1>3 DEF NobodyIsLate
<1> QED
    BY <1>2, <1>4 DEF FlightInv

LEMMA FlightInit == Init => FlightInv
<1> SUFFICES ASSUME Init PROVE FlightInv
    OBVIOUS
<1>1. SharedTypeOK
    BY LimitNumbers DEF Init, WiringInit, SharedTypeOK, Backends
<1>2. NonceInv
    BY NonceInitInv DEF Init, WiringInit, SharedInit, Backends
<1>3. FlightType /\ \A w \in Worker : flight[w].pc = "idle"
    BY DEF Init, FlightType, Idle
<1> QED
    BY <1>1, <1>2, <1>3 DEF FlightInv, NobodyIsLate, TimestampsWereValid

LEMMA FlightNext == FlightInv /\ [Next]_vars => FlightInv'
<1> SUFFICES ASSUME FlightInv, [Next]_vars PROVE FlightInv'
    OBVIOUS
<1>0. NonceInv'
    BY StepOfNonceStore, NonceStepInv DEF FlightInv
<1>1. ASSUME UNCHANGED <<shared, flight>> PROVE FlightInv'
    BY <1>0, <1>1
       DEF shared, FlightInv, SharedTypeOK, FlightType, NobodyIsLate, TimestampsWereValid, Late
<1>2. CASE Boot \/ Shutdown \/ ClearLimits
    BY <1>1, <1>2 DEF Boot, Shutdown, ClearLimits
<1>3. CASE Advance
    BY <1>0, <1>3, AdvanceKeepsFlight
<1>4. ASSUME NEW w \in Worker, ArriveUnguarded(w) PROVE FlightInv'
    BY <1>0, <1>4, ProceedKeepsFlight DEF ArriveUnguarded, Message
<1>5. ASSUME NEW w \in Worker, CheckNonce(w) PROVE FlightInv'
    BY <1>0, <1>5, CheckNonceKeepsFlight
<1>6. ASSUME NEW w \in Worker, AskLimiter(w) \/ CommandFails(w) PROVE FlightInv'
    <2>1. UNCHANGED shared
        BY <1>6 DEF AskLimiter, CommandFails
    <2>2. LetIn(w, flight[w].msg, flight[w].at, TRUE) \/ Refused(w)
        BY <1>6 DEF AskLimiter, CommandFails
    <2> QED BY <1>0, <2>1, <2>2, LetInKeepsFlight, RefusedKeepsFlight
<1>7. CASE UNCHANGED vars
    BY <1>1, <1>7 DEF vars
<1> QED
    BY <1>0, <1>2, <1>3, <1>4, <1>5, <1>6, <1>7, CheckTimestampKeepsFlight DEF Next

------------------------------------------------------------------------------
\* Every step is one of the limiter, and one of the nonce store

LEMMA StepOfLimiter == FlightInv /\ [Next]_vars => [LimitNext]_<<shared, limitVars>>
<1> SUFFICES ASSUME FlightInv, [Next]_vars PROVE [LimitNext]_<<shared, limitVars>>
    OBVIOUS
<1>1. ASSUME NEW w \in Worker, AskLimiter(w) \/ CommandFails(w)
      PROVE  [LimitNext]_<<shared, limitVars>>
    <2>1. UNCHANGED shared
        BY <1>1 DEF AskLimiter, CommandFails
    <2>2. CASE UNCHANGED limitVars
        BY <2>1, <2>2
    <2>3. CASE /\ flight[w].pc = "limit"
               /\ Allow(Account, flight[w].at) \/ Refuse(Account, flight[w].at)
        <3>1. flight[w].at \in Dates
            BY <2>3, UnderWay, AdmissionNumbers DEF Dates, Late, FlightInv, SharedTypeOK
        <3> QED BY <2>1, <2>3, <3>1, AdmissionNumbers DEF LimitNext
    <2> QED BY <1>1, <2>2, <2>3 DEF AskLimiter, CommandFails
<1>2. CASE ClearLimits
    BY <1>2 DEF ClearLimits, LimitNext
<1>3. CASE Advance
    BY <1>3 DEF Advance, LimitNext, limitVars
<1>4. CASE Boot \/ Shutdown
    BY <1>4 DEF Boot, Shutdown
<1>5. ASSUME NEW w \in Worker, NEW n \in Nonce, NEW signed \in BOOLEAN,
             CheckTimestamp(w, n, signed)
      PROVE  UNCHANGED <<shared, limitVars>>
    BY <1>5 DEF CheckTimestamp
<1>6. ASSUME NEW w \in Worker, CheckNonce(w) \/ ArriveUnguarded(w)
      PROVE  UNCHANGED <<shared, limitVars>>
    BY <1>6 DEF CheckNonce, ArriveUnguarded
<1>7. CASE UNCHANGED vars
    BY <1>7 DEF vars
<1> QED
    BY <1>1, <1>2, <1>3, <1>4, <1>5, <1>6, <1>7 DEF Next

LEMMA InitOfBoth == Init => SharedInit /\ LimitInit /\ NonceInit
BY DEF Init, WiringInit, SharedInit, Backends

\* A run of the composition is a run of the limiter and of the nonce store.
LEMMA RunOfBoth == Spec => LimitSpec /\ NonceSpec
<1>1. Spec => []FlightInv
    BY FlightInit, FlightNext, PTL DEF Spec
<1> QED
    BY <1>1, InitOfBoth, StepOfLimiter, StepOfNonceStore, PTL DEF Spec, LimitSpec, NonceSpec

\* The limits of both limiters, as login uses them (auth.service.ts:170-179).
THEOREM LimitsHoldForLogins == Spec => []LimitHolds
BY RunOfBoth, LimitsHold, PTL

\* Refused logins use up nothing of the window (auth.service.ts:170-179).
THEOREM RefusedLoginsAreFree == Spec => []RefusalsAreFree
BY RunOfBoth, RefusalsCountNothing, PTL

\* No nonce passes the guard twice within its ttl (signature.guard.ts:77-84).
THEOREM NoncesHoldForGuard == Spec => []NonceOncePerWindow
BY RunOfBoth, NoncesHold, PTL

------------------------------------------------------------------------------
\* Types of the composition

TypeInv ==
    /\ FlightInv /\ LimitInv /\ WiringTypeOK
    /\ logins \subseteq Login /\ IsFiniteSet(logins)

LEMMA LetInTypes ==
    ASSUME logins \subseteq Login, IsFiniteSet(logins), NEW w, NEW m \in Message,
           NEW now \in 0..MaxClock, NEW counts \in BOOLEAN, LetIn(w, m, now, counts)
    PROVE  logins' \subseteq Login /\ IsFiniteSet(logins')
<1> PICK size : size = Cardinality(logins)
    OBVIOUS
<1> PICK l : l = [no |-> size, msg |-> m, at |-> now, counts |-> counts]
    OBVIOUS
<1>1. size \in Nat
    BY FS_CardinalityType
<1>2. l \in Login
    BY <1>1 DEF Login
<1>3. logins' = logins \cup {l}
    BY DEF LetIn
<1>4. IsFiniteSet(logins \cup {l})
    BY FS_AddElement
<1> QED
    BY <1>2, <1>3, <1>4

\* A login after a clear of the keys K.
Uncounted(l, K) == [l EXCEPT !.counts = l.counts /\ Account \notin K]

LEMMA ClearedLogin ==
    ASSUME NEW l \in Login, NEW K
    PROVE  /\ Uncounted(l, K) \in Login
           /\ Uncounted(l, K).at = l.at /\ Uncounted(l, K).msg = l.msg /\ Uncounted(l, K).no = l.no
           /\ Uncounted(l, K).counts <=> l.counts /\ Account \notin K
BY DEF Login, Uncounted

LEMMA ClearTypes ==
    ASSUME logins \subseteq Login, IsFiniteSet(logins), NEW K,
           logins' = {[l EXCEPT !.counts = @ /\ Account \notin K] : l \in logins}
    PROVE  logins' \subseteq Login /\ IsFiniteSet(logins')
<1>1. logins' = {Uncounted(l, K) : l \in logins}
    BY DEF Uncounted
<1>2. logins' \subseteq Login
    BY <1>1, ClearedLogin
<1> DEFINE f == [l \in logins |-> Uncounted(l, K)]
<1>3. f \in Surjection(logins, logins')
    BY <1>1 DEF Surjection
<1> HIDE DEF f
<1> QED
    BY <1>2, <1>3, FS_Surjection

LEMMA ProceedTypes ==
    ASSUME TypeInv, NEW w, NEW m \in Message, Proceed(w, m)
    PROVE  logins' \subseteq Login /\ IsFiniteSet(logins')
<1>1. clock \in 0..MaxClock
    BY DEF TypeInv, FlightInv, SharedTypeOK
<1>2. CASE LetIn(w, m, clock, FALSE)
    BY <1>1, <1>2, LetInTypes DEF TypeInv
<1>3. CASE logins' = logins
    BY <1>3 DEF TypeInv
<1> QED
    BY <1>2, <1>3 DEF Proceed, Refused

LEMMA LoginsTyped ==
    ASSUME TypeInv, [Next]_vars
    PROVE  logins' \subseteq Login /\ IsFiniteSet(logins')
<1>1. ASSUME logins' = logins PROVE logins' \subseteq Login /\ IsFiniteSet(logins')
    BY <1>1 DEF TypeInv
<1>2. ASSUME NEW w \in Worker, ArriveUnguarded(w)
      PROVE  logins' \subseteq Login /\ IsFiniteSet(logins')
    BY <1>2, ProceedTypes DEF ArriveUnguarded, Message
<1>3. ASSUME NEW w \in Worker, CheckNonce(w)
      PROVE  logins' \subseteq Login /\ IsFiniteSet(logins')
    <2>1. CASE Refused(w)
        BY <1>1, <2>1 DEF Refused
    <2>2. CASE Record(flight[w].nonce) /\ Proceed(w, Passed(flight[w]))
        <3>1. Passed(flight[w]) \in Message
            BY <1>3, <2>2, PassedIsMessage DEF CheckNonce, Message, TypeInv
        <3> QED BY <2>2, <3>1, ProceedTypes
    <2> QED BY <1>3, <2>1, <2>2 DEF CheckNonce, Verified
<1>4. ASSUME NEW w \in Worker, AskLimiter(w)
      PROVE  logins' \subseteq Login /\ IsFiniteSet(logins')
    <2>1. flight[w].msg \in Message /\ flight[w].at \in 0..MaxClock
        BY <1>4, UnderWay DEF AskLimiter, TypeInv
    <2>2. CASE LetIn(w, flight[w].msg, flight[w].at, TRUE)
        BY <2>1, <2>2, LetInTypes DEF TypeInv
    <2> QED BY <1>1, <1>4, <2>2 DEF AskLimiter, Refused
<1>5. CASE ClearLimits
    <2>1. PICK K \in Sweeps :
              logins' = {[l EXCEPT !.counts = @ /\ Account \notin K] : l \in logins}
        BY <1>5 DEF ClearLimits
    <2> QED BY <2>1, ClearTypes DEF TypeInv
<1>6. ASSUME NEW w \in Worker, CommandFails(w) PROVE logins' = logins
    BY <1>6 DEF CommandFails, Refused
<1>7. ASSUME NEW w \in Worker, NEW n \in Nonce, NEW signed \in BOOLEAN,
             CheckTimestamp(w, n, signed)
      PROVE  logins' = logins
    BY <1>7 DEF CheckTimestamp
<1>8. CASE Boot \/ Shutdown \/ Advance \/ UNCHANGED vars
    BY <1>1, <1>8 DEF Boot, Shutdown, Advance, vars
<1> QED
    BY <1>1, <1>2, <1>3, <1>4, <1>5, <1>6, <1>7, <1>8 DEF Next

\* The application is wired at boot: no request rewires it.
LEMMA WiringStaysPut ==
    ASSUME [Next]_vars
    PROVE  Boot \/ Shutdown \/ UNCHANGED wiringVars
BY DEF Next, vars, ClearLimits, Advance, ArriveUnguarded, CheckTimestamp, CheckNonce,
   AskLimiter, CommandFails

LEMMA SettingsStay ==
    ASSUME [Next]_vars
    PROVE  settings' = settings /\ (Limited' <=> Limited) /\ (Guarded' <=> Guarded)
<1>1. settings' = settings
    BY WiringStaysPut DEF Boot, Start, FailToStart, Shutdown, Stop, wiringVars
<1> QED
    BY <1>1 DEF Limited, Guarded, Options

LEMMA WiringTyped ==
    ASSUME WiringTypeOK, [Next]_vars
    PROVE  WiringTypeOK'
<1>1. Opened \subseteq {"app", "store", "client"} /\ SigningSecret \in {"none", "default", "own"}
    BY DEF Opened, SigningSecret
<1>2. CASE Boot \/ Shutdown
    BY <1>1, <1>2 DEF Boot, Shutdown, Start, FailToStart, Stop, WiringTypeOK
<1>3. CASE UNCHANGED wiringVars
    BY <1>3 DEF wiringVars, WiringTypeOK
<1> QED
    BY <1>2, <1>3, WiringStaysPut

LEMMA TypeInit == Init => TypeInv
<1> SUFFICES ASSUME Init PROVE TypeInv
    OBVIOUS
<1>1. FlightInv /\ LimitInv
    BY FlightInit, InitOfBoth, LimitInitInv
<1>2. WiringTypeOK
    BY DEF Init, WiringInit, WiringTypeOK
<1> QED
    BY <1>1, <1>2, FS_EmptySet DEF Init, TypeInv

LEMMA TypeStep == TypeInv /\ [Next]_vars => TypeInv'
<1> SUFFICES ASSUME TypeInv, [Next]_vars PROVE TypeInv'
    OBVIOUS
<1>1. FlightInv' /\ LimitInv'
    BY FlightNext, StepOfLimiter, LimitStepInv DEF TypeInv
<1>2. WiringTypeOK' /\ logins' \subseteq Login /\ IsFiniteSet(logins')
    BY WiringTyped, LoginsTyped DEF TypeInv
<1> QED
    BY <1>1, <1>2 DEF TypeInv

\* Stores, limits, wiring and requests in flight keep their types together.
THEOREM TypeCorrect == Spec => []TypeOK
<1>1. TypeInv => TypeOK
    BY DEF TypeInv, TypeOK, FlightInv, FlightType, NonceInv, LimitInv
<1> QED
    BY <1>1, TypeInit, TypeStep, PTL DEF Spec

------------------------------------------------------------------------------
\* Messages and receipts

\* The message was let past the guard: it is signed, came within the window of
\* its timestamp, and has a receipt, given while its command was on its way.
LetPast(m) ==
    /\ m \in Checked /\ m.signed /\ Valid(m.nonce, m.arrived)
    /\ \E r \in recorded :
           /\ r.nonce = m.nonce /\ r.seq = m.receipt
           /\ m.arrived <= r.at /\ r.at - m.arrived <= Late

Known(m) == IF Guarded THEN LetPast(m) ELSE m = Unchecked

MessagesAreKnown ==
    /\ \A l \in logins : Known(l.msg)
    /\ \A w \in Worker : flight[w].pc = "limit" => Known(flight[w].msg)

\* One message has one receipt, be it at the limiter or in.
ReceiptsAreApart ==
    Guarded =>
        /\ \A l, k \in logins : l.msg.receipt = k.msg.receipt => l = k
        /\ \A w \in Worker : flight[w].pc = "limit" =>
               /\ \A l \in logins : l.msg.receipt # flight[w].msg.receipt
               /\ \A v \in Worker : flight[v].pc = "limit" =>
                      (flight[v].msg.receipt = flight[w].msg.receipt => v = w)

\* Only a guard that has a secret asks for a nonce.
NoncesAreGuarded == \A w \in Worker : flight[w].pc = "nonce" => Guarded

MessageInv == TypeInv /\ NoncesAreGuarded /\ MessagesAreKnown /\ ReceiptsAreApart

\* Receipts are kept, so what is known stays known.
LEMMA KnownStays ==
    ASSUME TypeInv, [Next]_vars, NEW m, Known(m)
    PROVE  Known(m)'
<1>1. [NonceNext]_<<shared, nonceVars>>
    BY StepOfNonceStore DEF TypeInv
<1>2. recorded \subseteq recorded'
    BY <1>1 DEF NonceNext, Record, Duplicate, nonceVars
<1>3. Late' = Late
    BY <1>1 DEF NonceNext, shared, Late
<1>4. Guarded' <=> Guarded
    BY SettingsStay
<1> QED
    BY <1>2, <1>3, <1>4 DEF Known, LetPast, Valid

\* The receipts of known messages were all given before the next one.
LEMMA NextReceiptIsNew ==
    ASSUME TypeInv, Guarded, NEW m, Known(m)
    PROVE  m.receipt # issued + 1
<1>1. PICK r \in recorded : r.seq = m.receipt
    BY DEF Known, LetPast
<1>2. r.seq \in Int /\ issued \in Int /\ r.seq <= issued
    BY NonceNumbers DEF TypeInv, FlightInv, NonceInv, ReceiptsArePast, NonceTypeOK, Receipt
<1> QED
    BY <1>1, <1>2

\* A signed message whose nonce is recorded is known from then on.
LEMMA PassedIsKnown ==
    ASSUME TypeInv, [Next]_vars, NEW w \in Worker, flight[w].pc = "nonce", flight[w].signed,
           Guarded, Record(flight[w].nonce), NEW m, m = Passed(flight[w])
    PROVE  Known(m)'
<1>1. /\ m \in Checked /\ m.nonce = flight[w].nonce /\ m.signed
      /\ m.arrived = flight[w].at /\ m.receipt = issued + 1
    BY PassedIsMessage DEF TypeInv
<1>2. Valid(m.nonce, m.arrived)
    BY <1>1 DEF TypeInv, FlightInv, TimestampsWereValid
<1>3. m.arrived <= clock /\ clock - m.arrived <= Late
    BY <1>1, UnderWay DEF TypeInv
<1> PICK r : r = [nonce |-> flight[w].nonce, seq |-> issued + 1, at |-> clock]
    OBVIOUS
<1>4. r \in recorded' /\ r.nonce = m.nonce /\ r.seq = m.receipt /\ r.at = clock
    BY <1>1 DEF Record
<1>5. Late' = Late /\ Guarded'
    <2>1. [NonceNext]_<<shared, nonceVars>>
        BY StepOfNonceStore DEF TypeInv
    <2> QED BY <2>1, SettingsStay DEF NonceNext, shared, Late
<1>6. \E e \in recorded' :
          /\ e.nonce = m.nonce /\ e.seq = m.receipt
          /\ m.arrived <= e.at /\ e.at - m.arrived <= Late'
    BY <1>3, <1>4, <1>5
<1> QED
    BY <1>1, <1>2, <1>5, <1>6 DEF Known, LetPast, Valid

\* The message is neither in nor at the limiter.
IsNew(m) ==
    /\ \A l \in logins : l.msg.receipt # m.receipt
    /\ \A w \in Worker : flight[w].pc = "limit" => flight[w].msg.receipt # m.receipt

\* Whoever leaves the flight takes the message along, and nothing else changes.
LEMMA LeavingKeepsMessages ==
    ASSUME MessageInv, [Next]_vars, NEW w \in Worker, NEW r,
           flight' = [flight EXCEPT ![w] = r], r.pc # "limit", logins' = logins
    PROVE  MessagesAreKnown' /\ ReceiptsAreApart'
<1>1. ASSUME NEW v \in Worker, flight'[v].pc = "limit"
      PROVE  flight[v].pc = "limit" /\ flight'[v] = flight[v]
    BY <1>1 DEF MessageInv, TypeInv, FlightInv, FlightType
<1>2. MessagesAreKnown'
    <2>1. \A l \in logins : Known(l.msg)'
        BY KnownStays DEF MessageInv, MessagesAreKnown
    <2>2. ASSUME NEW v \in Worker, flight'[v].pc = "limit" PROVE Known(flight[v].msg)'
        <3> PICK m : m = flight[v].msg
            OBVIOUS
        <3>1. Known(m)'
            BY <1>1, <2>2, KnownStays DEF MessageInv, MessagesAreKnown
        <3>2. m = flight'[v].msg
            BY <1>1, <2>2
        <3> QED BY <3>1, <3>2 DEF Known, LetPast, Valid
    <2> QED BY <2>1, <2>2 DEF MessagesAreKnown, Known, LetPast, Valid
<1>3. ReceiptsAreApart'
    BY <1>1, SettingsStay DEF MessageInv, ReceiptsAreApart
<1> QED BY <1>2, <1>3

\* A known message comes in; it was the worker's own, or new.
LEMMA LetInKeepsMessages ==
    ASSUME MessageInv, [Next]_vars, NEW w \in Worker, NEW m, NEW now, NEW counts,
           Known(m)', LetIn(w, m, now, counts),
           Guarded => /\ \A l \in logins : l.msg.receipt # m.receipt
                      /\ \A v \in Worker : flight[v].pc = "limit" /\ v # w =>
                             flight[v].msg.receipt # m.receipt
    PROVE  MessagesAreKnown' /\ ReceiptsAreApart'
<1> PICK l0 : l0 = [no |-> Cardinality(logins), msg |-> m, at |-> now, counts |-> counts]
    OBVIOUS
<1>1. logins' = logins \cup {l0} /\ l0.msg = m
    BY DEF LetIn
<1>2. ASSUME NEW v \in Worker, flight'[v].pc = "limit"
      PROVE  flight[v].pc = "limit" /\ flight'[v] = flight[v] /\ v # w
    BY <1>2 DEF LetIn, Idle, MessageInv, TypeInv, FlightInv, FlightType
<1>3. \A l \in logins : Known(l.msg)'
    BY KnownStays DEF MessageInv, MessagesAreKnown
<1>4. ASSUME NEW v \in Worker, flight'[v].pc = "limit" PROVE Known(flight[v].msg)'
    <2> PICK n : n = flight[v].msg
        OBVIOUS
    <2>1. Known(n)'
        BY <1>2, <1>4, KnownStays DEF MessageInv, MessagesAreKnown
    <2>2. n = flight'[v].msg
        BY <1>2, <1>4
    <2> QED BY <2>1, <2>2 DEF Known, LetPast, Valid
<1>5. ASSUME NEW l \in logins' PROVE Known(l.msg)'
    BY <1>1, <1>3, <1>5
<1>6. MessagesAreKnown'
    BY <1>4, <1>5 DEF MessagesAreKnown, Known, LetPast, Valid
<1>7. ASSUME Guarded PROVE ReceiptsAreApart'
    <2>1. \A l, k \in logins' : l.msg.receipt = k.msg.receipt => l = k
        BY <1>1, <1>7 DEF MessageInv, ReceiptsAreApart
    <2>2. ASSUME NEW v \in Worker, flight'[v].pc = "limit"
          PROVE  /\ \A l \in logins' : l.msg.receipt # flight'[v].msg.receipt
                 /\ \A u \in Worker : flight'[u].pc = "limit" =>
                        (flight'[u].msg.receipt = flight'[v].msg.receipt => u = v)
        BY <1>1, <1>2, <1>7, <2>2 DEF MessageInv, ReceiptsAreApart
    <2> QED BY <2>1, <2>2 DEF ReceiptsAreApart
<1>8. ASSUME ~Guarded PROVE ReceiptsAreApart'
    BY <1>8, SettingsStay DEF ReceiptsAreApart
<1> QED BY <1>6, <1>7, <1>8

\* A known message goes on to the limiter.
LEMMA WaitingKeepsMessages ==
    ASSUME MessageInv, [Next]_vars, NEW w \in Worker, NEW m, NEW now,
           Known(m)', Guarded => IsNew(m), logins' = logins,
           flight' = [flight EXCEPT ![w] = [pc |-> "limit", msg |-> m, at |-> now]]
    PROVE  MessagesAreKnown' /\ ReceiptsAreApart'
<1>1. flight'[w].msg = m
    BY DEF MessageInv, TypeInv, FlightInv, FlightType
<1>2. ASSUME NEW v \in Worker, v # w PROVE flight'[v] = flight[v]
    BY <1>2 DEF MessageInv, TypeInv, FlightInv, FlightType
<1>3. \A l \in logins' : Known(l.msg)'
    BY KnownStays DEF MessageInv, MessagesAreKnown
<1>4. ASSUME NEW v \in Worker, flight'[v].pc = "limit" PROVE Known(flight[v].msg)'
    <2> PICK n : n = flight'[v].msg
        OBVIOUS
    <2>1. CASE v = w
        BY <1>1, <2>1 DEF Known, LetPast, Valid
    <2>2. CASE v # w
        <3>1. flight[v].pc = "limit" /\ n = flight[v].msg
            BY <1>2, <1>4, <2>2
        <3>2. Known(n)'
            BY <3>1, KnownStays DEF MessageInv, MessagesAreKnown
        <3> QED BY <3>2 DEF Known, LetPast, Valid
    <2> QED BY <2>1, <2>2
<1>5. MessagesAreKnown'
    BY <1>3, <1>4 DEF MessagesAreKnown, Known, LetPast, Valid
<1>6. ASSUME Guarded PROVE ReceiptsAreApart'
    BY <1>1, <1>2, <1>6 DEF IsNew, MessageInv, ReceiptsAreApart
<1>7. ASSUME ~Guarded PROVE ReceiptsAreApart'
    BY <1>7, SettingsStay DEF ReceiptsAreApart
<1> QED BY <1>5, <1>6, <1>7

LEMMA RefusedKeepsMessages ==
    ASSUME MessageInv, [Next]_vars, NEW w \in Worker, Refused(w)
    PROVE  MessagesAreKnown' /\ ReceiptsAreApart'
<1> PICK r : r = Idle
    OBVIOUS
<1>1. flight' = [flight EXCEPT ![w] = r] /\ logins' = logins
    BY DEF Refused
<1>2. r.pc # "limit"
    BY DEF Idle
<1> QED BY <1>1, <1>2, LeavingKeepsMessages

LEMMA ProceedKeepsMessages ==
    ASSUME MessageInv, [Next]_vars, NEW w \in Worker, NEW m,
           Known(m)', Guarded => IsNew(m), Proceed(w, m)
    PROVE  MessagesAreKnown' /\ ReceiptsAreApart'
<1>1. CASE LetIn(w, m, clock, FALSE)
    BY <1>1, LetInKeepsMessages DEF IsNew
<1>2. CASE /\ flight' = [flight EXCEPT ![w] = [pc |-> "limit", msg |-> m, at |-> clock]]
           /\ logins' = logins
    BY <1>2, WaitingKeepsMessages
<1>3. CASE Refused(w)
    BY <1>3, RefusedKeepsMessages
<1> QED BY <1>1, <1>2, <1>3 DEF Proceed

\* verifySignature lets the message on that setIfAbsent gave a receipt.
LEMMA CheckNonceKeepsMessages ==
    ASSUME MessageInv, [Next]_vars, NEW w \in Worker, CheckNonce(w)
    PROVE  MessagesAreKnown' /\ ReceiptsAreApart'
<1>1. CASE Refused(w)
    BY <1>1, RefusedKeepsMessages
<1>2. CASE Record(flight[w].nonce) /\ flight[w].signed /\ Proceed(w, Passed(flight[w]))
    <2>1. flight[w].pc = "nonce" /\ Guarded
        BY DEF CheckNonce, MessageInv, NoncesAreGuarded
    <2> PICK m : m = Passed(flight[w])
        OBVIOUS
    <2>2. Known(m)'
        BY <1>2, <2>1, PassedIsKnown DEF MessageInv
    <2>3. m.receipt = issued + 1
        BY DEF Passed
    <2>4. IsNew(m)
        BY <2>1, <2>3, NextReceiptIsNew DEF IsNew, MessageInv, MessagesAreKnown
    <2> QED BY <1>2, <2>2, <2>4, ProceedKeepsMessages
<1> QED BY <1>1, <1>2 DEF CheckNonce, Verified

LEMMA AskLimiterKeepsMessages ==
    ASSUME MessageInv, [Next]_vars, NEW w \in Worker, AskLimiter(w)
    PROVE  MessagesAreKnown' /\ ReceiptsAreApart'
<1>1. CASE Refused(w)
    BY <1>1, RefusedKeepsMessages
<1>2. CASE LetIn(w, flight[w].msg, flight[w].at, TRUE)
    <2> PICK m, now : m = flight[w].msg /\ now = flight[w].at
        OBVIOUS
    <2>1. flight[w].pc = "limit"
        BY DEF AskLimiter
    <2>2. Known(m)'
        BY <2>1, KnownStays DEF MessageInv, MessagesAreKnown
    <2>3. Guarded => /\ \A l \in logins : l.msg.receipt # m.receipt
                     /\ \A v \in Worker : flight[v].pc = "limit" /\ v # w =>
                            flight[v].msg.receipt # m.receipt
        BY <2>1 DEF MessageInv, ReceiptsAreApart
    <2> QED BY <1>2, <2>2, <2>3, LetInKeepsMessages
<1> QED BY <1>1, <1>2 DEF AskLimiter

\* A clear leaves a login the message it came with.
LEMMA ClearKeepsMessages ==
    ASSUME MessageInv, [Next]_vars, ClearLimits
    PROVE  MessagesAreKnown' /\ ReceiptsAreApart'
<1>1. PICK K \in Sweeps :
          logins' = {[l EXCEPT !.counts = @ /\ Account \notin K] : l \in logins}
    BY DEF ClearLimits
<1>2. logins' = {Uncounted(l, K) : l \in logins}
    BY <1>1 DEF Uncounted
<1>3. \A l \in logins : Uncounted(l, K).msg = l.msg
    BY ClearedLogin DEF MessageInv, TypeInv
<1>4. flight' = flight
    BY DEF ClearLimits
<1>5. \A l \in logins : Known(l.msg)'
    BY KnownStays DEF MessageInv, MessagesAreKnown
<1>6. ASSUME NEW l \in logins' PROVE Known(l.msg)'
    <2>1. PICK k \in logins : l = Uncounted(k, K)
        BY <1>2, <1>6
    <2> QED BY <1>3, <1>5, <2>1
<1>7. ASSUME NEW v \in Worker, flight[v].pc = "limit" PROVE Known(flight[v].msg)'
    <2> PICK m : m = flight[v].msg
        OBVIOUS
    <2>1. Known(m)' /\ m = flight'[v].msg
        BY <1>4, <1>7, KnownStays DEF MessageInv, MessagesAreKnown
    <2> QED BY <2>1 DEF Known, LetPast, Valid
<1>8. MessagesAreKnown'
    BY <1>4, <1>6, <1>7 DEF MessagesAreKnown, Known, LetPast, Valid
<1>9. ReceiptsAreApart'
    BY <1>2, <1>3, <1>4, SettingsStay DEF MessageInv, ReceiptsAreApart
<1> QED BY <1>8, <1>9

LEMMA NoncesStayGuarded ==
    ASSUME MessageInv, [Next]_vars
    PROVE  NoncesAreGuarded'
<1>1. ASSUME flight' = flight PROVE NoncesAreGuarded'
    BY <1>1, SettingsStay DEF MessageInv, NoncesAreGuarded
<1>2. ASSUME NEW w \in Worker, NEW r, flight' = [flight EXCEPT ![w] = r],
             r.pc = "nonce" => Guarded
      PROVE  NoncesAreGuarded'
    BY <1>2, SettingsStay DEF MessageInv, NoncesAreGuarded, TypeInv, FlightInv, FlightType
<1>3. ASSUME NEW w \in Worker, flight' = [flight EXCEPT ![w] = Idle]
      PROVE  NoncesAreGuarded'
    <2> PICK r : r = Idle
        OBVIOUS
    <2>1. r.pc # "nonce"
        BY DEF Idle
    <2> QED BY <1>2, <1>3, <2>1
<1>4. ASSUME NEW w \in Worker, NEW m, Proceed(w, m) PROVE NoncesAreGuarded'
    <2>1. CASE flight' = [flight EXCEPT ![w] = [pc |-> "limit", msg |-> m, at |-> clock]]
        <3> PICK r : r = [pc |-> "limit", msg |-> m, at |-> clock]
            OBVIOUS
        <3>1. r.pc # "nonce" /\ flight' = [flight EXCEPT ![w] = r]
            BY <2>1
        <3> QED BY <1>2, <3>1
    <2> QED BY <1>3, <1>4, <2>1 DEF Proceed, LetIn, Refused
<1>5. ASSUME NEW w \in Worker, NEW n \in Nonce, NEW signed \in BOOLEAN,
             CheckTimestamp(w, n, signed)
      PROVE  NoncesAreGuarded'
    <2> PICK r : r = [pc |-> "nonce", nonce |-> n, signed |-> signed, at |-> clock]
        OBVIOUS
    <2>1. flight' = [flight EXCEPT ![w] = r] /\ Guarded
        BY <1>5 DEF CheckTimestamp
    <2> QED BY <1>2, <2>1
<1>6. ASSUME NEW w \in Worker, CheckNonce(w) PROVE NoncesAreGuarded'
    <2>1. CASE Proceed(w, Passed(flight[w]))
        <3> PICK m : m = Passed(flight[w])
            OBVIOUS
        <3> QED BY <1>4, <2>1
    <2> QED BY <1>3, <1>6, <2>1 DEF CheckNonce, Verified, Refused
<1>7. ASSUME NEW w \in Worker, ArriveUnguarded(w) PROVE NoncesAreGuarded'
    BY <1>4, <1>7 DEF ArriveUnguarded
<1>8. ASSUME NEW w \in Worker, AskLimiter(w) \/ CommandFails(w) PROVE NoncesAreGuarded'
    BY <1>3, <1>8 DEF AskLimiter, CommandFails, LetIn, Refused
<1>9. CASE Boot \/ Shutdown \/ ClearLimits \/ Advance \/ UNCHANGED vars
    BY <1>1, <1>9 DEF Boot, Shutdown, ClearLimits, Advance, vars
<1> QED
    BY <1>5, <1>6, <1>7, <1>8, <1>9 DEF Next

LEMMA MessageStep == MessageInv /\ [Next]_vars => MessageInv'
<1> SUFFICES ASSUME MessageInv, [Next]_vars PROVE MessageInv'
    OBVIOUS
<1>0. TypeInv' /\ NoncesAreGuarded'
    BY TypeStep, NoncesStayGuarded DEF MessageInv
<1>1. ASSUME UNCHANGED <<flight, logins>> PROVE MessagesAreKnown' /\ ReceiptsAreApart'
    <2>1. \A l \in logins' : Known(l.msg)'
        BY <1>1, KnownStays DEF MessageInv, MessagesAreKnown
    <2>2. ASSUME NEW v \in Worker, flight[v].pc = "limit" PROVE Known(flight[v].msg)'
        <3> PICK m : m = flight[v].msg
            OBVIOUS
        <3>1. Known(m)' /\ m = flight'[v].msg
            BY <1>1, <2>2, KnownStays DEF MessageInv, MessagesAreKnown
        <3> QED BY <3>1 DEF Known, LetPast, Valid
    <2>3. MessagesAreKnown'
        BY <1>1, <2>1, <2>2 DEF MessagesAreKnown, Known, LetPast, Valid
    <2> QED BY <1>1, <2>3, SettingsStay DEF MessageInv, ReceiptsAreApart
<1>2. ASSUME Boot \/ Shutdown \/ Advance \/ UNCHANGED vars
      PROVE  MessagesAreKnown' /\ ReceiptsAreApart'
    BY <1>1, <1>2 DEF Boot, Shutdown, Advance, vars
<1>3. ASSUME NEW w \in Worker, ArriveUnguarded(w)
      PROVE  MessagesAreKnown' /\ ReceiptsAreApart'
    <2>1. ~Guarded /\ ~Guarded' /\ Proceed(w, Unchecked)
        BY <1>3, SettingsStay DEF ArriveUnguarded
    <2>2. Known(Unchecked)'
        BY <2>1 DEF Known
    <2> QED BY <2>1, <2>2, ProceedKeepsMessages
<1>4. ASSUME NEW w \in Worker, NEW n \in Nonce, NEW signed \in BOOLEAN,
             CheckTimestamp(w, n, signed)
      PROVE  MessagesAreKnown' /\ ReceiptsAreApart'
    <2> DEFINE r == [pc |-> "nonce", nonce |-> n, signed |-> signed, at |-> clock]
    <2>1. flight' = [flight EXCEPT ![w] = r] /\ logins' = logins /\ r.pc # "limit"
        BY <1>4 DEF CheckTimestamp
    <2> HIDE DEF r
    <2> PICK q : q = r
        OBVIOUS
    <2>2. flight' = [flight EXCEPT ![w] = q] /\ q.pc # "limit"
        BY <2>1
    <2> QED BY <2>1, <2>2, LeavingKeepsMessages
<1>5. ASSUME NEW w \in Worker, CommandFails(w)
      PROVE  MessagesAreKnown' /\ ReceiptsAreApart'
    BY <1>5, RefusedKeepsMessages DEF CommandFails
<1>6. MessagesAreKnown' /\ ReceiptsAreApart'
    BY <1>2, <1>3, <1>4, <1>5, CheckNonceKeepsMessages, AskLimiterKeepsMessages,
       ClearKeepsMessages DEF Next
<1> QED BY <1>0, <1>6 DEF MessageInv

LEMMA MessageInit == Init => MessageInv
BY TypeInit DEF Init, MessageInv, NoncesAreGuarded, MessagesAreKnown, ReceiptsAreApart, Idle

\* What a known message says of the login that carries it.
LEMMA LoginsWereRecorded == MessageInv => GuardedLoginsWereRecorded
<1> SUFFICES ASSUME MessageInv, Guarded PROVE GuardedLoginsWereRecorded
    BY DEF GuardedLoginsWereRecorded
<1>1. ASSUME NEW l \in logins
      PROVE  /\ l.msg.signed
             /\ l.msg.arrived \in (Date[l.msg.nonce] - Tolerance)..(Date[l.msg.nonce] + Tolerance)
             /\ \E r \in recorded :
                    /\ r.nonce = l.msg.nonce /\ r.seq = l.msg.receipt
                    /\ l.msg.arrived <= r.at
    <2> PICK m : m = l.msg
        OBVIOUS
    <2>1. LetPast(m)
        BY DEF MessageInv, MessagesAreKnown, Known
    <2>2. m.arrived \in Int /\ Date[m.nonce] \in Int /\ Tolerance \in Int
        BY <2>1, AdmissionNumbers DEF LetPast, Checked
    <2>3. m.arrived \in (Date[m.nonce] - Tolerance)..(Date[m.nonce] + Tolerance)
        BY <2>1, <2>2 DEF LetPast, Valid
    <2> QED BY <2>1, <2>3 DEF LetPast
<1> QED BY <1>1 DEF GuardedLoginsWereRecorded, MessageInv, ReceiptsAreApart

\* Only signed messages of their window reach login, each on a receipt of its own,
\* whatever the network delivers and whichever command fails
\* (signature.guard.ts:53-115).
THEOREM GuardedLoginsAreRecorded == Spec => []GuardedLoginsWereRecorded
BY MessageInit, MessageStep, LoginsWereRecorded, PTL DEF Spec

LEMMA ReplaysAreEarly == MessageInv => ReplayNeedsEarlyArrival
<1> SUFFICES ASSUME MessageInv, NEW e \in recorded, NEW l \in logins,
                    e.seq < l.msg.receipt, e.nonce = l.msg.nonce,
                    ~(backend = "memory" /\ l.msg.receipt > e.seq + MaxSize)
             PROVE  \/ backend = "memory" /\ e.at <= Date[e.nonce]
                    \/ backend = "redis" /\ e.at < Date[e.nonce] + Delay
    BY DEF ReplayNeedsEarlyArrival
<1> PICK m : m = l.msg
    OBVIOUS
<1>1. Guarded
    <2>1. e \in Receipt /\ Unchecked.receipt = 0
        BY DEF MessageInv, TypeInv, FlightInv, NonceInv, NonceTypeOK, Unchecked
    <2>2. e.seq \in 1..MaxRecorded
        BY <2>1 DEF Receipt
    <2> QED BY <2>1, <2>2, NonceNumbers DEF MessageInv, MessagesAreKnown, Known
<1>2. LetPast(m)
    BY <1>1 DEF MessageInv, MessagesAreKnown, Known
<1>3. PICK f \in recorded : /\ f.nonce = m.nonce /\ f.seq = m.receipt
                            /\ m.arrived <= f.at /\ f.at - m.arrived <= Late
    BY <1>2 DEF LetPast
<1>4. OverAt(e, f.at)
    BY <1>3 DEF MessageInv, TypeInv, FlightInv, NonceInv, RepeatsComeLate
<1>5. /\ e.at \in Int /\ f.at \in Int /\ m.arrived \in Int /\ Date[e.nonce] \in Int
      /\ backend \in {"memory", "redis"}
    BY <1>2, AdmissionNumbers
       DEF LetPast, Checked, MessageInv, TypeInv, FlightInv, NonceInv, NonceTypeOK, Receipt,
           SharedTypeOK, Backends
<1>6. f.at - Date[e.nonce] <= Tolerance + Late
    BY <1>2, <1>3, <1>5, AdmissionNumbers DEF LetPast, Valid
<1>7. CASE backend = "memory"
    BY <1>4, <1>5, <1>6, <1>7, AdmissionNumbers DEF OverAt, Late
<1>8. CASE backend = "redis"
    BY <1>4, <1>5, <1>6, <1>8, AdmissionNumbers DEF OverAt, Late
<1> QED BY <1>5, <1>7, <1>8

\* Whatever the network delivers how often: a nonce that is recorded brings another
\* message to login only if it came before its own timestamp, or the memory store
\* had to evict it.
THEOREM ReplaysNeedEarlyArrival == Spec => []ReplayNeedsEarlyArrival
BY MessageInit, MessageStep, ReplaysAreEarly, PTL DEF Spec

------------------------------------------------------------------------------
\* Logins and grants

GrantsAreNumbered == \A g \in granted : g.seq <= served

\* In memory every login that counts was let in by a grant of its own, dated like it.
LoginsAreGranted ==
    backend = "memory" =>
        \A t \in 0..MaxClock :
            /\ IsFiniteSet(LoginsIn(t, Window))
            /\ Cardinality(LoginsIn(t, Window)) <= Cardinality(GrantsIn(Account, t, Window))

\* In both backends its date is that of a grant.
LoginsAreDated ==
    \A l \in logins : l.counts => \E g \in granted : g.key = Account /\ g.ts = l.at

WiredInv == TypeInv /\ GrantsAreNumbered /\ LoginsAreGranted /\ LoginsAreDated

LEMMA WiredLimit == WiredInv => WiredLimitHolds
<1> SUFFICES ASSUME WiredInv, NEW t \in 0..MaxClock
             PROVE  IF backend = "memory" THEN Cardinality(LoginsIn(t, Window)) <= MaxRequests
                    ELSE Cardinality({l.at : l \in LoginsIn(t, Window - Delay)}) <= MaxRequests
    BY DEF WiredLimitHolds
<1>1. CASE backend = "memory"
    <2>1. /\ IsFiniteSet(LoginsIn(t, Window))
          /\ Cardinality(LoginsIn(t, Window)) <= Cardinality(GrantsIn(Account, t, Window))
        BY <1>1 DEF WiredInv, LoginsAreGranted
    <2>2. /\ IsFiniteSet(GrantsIn(Account, t, Window))
          /\ Cardinality(GrantsIn(Account, t, Window)) <= MaxRequests
        BY <1>1, AdmissionNumbers
           DEF WiredInv, TypeInv, LimitInv, WindowsAreFinite, MemoryLimitHolds
    <2>3. /\ Cardinality(LoginsIn(t, Window)) \in Nat
          /\ Cardinality(GrantsIn(Account, t, Window)) \in Nat
        BY <2>1, <2>2, FS_CardinalityType
    <2> QED
        BY <1>1, <2>1, <2>2, <2>3, LimitNumbers
<1>2. CASE backend # "memory"
    <2> DEFINE D == {l.at : l \in LoginsIn(t, Window - Delay)}
               T == DatesIn(Account, t)
    <2>1. backend = "redis"
        BY <1>2 DEF WiredInv, TypeInv, FlightInv, SharedTypeOK, Backends
    <2>2. IsFiniteSet(T) /\ Cardinality(T) <= MaxRequests
        BY <2>1, AdmissionNumbers
           DEF WiredInv, TypeInv, LimitInv, WindowsAreFinite, RedisLimitHolds, DatesIn
    <2>3. D \subseteq T
        BY DEF LoginsIn, WiredInv, LoginsAreDated, DatesIn, GrantsIn
    <2> HIDE DEF D, T
    <2>4. Cardinality(D) <= Cardinality(T) /\ Cardinality(D) \in Nat /\ Cardinality(T) \in Nat
        BY <2>2, <2>3, FS_Subset, FS_CardinalityType
    <2>5. Cardinality(D) <= MaxRequests
        BY <2>2, <2>4, LimitNumbers
    <2> QED
        BY <1>2, <2>5 DEF D
<1> QED
    BY <1>1, <1>2

\* A set that gains x, against one that gains y: at most one element each.
LEMMA BothGain ==
    ASSUME NEW S, NEW T, NEW x, NEW y, IsFiniteSet(S), IsFiniteSet(T),
           Cardinality(S) <= Cardinality(T), y \notin T
    PROVE  /\ IsFiniteSet(S \cup {x})
           /\ Cardinality(S \cup {x}) <= Cardinality(T \cup {y})
<1>1. Cardinality(S) \in Nat /\ Cardinality(T) \in Nat
    BY FS_CardinalityType
<1>2. /\ IsFiniteSet(S \cup {x})
      /\ Cardinality(S \cup {x}) = IF x \in S THEN Cardinality(S) ELSE Cardinality(S) + 1
    BY FS_AddElement
<1>3. Cardinality(T \cup {y}) = Cardinality(T) + 1
    BY FS_AddElement
<1> QED
    BY <1>1, <1>2, <1>3

\* login goes on with the date it gave the limiter.
LEMMA GrantedLoginKeepsCount ==
    ASSUME WiredInv, NEW w \in Worker, AskLimiter(w), backend = "memory",
           Allow(Account, flight[w].at), LetIn(w, flight[w].msg, flight[w].at, TRUE),
           NEW t \in 0..MaxClock
    PROVE  LET L == {l \in logins' : l.counts /\ t - Window < l.at /\ l.at <= t}
               G == {g \in granted' : g.key = Account /\ t - Window < g.ts /\ g.ts <= t}
           IN  IsFiniteSet(L) /\ Cardinality(L) <= Cardinality(G)
<1> DEFINE now == flight[w].at
           l0 == [no |-> Cardinality(logins), msg |-> flight[w].msg, at |-> now, counts |-> TRUE]
           g0 == [key |-> Account, ts |-> now, seq |-> served + 1]
           L == {l \in logins' : l.counts /\ t - Window < l.at /\ l.at <= t}
           G == {g \in granted' : g.key = Account /\ t - Window < g.ts /\ g.ts <= t}
           S == LoginsIn(t, Window)
           T == GrantsIn(Account, t, Window)
<1>1. logins' = logins \cup {l0} /\ granted' = granted \cup {g0}
    BY DEF LetIn, Allow
<1>2. IsFiniteSet(S) /\ Cardinality(S) <= Cardinality(T) /\ IsFiniteSet(T)
    BY AdmissionNumbers DEF WiredInv, TypeInv, LoginsAreGranted, LimitInv, WindowsAreFinite
<1>3. g0 \notin T
    <2>1. \A g \in T : g.seq <= served /\ served \in Nat
        BY LimitNumbers DEF GrantsIn, WiredInv, TypeInv, GrantsAreNumbered, LimitInv, LimitTypeOK
    <2>2. g0.seq = served + 1
        OBVIOUS
    <2> HIDE DEF g0, T
    <2> QED BY <2>1, <2>2
<1>4. CASE t - Window < now /\ now <= t
    <2>1. L = S \cup {l0} /\ G = T \cup {g0}
        BY <1>1, <1>4 DEF LoginsIn, GrantsIn
    <2> HIDE DEF L, G, S, T, l0, g0
    <2>2. IsFiniteSet(L) /\ Cardinality(L) <= Cardinality(G)
        BY <1>2, <1>3, <2>1, BothGain
    <2> QED BY <2>2 DEF L, G
<1>5. CASE ~(t - Window < now /\ now <= t)
    <2>1. L = S /\ G = T
        BY <1>1, <1>5 DEF LoginsIn, GrantsIn
    <2> QED BY <1>2, <2>1
<1> QED BY <1>4, <1>5

\* A login the limit does not count changes no window.
LEMMA UncountedLoginKeepsCount ==
    ASSUME WiredInv, UNCHANGED <<backend, granted>>, NEW w, NEW m, NEW now,
           LetIn(w, m, now, FALSE)
    PROVE  LoginsAreGranted' /\ LoginsAreDated'
<1> PICK l0 : l0 = [no |-> Cardinality(logins), msg |-> m, at |-> now, counts |-> FALSE]
    OBVIOUS
<1>1. logins' = logins \cup {l0} /\ ~l0.counts
    BY DEF LetIn
<1>2. \A t \in 0..MaxClock : LoginsIn(t, Window)' = LoginsIn(t, Window)
    BY <1>1 DEF LoginsIn
<1>3. \A t \in 0..MaxClock : GrantsIn(Account, t, Window)' = GrantsIn(Account, t, Window)
    BY DEF GrantsIn
<1>4. LoginsAreGranted'
    BY <1>2, <1>3 DEF WiredInv, LoginsAreGranted
<1>5. LoginsAreDated'
    BY <1>1 DEF WiredInv, LoginsAreDated
<1> QED BY <1>4, <1>5

\* Grants are numbered in the order of their counter.
LEMMA GrantsStayNumbered ==
    ASSUME WiredInv, [LimitNext]_<<shared, limitVars>>
    PROVE  GrantsAreNumbered'
<1>1. served \in Nat /\ \A g \in granted : g.seq \in Int /\ g.seq <= served
    BY LimitNumbers DEF WiredInv, TypeInv, GrantsAreNumbered, LimitInv, LimitTypeOK, Grant
<1>2. ASSUME NEW k \in Key, NEW now \in Dates, Allow(k, now) \/ Refuse(k, now)
      PROVE  GrantsAreNumbered'
    <2>1. CASE Allow(k, now)
        BY <1>1, <2>1 DEF Allow, GrantsAreNumbered
    <2>2. CASE Refuse(k, now)
        BY <1>1, <2>2 DEF Refuse, GrantsAreNumbered
    <2> QED BY <1>2, <2>1, <2>2
<1>3. ASSUME NEW K, Clear(K) PROVE GrantsAreNumbered'
    BY <1>1, <1>3 DEF Clear, GrantsAreNumbered
<1>4. CASE UNCHANGED <<served, granted>>
    BY <1>4 DEF WiredInv, GrantsAreNumbered
<1> QED
    BY <1>2, <1>3, <1>4 DEF LimitNext, limitVars

\* A clear takes the grants of the keys it deletes, and discounts their logins.
LEMMA ClearKeepsCount ==
    ASSUME WiredInv, ClearLimits
    PROVE  LoginsAreGranted' /\ LoginsAreDated'
<1>1. PICK K \in Sweeps :
          /\ Clear(K)
          /\ logins' = {[l EXCEPT !.counts = @ /\ Account \notin K] : l \in logins}
    BY DEF ClearLimits
<1>2. logins' = {Uncounted(l, K) : l \in logins}
    BY <1>1 DEF Uncounted
<1>3. backend' = backend
    BY DEF ClearLimits, shared
<1>4. granted' = {g \in granted : g.key \notin K}
    BY <1>1 DEF Clear
<1>5. LoginsAreDated'
    <2> SUFFICES ASSUME NEW l \in logins', l.counts
                 PROVE  \E g \in granted' : g.key = Account /\ g.ts = l.at
        BY DEF LoginsAreDated
    <2>1. PICK k \in logins : l = Uncounted(k, K)
        BY <1>2
    <2>2. k.counts /\ Account \notin K /\ l.at = k.at
        BY <2>1, ClearedLogin DEF WiredInv, TypeInv
    <2>3. PICK g \in granted : g.key = Account /\ g.ts = k.at
        BY <2>2 DEF WiredInv, LoginsAreDated
    <2> QED BY <1>4, <2>2, <2>3
<1>6. ASSUME backend = "memory", NEW t \in 0..MaxClock
      PROVE  LoginsIn(t, Window)' = {} /\ GrantsIn(Account, t, Window)' = {}
    <2>1. Account \in K
        BY <1>6, AdmissionNumbers DEF Sweeps
    <2>2. \A l \in logins' : ~l.counts
        BY <1>2, <2>1, ClearedLogin DEF WiredInv, TypeInv
    <2> QED BY <1>4, <2>1, <2>2 DEF LoginsIn, GrantsIn
<1>7. LoginsAreGranted'
    BY <1>3, <1>6, FS_EmptySet DEF LoginsAreGranted
<1> QED BY <1>5, <1>7

LEMMA WiredStep == WiredInv /\ [Next]_vars => WiredInv'
<1> SUFFICES ASSUME WiredInv, [Next]_vars PROVE WiredInv'
    OBVIOUS
<1>1. TypeInv' /\ [LimitNext]_<<shared, limitVars>>
    BY TypeStep, StepOfLimiter DEF WiredInv, TypeInv
<1>2. GrantsAreNumbered'
    BY <1>1, GrantsStayNumbered
<1>3. backend' = backend
    BY <1>1 DEF LimitNext, shared
<1>4. ASSUME logins' = logins, granted \subseteq granted',
             granted' = granted \/ backend = "redis"
      PROVE  LoginsAreGranted' /\ LoginsAreDated'
    BY <1>3, <1>4 DEF WiredInv, LoginsAreGranted, LoginsAreDated, LoginsIn, GrantsIn
<1>5. ASSUME NEW w, NEW m, Proceed(w, m), UNCHANGED limitVars
      PROVE  LoginsAreGranted' /\ LoginsAreDated'
    BY <1>3, <1>4, <1>5, UncountedLoginKeepsCount DEF Proceed, Refused, limitVars
<1>6. ASSUME NEW w \in Worker, ArriveUnguarded(w)
      PROVE  LoginsAreGranted' /\ LoginsAreDated'
    BY <1>5, <1>6 DEF ArriveUnguarded
<1>7. ASSUME NEW w \in Worker, CheckNonce(w)
      PROVE  LoginsAreGranted' /\ LoginsAreDated'
    <2> PICK m : m = Passed(flight[w])
        OBVIOUS
    <2>1. UNCHANGED limitVars
        BY <1>7 DEF CheckNonce
    <2>2. Proceed(w, m) \/ Refused(w)
        BY <1>7 DEF CheckNonce, Verified
    <2> QED BY <1>4, <1>5, <2>1, <2>2 DEF Refused, limitVars
<1>8. ASSUME NEW w \in Worker, AskLimiter(w)
      PROVE  LoginsAreGranted' /\ LoginsAreDated'
    <2>1. CASE Refuse(Account, flight[w].at) /\ Refused(w)
        BY <1>4, <2>1 DEF Refuse, Refused
    <2>2. CASE Allow(Account, flight[w].at) /\ LetIn(w, flight[w].msg, flight[w].at, TRUE)
        <3>1. LoginsAreGranted'
            BY <1>3, <1>8, <2>2, GrantedLoginKeepsCount DEF LoginsAreGranted, LoginsIn, GrantsIn
        <3>2. LoginsAreDated'
            <4> DEFINE l0 == [no |-> Cardinality(logins), msg |-> flight[w].msg,
                              at |-> flight[w].at, counts |-> TRUE]
                       g0 == [key |-> Account, ts |-> flight[w].at, seq |-> served + 1]
            <4>1. logins' = logins \cup {l0} /\ granted' = granted \cup {g0}
                BY <2>2 DEF Allow, LetIn
            <4>2. g0.key = Account /\ g0.ts = l0.at
                OBVIOUS
            <4> HIDE DEF l0, g0
            <4> QED BY <4>1, <4>2 DEF WiredInv, LoginsAreDated
        <3> QED BY <3>1, <3>2
    <2> QED BY <1>8, <2>1, <2>2 DEF AskLimiter
<1>9. ASSUME NEW w \in Worker, CommandFails(w)
      PROVE  LoginsAreGranted' /\ LoginsAreDated'
    <2>1. backend = "redis" /\ logins' = logins
        BY <1>9 DEF CommandFails, Refused
    <2>2. granted \subseteq granted'
        BY <1>9 DEF CommandFails, Allow, limitVars
    <2> QED BY <1>4, <2>1, <2>2
<1>10. ASSUME NEW w \in Worker, NEW n \in Nonce, NEW signed \in BOOLEAN,
              CheckTimestamp(w, n, signed)
       PROVE  LoginsAreGranted' /\ LoginsAreDated'
    BY <1>4, <1>10 DEF CheckTimestamp, limitVars
<1>11. ASSUME Boot \/ Shutdown \/ Advance \/ UNCHANGED vars
       PROVE  LoginsAreGranted' /\ LoginsAreDated'
    BY <1>4, <1>11 DEF Boot, Shutdown, Advance, vars, limitVars
<1>12. LoginsAreGranted' /\ LoginsAreDated'
    BY <1>6, <1>7, <1>8, <1>9, <1>10, <1>11, ClearKeepsCount DEF Next
<1> QED
    BY <1>1, <1>2, <1>12 DEF WiredInv

LEMMA WiredInit == Init => WiredInv
<1> SUFFICES ASSUME Init PROVE WiredInv
    OBVIOUS
<1>1. \A t \in 0..MaxClock : LoginsIn(t, Window) = {} /\ GrantsIn(Account, t, Window) = {}
    BY DEF Init, LimitInit, LoginsIn, GrantsIn
<1>2. GrantsAreNumbered /\ LoginsAreDated
    BY DEF Init, LimitInit, GrantsAreNumbered, LoginsAreDated
<1> QED
    BY <1>1, <1>2, TypeInit, FS_EmptySet DEF WiredInv, LoginsAreGranted

\* An application that switches the limit on in both places gets it for the calls
\* of login that name an ip, however many requests arrive in whatever order.
THEOREM WiredLimitsHold == Spec => []WiredLimitHolds
BY WiredInit, WiredStep, WiredLimit, PTL DEF Spec

=============================================================================
