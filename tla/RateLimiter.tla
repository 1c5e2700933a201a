---------------------------- MODULE RateLimiter ----------------------------
(***************************************************************************)
(* MemoryRateLimiter and RedisRateLimiter: a sliding window per key of     *)
(* action, user and ip.  allow reads Date.now; in memory the count follows *)
(* in the same step, in Redis the Lua script runs when the command reaches *)
(* the server, up to Delay ticks later, on the date read before.           *)
(***************************************************************************)
EXTENDS Deployment, FiniteSets

CONSTANTS
    Key,          \* action:userId:ip
    Window,       \* windowSeconds, in ticks
    MaxRequests,
    Delay,        \* longest way of a command to Redis, in ticks
    MaxGrants     \* BOUND: requests granted in a run

ASSUME LimitAssumption ==
    /\ Window \in Nat \ {0}
    /\ MaxRequests \in Nat \ {0}
    /\ Delay \in Nat
    /\ MaxGrants \in Nat

VARIABLES
    stamps,     \* per key: the array of dates, or the sorted set
    expireAt,   \* per key: when Redis drops the sorted set
    served,     \* how many requests were granted
    granted     \* history: every request granted

limitVars == <<stamps, expireAt, served, granted>>

Stamp == [ts : 0..MaxClock, seq : 1..MaxGrants]
Grant == [key : Key, ts : 0..MaxClock, seq : 1..MaxGrants]

LimitTypeOK ==
    /\ stamps \in [Key -> SUBSET Stamp]
    /\ expireAt \in [Key -> 0..(MaxClock + Window)]
    /\ served \in 0..MaxGrants
    /\ granted \subseteq Grant

LimitInit ==
    /\ stamps = [k \in Key |-> {}]
    /\ expireAt = [k \in Key |-> 0]
    /\ served = 0
    /\ granted = {}

------------------------------------------------------------------------------

\* The dates a call of allow may have read before it touches the store.
Dates == {now \in 0..clock : IF backend = "redis" THEN now >= clock - Delay ELSE now = clock}

\* MUTANT of KeyDate: the seconds are given to pexpire, so the ttl is over at once.
KeyDateAtOnce == clock

\* MUTANT of KeyDate: the ttl is taken for milliseconds.
KeyDateLong == clock + 1000 * Window

\* expire key windowSeconds
KeyDate == clock + Window

\* What the store holds: Redis drops a key after its date.
Stored(k) == IF backend = "redis" /\ clock > expireAt[k] THEN {} ELSE stamps[k]

\* filter(ts => ts > windowStart), zremrangebyscore -inf windowStart
Recent(k, now) == {e \in Stored(k) : e.ts > now - Window}

\* MUTANT of Full: one request too many.
FullLate(k, now) == Cardinality(Recent(k, now)) > MaxRequests

Full(k, now) == Cardinality(Recent(k, now)) >= MaxRequests

\* push(now); zadd key now now, whose member is the date: one per date.
Counted(k, now) ==
    {e \in Recent(k, now) : backend = "redis" => e.ts # now} \cup {[ts |-> now, seq |-> served + 1]}

\* Both branches of the script renew the ttl; the Map has none.
RenewKey(k) ==
    expireAt' = IF backend = "redis" THEN [expireAt EXCEPT ![k] = KeyDate] ELSE expireAt

\* allow answers true.
Allow(k, now) ==
    /\ ~Full(k, now)
    /\ served < MaxGrants
    /\ stamps' = [stamps EXCEPT ![k] = Counted(k, now)]
    /\ served' = served + 1
    /\ granted' = granted \cup {[key |-> k, ts |-> now, seq |-> served + 1]}
    /\ RenewKey(k)

\* MUTANT of Left: a refused request is recorded like a granted one.
LeftCounted(k, now) == Counted(k, now)

\* What a refusal leaves in the store.
Left(k, now) == Recent(k, now)

\* allow answers false.
Refuse(k, now) ==
    /\ Full(k, now)
    /\ stamps' = [stamps EXCEPT ![k] = Left(k, now)]
    /\ RenewKey(k)
    /\ UNCHANGED <<served, granted>>

\* The keys one step of clear() deletes: the Map at once, in Redis one key of the
\* scan after the other.
Sweeps == IF backend = "memory" THEN {Key} ELSE {{k} : k \in Key}

\* What was granted before counts no more.
Clear(K) ==
    /\ stamps' = [k \in Key |-> IF k \in K THEN {} ELSE stamps[k]]
    /\ granted' = {g \in granted : g.key \notin K}
    /\ UNCHANGED <<expireAt, served>>

LimitNext ==
    \/ \E k \in Key : \E now \in Dates : (Allow(k, now) \/ Refuse(k, now)) /\ UNCHANGED shared
    \/ \E K \in Sweeps : Clear(K) /\ UNCHANGED shared
    \/ Tick /\ UNCHANGED <<backend, stamps, expireAt, served, granted>>

LimitSpec == SharedInit /\ LimitInit /\ [][LimitNext]_<<shared, limitVars>>

------------------------------------------------------------------------------

\* The grants of a key dated in the `span` ticks that end at t.
GrantsIn(k, t, span) == {g \in granted : g.key = k /\ t - span < g.ts /\ g.ts <= t}

\* In memory no window of windowSeconds, wherever it starts, holds more than
\* maxRequests granted requests (memory-rate-limiter.ts:29-46).
MemoryLimitHolds ==
    backend = "memory" =>
        \A k \in Key : \A t \in 0..MaxClock :
            Cardinality(GrantsIn(k, t, Window)) <= MaxRequests

\* In Redis grants of one date count once, and a command may arrive late: a
\* window shorter by that delay holds grants of at most maxRequests dates
\* (redis-rate-limiter.ts:31-76).
RedisLimitHolds ==
    backend = "redis" =>
        \A k \in Key : \A t \in 0..MaxClock :
            Cardinality({g.ts : g \in GrantsIn(k, t, Window - Delay)}) <= MaxRequests

LimitHolds == MemoryLimitHolds /\ RedisLimitHolds

\* Only granted requests use up the window: a client that keeps calling while
\* it is refused is let in again when its grants are over
\* (memory-rate-limiter.ts:38-41, redis-rate-limiter.ts:47-52).
RefusalsAreFree ==
    \A k \in Key : \A e \in stamps[k] :
        \E g \in granted : g.key = k /\ g.ts = e.ts /\ g.seq = e.seq

=============================================================================
