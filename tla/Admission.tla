----------------------------- MODULE Admission -----------------------------
(***************************************************************************)
(* The way of a login request into one server process: SignatureGuard on   *)
(* the route, then the limit at the head of AuthService.login, each with   *)
(* the providers that auth.module.ts wired for the application's settings. *)
(*                                                                         *)
(* The network may deliver a message any number of times, in any order,    *)
(* and messages of one nonce with another body carry no valid signature.   *)
(***************************************************************************)
EXTENDS ModuleWiring, NonceStore, RateLimiter

CONSTANTS
    Worker,   \* requests in flight
    Date,     \* per nonce: the timestamp its sender wrote
    Account   \* the key of the limit: login:userId:ip

ASSUME AdmissionAssumption ==
    /\ Date \in [Nonce -> Int]
    /\ Account \in Key

VARIABLES
    flight,   \* per worker: the request and the await it is at
    logins    \* history: the calls of login that were let through

vars == <<shared, wiringVars, nonceVars, limitVars, flight, logins>>

\* What is known of a request past the guard: when it came, whether its signature
\* is valid, and which receipt its nonce got.  Without the guard, nothing.
Checked == [nonce : Nonce, signed : BOOLEAN, arrived : 0..MaxClock, receipt : 1..MaxRecorded]
Unchecked == [signed |-> FALSE, receipt |-> 0]
Message == Checked \cup {Unchecked}

\* counts: the limit is wired, the call named an ip, and no clear came since.
Login == [no : Nat, msg : Message, at : 0..MaxClock, counts : BOOLEAN]

Idle == [pc |-> "idle"]
AtNonce == [pc : {"nonce"}, nonce : Nonce, signed : BOOLEAN, at : 0..MaxClock]
AtLimit == [pc : {"limit"}, msg : Message, at : 0..MaxClock]

TypeOK ==
    /\ SharedTypeOK
    /\ WiringTypeOK
    /\ NonceTypeOK
    /\ LimitTypeOK
    /\ flight \in [Worker -> {Idle} \cup AtNonce \cup AtLimit]
    /\ logins \subseteq Login

Init ==
    /\ clock = 0
    /\ WiringInit
    /\ NonceInit
    /\ LimitInit
    /\ flight = [w \in Worker |-> Idle]
    /\ logins = {}

------------------------------------------------------------------------------

Guarded == Options.signature = "own"

\* A command of Redis is on its way for at most Delay ticks; a worker in memory
\* goes on within the tick.
Late == IF backend = "redis" THEN Delay ELSE 0

\* MUTANT of TimestampValid: a message may be twice as old as the tolerance.
TimestampRecent(n) == clock - Date[n] <= 2 * Tolerance /\ Date[n] - clock <= Tolerance

\* isTimestampValid
TimestampValid(n) == clock - Date[n] <= Tolerance /\ Date[n] - clock <= Tolerance

\* login goes on with what AuthService models, `now` being the date it gave the
\* limiter, or the present one if it asked none.
LetIn(w, m, now, counts) ==
    /\ flight' = [flight EXCEPT ![w] = Idle]
    /\ logins' = logins \cup {[no |-> Cardinality(logins), msg |-> m, at |-> now, counts |-> counts]}

\* The guard, or login, throws.
Refused(w) == flight' = [flight EXCEPT ![w] = Idle] /\ UNCHANGED logins

\* MUTANT of Proceed: login goes on before the limiter answers.
ProceedUnlimited(w, m) == LetIn(w, m, clock, Limited)

\* What follows the guard: login lets a call through that names no ip, or that has
\* no limit to keep, and asks the limiter about every other.
Proceed(w, m) ==
    \/ LetIn(w, m, clock, FALSE)
    \/ /\ Limited /\ StoresAnswer
       /\ flight' = [flight EXCEPT ![w] = [pc |-> "limit", msg |-> m, at |-> clock]]
       /\ UNCHANGED logins
    \/ Limited /\ ~StoresAnswer /\ Refused(w)

\* A route without the guard: nobody looks at a signature.
ArriveUnguarded(w) ==
    /\ phase \in {"running", "closing"} /\ ~Guarded
    /\ flight[w] = Idle
    /\ Cardinality(logins) < MaxGrants
    /\ Proceed(w, Unchecked)
    /\ UNCHANGED <<shared, wiringVars, nonceVars, limitVars>>

\* canActivate up to the await of setIfAbsent; a timestamp out of the window
\* is refused without a trace.  Whoever has no key may write any timestamp.
CheckTimestamp(w, n, signed) ==
    /\ phase \in {"running", "closing"} /\ StoresAnswer /\ Guarded
    /\ flight[w] = Idle
    /\ signed => TimestampValid(n)
    /\ flight' = [flight EXCEPT ![w] = [pc |-> "nonce", nonce |-> n, signed |-> signed, at |-> clock]]
    /\ UNCHANGED <<shared, wiringVars, nonceVars, limitVars, logins>>

\* The request whose nonce is recorded now.
Passed(r) == [nonce |-> r.nonce, signed |-> r.signed, arrived |-> r.at, receipt |-> issued + 1]

\* MUTANT of Verified: the guard answers true where it should throw.
VerifiedNot(w, r) == Proceed(w, Passed(r))

\* verifySignature, and what follows the guard or its 403.
Verified(w, r) ==
    \/ r.signed /\ Proceed(w, Passed(r))
    \/ ~r.signed /\ Refused(w)

\* setIfAbsent answers.
CheckNonce(w) ==
    LET r == flight[w] IN
    /\ r.pc = "nonce"
    /\ Cardinality(logins) < MaxGrants
    /\ \/ Record(r.nonce) /\ Verified(w, r)
       \/ Duplicate(r.nonce) /\ Refused(w)
    /\ UNCHANGED <<shared, wiringVars, limitVars>>

\* rateLimiter.allow answers for the date the worker read; a refusal is a 429.
AskLimiter(w) ==
    LET r == flight[w] IN
    /\ r.pc = "limit"
    /\ \/ Allow(Account, r.at) /\ LetIn(w, r.msg, r.at, TRUE)
       \/ Refuse(Account, r.at) /\ Refused(w)
    /\ UNCHANGED <<shared, wiringVars, nonceVars>>

\* setIfAbsent or allow throws: the connection broke before Redis ran the command,
\* or before the answer came back.
CommandFails(w) ==
    LET r == flight[w] IN
    /\ backend = "redis"
    /\ \/ r.pc = "nonce" /\ (Record(r.nonce) \/ UNCHANGED nonceVars) /\ UNCHANGED limitVars
       \/ r.pc = "limit" /\ (Allow(Account, r.at) \/ UNCHANGED limitVars) /\ UNCHANGED nonceVars
    /\ Refused(w)
    /\ UNCHANGED <<shared, wiringVars>>

\* The application, which is given the limiter, clears it.
ClearLimits ==
    /\ phase \in {"running", "closing"} /\ Limited /\ StoresAnswer
    /\ \E K \in Sweeps :
           /\ Clear(K)
           /\ logins' = {[l EXCEPT !.counts = @ /\ Account \notin K] : l \in logins}
    /\ UNCHANGED <<shared, wiringVars, nonceVars, flight>>

\* Time passes; no command is late by more than Late.
Advance ==
    /\ Tick
    /\ \A w \in Worker : flight[w].pc # "idle" => clock - flight[w].at < Late
    /\ UNCHANGED <<backend, wiringVars, nonceVars, limitVars, flight, logins>>

Boot ==
    /\ Start \/ FailToStart
    /\ UNCHANGED <<shared, nonceVars, limitVars, flight, logins>>

\* REDIS_CLIENT quits under the requests in flight: what they sent before is still
\* answered, what they send from now on throws, and the server is closed later.
Shutdown ==
    /\ Stop
    /\ UNCHANGED <<shared, nonceVars, limitVars, flight, logins>>

Next ==
    \/ Boot \/ Shutdown \/ ClearLimits \/ Advance
    \/ \E w \in Worker :
        \/ ArriveUnguarded(w)
        \/ \E n \in Nonce, signed \in BOOLEAN : CheckTimestamp(w, n, signed)
        \/ CheckNonce(w)
        \/ AskLimiter(w)
        \/ CommandFails(w)

Spec == Init /\ [][Next]_vars

------------------------------------------------------------------------------

\* A nonce that was recorded brings a second message to login only when it was
\* recorded no later than the timestamp of that message (before it in Redis, plus
\* the way of the command), or when the memory store had to evict it: for every
\* other message the ttl outlives the window of timestamps
\* (signature.guard.ts:69-84).
ReplayNeedsEarlyArrival ==
    \A e \in recorded, l \in logins :
        e.seq < l.msg.receipt /\ e.nonce = l.msg.nonce =>
            \/ backend = "memory" /\ e.at <= Date[e.nonce]
            \/ backend = "redis" /\ e.at < Date[e.nonce] + Delay
            \/ backend = "memory" /\ l.msg.receipt > e.seq + MaxSize

\* A guarded application lets none but signed messages reach login, each of which
\* came within the window of its timestamp and got a receipt for its nonce, no
\* earlier than it came, that no other login has (signature.guard.ts:53-115).
GuardedLoginsWereRecorded ==
    Guarded =>
        /\ \A l \in logins :
               /\ l.msg.signed
               /\ l.msg.arrived \in (Date[l.msg.nonce] - Tolerance)..(Date[l.msg.nonce] + Tolerance)
               /\ \E r \in recorded :
                      /\ r.nonce = l.msg.nonce /\ r.seq = l.msg.receipt
                      /\ l.msg.arrived <= r.at
        /\ \A l, m \in logins : l.msg.receipt = m.msg.receipt => l = m

\* The logins the limit counts, dated in the `span` ticks that end at t.
LoginsIn(t, span) == {l \in logins : l.counts /\ t - span < l.at /\ l.at <= t}

\* An application that switches the limit on in both places gets it for the calls
\* of login that name an ip: no window holds more than maxRequests of them, in
\* Redis of their dates, in a window shorter by the delay of a command
\* (auth.service.ts:170-179).
WiredLimitHolds ==
    Limited => \A t \in 0..MaxClock :
        IF backend = "memory" THEN Cardinality(LoginsIn(t, Window)) <= MaxRequests
        ELSE Cardinality({l.at : l \in LoginsIn(t, Window - Delay)}) <= MaxRequests

=============================================================================
