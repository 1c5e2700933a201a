# LuoluoAuth in TLA+

LuoluoAuth is an authentication library for NestJS: logins and their sessions
under a concurrency policy, session stores in memory and in Redis, token
strategies, guards, permissions, rate limits, request signatures, audit and
persistence, and a set of extras (an OAuth2 server, SSO, admin console, third
party logins).  This directory holds TLA+ modules that follow its code, TLC
configurations that check them, and proofs checked by TLAPS.

Paths below are those of the repository (`src/auth/...`, `docs/usage.md`).

## 1. The system

| part | state it keeps | operations |
| --- | --- | --- |
| `AuthModule` (`src/auth/auth.module.ts`, `auth.config.ts`) | Redis connections | `register`, `registerAsync`, `forConfig`: options, checks, providers; closing at the end |
| `AuthService` (`src/auth/auth.service.ts`) | none of its own: sessions live in the store, locks in the lock service | `login`, `logout`, `forceLogout`, `kickUser`, `switchIdentity`, `rotateToken`, `openSafeAuth`, `closeSafeAuth`; `validateToken`, `renewSession`, `banUser`, queries |
| `MemoryStore` (`src/auth/stores/memory-store.ts`) | a Map of sessions with expiry dates, an LRU Map, a blacklist, two kinds of timers | `set`, `get`, `delete`, `deleteByUserId`, `renew`, `clear`, `ban`, `unban`, `isBanned`, the lists |
| `RedisStore` (`src/auth/stores/redis-store.ts`) | session keys, index sets by user, device and both, ban keys, each with a ttl | the same, in several commands each |
| distributed locks (`src/auth/distributed-lock/`) | one entry per key: token and expiry date; in memory a timer too | `acquire`, `release` |
| token strategies (`src/auth/strategies/`) | none (a random token is the key of its session) | `generate`, `verify`, `rotate` |
| guards (`src/auth/auth.guard.ts`, `src/auth/ws/`) | none but the browser's cookie | `canActivate`: validate, ban check, roles and permissions, safe auth, rotation, renewal |
| permissions (`src/auth/permission/`) | none | matching of roles and permissions with wildcards |
| rate limiters (`src/auth/rate-limit/`) | dates of the requests granted, per key: an array, or a sorted set in Redis | `allow`, `clear` |
| request signatures (`src/auth/signature/`) | nonces seen, each with a date | `setIfAbsent`, the guard |
| audit, persistence | lists of log entries; rows | `log`, queries; create, update, find |
| OAuth2 server (`src/extras/oauth2/`) | authorization codes, device codes, access tokens, refresh tokens, index of token families; in memory or in Redis | `authorize`, `token` with five grants, `userinfo`, device endpoints, store methods |
| SSO (`src/extras/sso/`) | none: a callback with a token | redirects, `handleCallback` |
| other extras | none that outlives a request | admin console, microservice interceptor, third-party logins, SAML, Passport bridge |

How they interact: a login request passes `SignatureGuard` and the rate limit at
the head of `AuthService.login`, if the module's options brought both to life;
`login` takes a lock from the lock service, lists and deletes sessions of the
store under the login policy, and stores a new one.  Any other request reaches
a guard, which calls `AuthService.validateToken` and through it the token
strategy and the session store, asks the blacklist, judges roles, permissions
and safe auth on the copy it read, and may rotate the browser's cookie.  All of
this is `async` code on one event loop per process: a handler runs without
interruption from one `await` to the next, other handlers and timer callbacks
run in between, and several processes share a Redis.

What is hard here:

- **Interleaving.** Handlers list sessions, await, and act on the list; read a
  session, await, and write the copy back.  A lock serialises logins, and only
  logins, and only those with the same user *and* device.
- **Failure.** Store calls throw, a process may die with a lock in its hands,
  a login may outlast the ttl of its lock.
- **Timers.** The in-memory lock and store delete by timer; replaced entries
  must take their timers with them, and delays beyond `2^31 - 1` ms run in
  segments.
- **Capacity.** The LRU order of `MemoryStore` is kept by six methods and a
  timer callback, and one eviction per `set` has to be enough.
- **Stale copies.** A guard reads the session once and acts on it four awaits
  later; sessions end, bans begin and safe auth is closed meanwhile.
- **Windows.** A timestamp is valid for some time around the sender's clock, a
  nonce is kept for some time from the server's, and a Redis command carries
  the date of the moment before it was sent.
- **Token families.** A refresh token is used once; its replay revokes all of
  its family, while another request may be about to add to that family.

`PROJECT.json` lists every hazard with its line, and the properties that look
for it.

### What makes each part correct

- *AuthService*: no more sessions per user and device than the policy allows,
  however many logins race; an ended session stays ended; a stored login is not
  lost to overlapping rotations and rewrites; a lock never outlives its login;
  every request ends.
- *locks*: one owner per key; a late release harms nobody; what nobody releases
  is freed.
- *MemoryStore*: Map, LRU order and timers agree; capacity is kept; no session
  dies before its date and none outlives its timer; a new session is not the
  victim of its own `set`.
- *OAuth2*: a grant gives tokens once; a family is a chain with one usable
  refresh token; whatever is alive can be revoked; a revoked family is dead.
- *RedisStore*: a session alive is found by user and by device; a delete by user
  reaches all of the user's sessions.
- *guards*: a ban that holds when a request arrives holds for the request; a
  login that is over stays out whatever rotates or writes back; a handler runs
  only for users its permissions were granted to, and only on a safe auth that
  is open; the browser's cookie stays good for as long as its login.
- *signatures*: a message is let in once, only if it is signed, and within the
  window of its timestamp.
- *rate limiters*: never more than the limit in a window, wherever it starts;
  refusals cost nothing.
- *wiring*: a limit that was switched on is in force.

## 2. The modules

| module | models | states what |
| --- | --- | --- |
| `LeaseLock` | the lock contract, which is `RedisDistributedLock` command by command | `LeaseExclusion`, `OwnersAreKnown` |
| `MemoryDistributedLock` | `memory-distributed-lock.ts` with its timers | implements `LeaseLock` |
| `SessionRegistry` | what AuthService promises: sessions opened once, bounded, ended for good | (abstract) |
| `AuthService` | seven handlers of `auth.service.ts`, cut at their awaits, over a store and a lock service | implements `SessionRegistry` |
| `MemoryStore` | `memory-store.ts` | its own invariants |
| `OAuth2` | `oauth2.controller.ts`, `client-store.ts`, `redis-client-store.ts` | its own invariants |
| `RedisStore` | `redis-store.ts`, command by command | its own invariants |
| `Deployment` | the clock of a process and whether it has Redis | |
| `NonceStore` | `nonce-store.ts`, both stores | its own invariants |
| `RateLimiter` | `memory-rate-limiter.ts`, `redis-rate-limiter.ts` | its own invariants |
| `ModuleWiring` | `auth.module.ts`, `auth.config.ts`, `redis-lifecycle.service.ts` | |
| `Admission` | `signature.guard.ts` and the head of `login`: composes `NonceStore`, `RateLimiter` and `ModuleWiring` | the invariants of the three, and its own |
| `Permissions` | `permission.engine.ts`, operators only | `MatchIsInclusion` |
| `RequestGuard` | the http, rpc and websocket guards, `requireAdmin`, the SSO callback; uses `Permissions` | its own invariants |
| `MCAuthService`, `MCRedisStore`, `MCOAuth2`, `MCAdmission`, `MCRequestGuard` | constants and symmetry sets for TLC | |
| `LeaseLockProofs`, `MemoryDistributedLockProofs`, `MemoryStoreProofs`, `RedisStoreProofs`, `OAuth2Proofs`, `RequestGuardProofs` | theorems about the module of that name | |
| `AuthServiceProofs` | theorems about `AuthService`, and that it implements `SessionRegistry` | |
| `AdmissionProofs` | theorems about `RateLimiter`, `NonceStore` and their composition `Admission` | |

Definitions whose comment starts with MUTANT are wrong variants of the
definition they name.  Nothing uses them; each one shows, put in the place of
the original, that some property is able to fail.

### LeaseLock and MemoryDistributedLock

`lease[k]`/`locks[k]` is the key or Map entry, `outstanding` the `LockToken`s in
callers' hands, `issued` counts the random tokens drawn (they never repeat).
`Acquire`, `Release` are the methods, each without an await inside (memory) or
one command or script (Redis); `Fire` is the callback of `setTimeout`, which may
run late; `Tick` is time, which in `LeaseLock` also removes the keys whose `PX`
is over.  The refinement maps an entry whose date has come to no lease at all,
since `acquire` treats it so, and the late callback to a stuttering step.

### AuthService

`sessions` is the store: a set of sessions.  A session keeps the id (token), the
user, the device, `createTime` (`ct`) and whether it was stored with a ttl.
`ct` is the number of the login it comes from; `rotate` copies it, so a
login's session can be followed through rotations.  `req[p]` is the request
process `p` serves: its handler, its program counter and the locals that live
across awaits (the copy read, the lists still to go through).  One action per
stretch between two awaits:

| action | code |
| --- | --- |
| `Begin...` | the handlers' first lines |
| `Acquire` | `acquireLockWithRetry` |
| `ApplyPolicy`, `EvictOldest` | the policy branches of `login` and their delete loop |
| `ListDevice`, `ScanSession`, `DecideAccounts` | `handleMultiAccountLogin` |
| `Generate`, `Store`, `Release` | token and session, `store.set`, the `finally` block |
| `Verify`, `Delete`, `Kick`, `Get`, `DeleteOld` | `logout`, `forceLogout`, `kickUser`, the read of `rotate` and `open`/`closeSafeAuth`, the last line of `rotate` |
| `Fail`, `Crash` | a call of the store or of the lock service throws; the process dies |
| `ExpireSession`, `ExpireLock` | a session's ttl or its eviction from a full store; a lock's ttl |

Configuration is in the constants (`Policy`, `MaxSame`, `MultiAccount`, ...), as
are the assumptions of a run (`MayFail`, `MayCrash`, `LockMayExpire`, ...).
`opened` and `ended` are history: the logins stored, and those whose session was
ended by a logout, kick, eviction or expiry.  A call of the lock service that
throws after `acquire` had its effect, or before `release` had its, leaves a lock
without a holder (`Dead`) to its ttl; so does a crash.  A store call is one atomic step,
as it is in `MemoryStore`; the commands of `RedisStore` are finer (module `RedisStore`).

### MemoryStore

`store` and `blacklist` are the Maps, `lru[s]` is the set of sessions before `s`
in the LRU Map, which gives its order without sequences.  A timer is a record
with the date the closure captured, the date it fires, and `own`: whether the
entry still holds its handle.  `scheduleExpiry` gives the handle of the first
segment to the entry and drops those of the later ones, and `isBanned` drops a
ban with its handle but leaves the timer: both make `own` false.

### RedisStore

`sessions` are the session keys, `index` the sets of ids per user and per device;
all expire at a date, `Forever` without one.  The id of a session carries its
user and device, which no write changes.  `set` is one pipeline; the deletes are
cut between the command that looks and the pipeline that deletes, with the ids
and the data read kept in `call[p]`.  `orphans` is history: the live sessions that
left an index, or whose index was left with less time than they have.  There are
four causes, and `LiveSessionsAreListed` says there is no fifth: a delete that
races a `set`; `renew`, which moves the date of the session key alone; a `set`
with a shorter ttl, which moves the date of the whole index; a `set` whose
pipeline breaks off after the session key (`SetPartly`), so that `set` throws and
the session is in no index.  The pipelines of the deletes run as a whole.

### OAuth2

`codes`, `devices`, `tokens`, `refreshTokens` and `tokenFamilies` are the Maps of
the controller and of the memory store, or the keys of the Redis store;
`store` says which and never changes, so that one run covers both.  A *pair* is
the access and the refresh token that `generateToken` draws together; a family
is named by its first pair.  A request to the token endpoint starts with its
first look at a grant and is cut at the awaits after it; a method of the memory
store is one step, and one of the Redis store is one step per command, script or
pipeline.  A pipeline runs as a whole: ioredis writes it at once on the one
connection of the process, so this is a model of one server process before
Redis.  A failed pipeline is taken to have done nothing.

### NonceStore, RateLimiter, ModuleWiring, Admission

These four share the variables of `Deployment`: `clock` is what a process reads
with `Date.now`, `backend` says whether `REDIS_CLIENT` is there, which decides for
nonce store, limiter and locks together.  `NonceStore` and `RateLimiter` have a
specification each (`NonceSpec`, `LimitSpec`), in which callers do as they like;
`Admission` takes their operators as the steps of its workers.

| module | definition | code |
| --- | --- | --- |
| `NonceStore` | `Record`, `Duplicate` | `setIfAbsent` answering true or false; `records` is the Map with its order of insertion (`seq`), or the keys |
| | `Gone`, `MakeRoom` | `evictExpired` and the key's `PX`; the eviction of the oldest |
| `RateLimiter` | `Allow`, `Refuse`, `Clear` | `allow` answering true or false, on the date `now` that was read; a step of `clear`: all keys in memory, one after the other in Redis |
| | `Counted`, `KeyDate`, `Stored` | `push` or `zadd`, whose member is the date; `expire`; the key, which Redis drops after its date |
| `ModuleWiring` | `Options`, `MapFrameworkConfig`, `Validated`, `SecretsValid`, `SignatureGuardFails` | the ways from settings to options, and what refuses them |
| | `SigningSecret`, `Limited` | the secret `TOKEN_STRATEGY` gets, the default one where no `jwt` section is given; whether `login` asks a limiter about the calls that name an ip |
| | `Opened`, `Start`, `FailToStart`, `Stop`, `StoresAnswer` | which connections there are, and whether commands still reach Redis |
| `Admission` | `CheckTimestamp`, `CheckNonce` | `SignatureGuard.canActivate` up to the await of `setIfAbsent`, and after it |
| | `Verified`, `Proceed` | `verifySignature`; the head of `login`, where a call without an ip goes on unlimited |
| | `AskLimiter` | `rateLimiter.allow` in `login`, on the date read before the await |
| | `CommandFails`, `Shutdown` | a command to Redis throws, with or without its effect; `REDIS_CLIENT` quits under the requests in flight |

`CheckTimestamp` may take any nonce at any time, again and again: the network
repeats and reorders.  `Advance` keeps a command of Redis on its way for at most
`Delay`, so the date a script runs on may be that old when it runs.  `recorded`,
`granted` and `logins` are history: `logins` keeps of each login the message that
brought it (whether it was signed, when it came, its receipt), its date, and
whether it counts against the limit.

### Permissions and RequestGuard

A permission is the sequence of its segments; `matchPermission` and
`hasPermission` are those of the engine, `StandsFor` is the reference definition:
which permissions without wildcards a pattern means.

In `RequestGuard` a process serves a request of one entry (`http`, `rpc`, `ws`,
`admin`, `sso`) or a call of `openSafeAuth`/`closeSafeAuth`, cut at the awaits:

| action | code |
| --- | --- |
| `ArriveBy...`, `ArriveAtConsole` | the guards' first lines: header, cookie, whitelist, handshake, console, callback |
| `Verify`, `Get`, `CheckBan` | `RandomTokenStrategy.verify`, `validateToken`, `isBanned` |
| `RotateGet`, `RotateSet`, `RotateDelete`, `Renew` | `rotateToken` in cookie mode, `tryAutoRenew` |
| `Authorize`, `Admit`, `AuthorizeAdmin` | the checks of the metadata on the copy, and the handler's turn |
| `Respond`, `LoseResponse` | the answer with its cookie; a lost answer |
| `Fail`, `LoseDelete` | a store call that throws without effect; `rotate`'s delete throwing after its effect |
| `BeginSafeAuth`, `GetForSafeAuth`, `SetSafeAuth` | `openSafeAuth`, `closeSafeAuth` |
| `LogIn`, `EndSession`, `KickUser`, `BanUser`, `UnbanUser`, `LapseSafeAuth` | what else happens to sessions, bans and safe auth |

`copy` is the session the guard validated, on which everything after it is judged.
`ban`, `over` and `closed` note what held when the request arrived: a request that
was past a check before a ban or a logout is not a violation.  `touched` and
`disturbed` name the exceptions of `CookieStaysUsable`: a session of the login was
ended, or the browser had two requests under way or lost an answer, or the
store's answer to `rotate`'s delete was lost.  A client is an ip and a user agent,
each of which may be unknown to login or request: `FingerprintFits` is
`checkFingerprint`, which compares what both name.

## 3. The runs

| run | question | answer |
| --- | --- | --- |
| `memory_lock` | does the Map with timers keep the contract of the Redis lock? | yes, and a lock nobody releases is freed |
| `memory_store` | do Map, LRU order, blacklist and timers agree? | yes, for ttls that fit `setTimeout` |
| `auth_mutual` | do three racing requests keep the bound of sessions per device? | yes, and the registry is implemented |
| `auth_all` | do the seven handlers together lose a login, or hang? | no |
| `redis_store` | are live sessions listed, and do deletes by user and device reach all they were called for? | yes, but for four named causes |
| `admission` | who gets as far as `login`, and how often, in which applications? | as configured: signed messages once per window, limits kept; see the exceptions below |
| `request_guard` | who is let in, with which rights, and does the cookie stay good? | as the checks say, among logins, kicks, bans, rotations and safe auth |
| `oauth2` | are grants redeemed once, families chains, live tokens revocable? | yes, but for authorization codes over Redis |
| `auth_single_devices` | does `single` keep one session per user? | no: not for logins from two devices at once |
| `auth_resurrect` | is a forced-out session gone for good? | no: `openSafeAuth` can write it back |
| `guard_ban` | is a banned user refused? | no: not with a random token |
| `oauth2_revoked` | is a revoked family dead? | no: a refresh in flight adds to it |

### Bounds, and why they are enough

- `memory_lock`: two keys, ttl 2, five ticks, three tokens.  Three tokens are a
  holder that lets its lease expire, a second holder, and a third acquisition
  on the other key or after both; time runs past the second lease, so late
  releases, late timers and replaced entries all happen.
- `memory_store`: three sessions for a capacity of two, so every `set` may
  evict and the order matters; sessions of one tick and bans of two with
  `MaxTimeout` 1, so that the timers of bans run in two segments; three ticks,
  so that sessions are renewed and expire, and an overdue ban is asked about
  before its timer runs.  One user is ever banned: bans of users do not touch
  each other.  `Forever` stands for a set without ttl and is not among `Ttls`.
- `auth_mutual`: one user, one device and the call without a device, three
  requests, at most two sessions per device, four ids: two sessions may be
  there and two logins under way.  Users and devices only meet in the lock key
  and in `single`, which other runs take up.  JWT tokens; logins, forced
  logouts, kicks, expiries and evictions, failing calls of store and lock,
  crashes.
- `auth_all`: all seven handlers, two requests at a time, three ids, `single`,
  and an account limit of zero, so that the first login is refused as well as
  accepted (without a device); retries, expiries and evictions, crashes, after
  which a lock has no holder.  Only here are the handlers that copy sessions let
  loose together.  Calls that throw are left to `auth_mutual`: for a request they
  are a crash after which `login` still gives its lock back.
- `redis_store`: two deletes at once, one user with a session on a device and
  one without; ttls of one and three ticks with one tick of slack, so that a
  set or a renewal may or may not outlive an index; two ticks, at which
  sessions and then indexes expire.  One `set` may break off, before or
  after SADD: that of the session without a device, with the long ttl
  (`Breaking`); the theorems have no such bound.
- `oauth2`: two requests at once, one authorization code and one device code
  (names are drawn again when nothing refers to them), three pairs, so that a
  family is rotated twice or two families are alive; a life of 0 and one tick,
  so that everything issued before the tick expires at it and what is issued
  after it does not.
- `admission`: two workers, so that two requests are between guard, nonce store
  and limiter together; a tolerance of one tick and five of time, so that a
  window opens, ends, and a nonce outlives or does not outlive it; one message
  stamped on time and one from a clock that is ahead; a memory store for one
  nonce, so the second evicts; at most three nonces recorded and three logins
  for a limit of two in four ticks, so that a window is full, refuses, and
  slides; a delay of one tick, so that scripts run out of order.  Twelve
  applications: both backends with guard and limiter, each without the other,
  the limit in one place only, the three ways to register, and what must not
  start.  3.7 million distinct states up to symmetry.
- `request_guard`: two processes, three session ids, one opening of safe auth.
  Three ids are a login and two rotations, or two logins and a rotation.  Six
  configurations let the calls meet that can disturb each other: rotation with
  kicks and new logins; rotation with safe auth; bans with kicks and renewal of
  JWTs; safe auth with kicks; microservice and console with bans and strict
  fingerprints; microservice and callback with random tokens.  Five routes: one
  the first user may call, one that demands safe auth, and three it may not,
  one of which requires a permission with a wildcard that the second user has.
  Three clients: they differ in the ip, or in the user agent with the ip unknown.
  2.6 million states up to symmetry.
- The violating runs have the smallest instance that shows the trace.

`MaxClock`, `MaxTokens`, `MaxCreated`, `MaxPairs`, `MaxRecorded`, `MaxGrants`,
`MaxIds`, `MaxSafe`, `Breaking`, `Suspects` and `Code` are bounds
of the runs only; the comments in the modules mark them BOUND.  Symmetry is used
for processes, workers, users and devices in runs that check safety; `Init` and `Next`
treat them alike.

Deadlock is not checked where time or a supply of names runs out by a bound
(`memory_lock`, `memory_store`, `redis_store`, `oauth2`, `admission`, `request_guard`
and the violating runs of these modules), nor in `admission` where an
application has stopped or did not start.  `AuthService` is checked for it: a
new request can always arrive.

### Fairness

- `AuthService`: weak fairness of the next step of each request.  The event loop
  resumes a handler once its promise is settled, and store calls settle (a
  throw is a settlement).  Nothing is assumed of arrivals, failures, expiries
  or of the lock being freed: `RequestsEnd` holds because retries are counted.
- `MemoryDistributedLock`, `MemoryStore`: weak fairness of due timers, each of
  its key, and of time.  `setTimeout` callbacks run, at some time after they
  are due.
- The other modules state safety only: what a guard, a limiter or a store
  promises is about answers that were given, not about their coming.

### The disagreements

1. **single from two devices** (`auth_single_devices`). The lock key is
   `login:user:device`; two logins delete all sessions, then each stores one.
   `docs/usage.md:211` promises one session per user.
2. **A session comes back** (`auth_resurrect`). `openSafeAuth` reads, awaits and
   writes the session; `forceLogout` in between is undone.
3. **A banned user works on** (`guard_ban`). `AuthGuard` takes the user id from
   what `jwt.decode` finds in the token (`auth.guard.ts:143`): nothing in a random
   token, so the blacklist is not asked.  `auth.service.ts:461` says a banned user
   can neither log in nor have access.
4. **A revoked family lives on** (`oauth2_revoked`). One request marks a refresh
   token and awaits `login`; a replay of the token revokes the family; the
   first request saves its pair into it.  `docs/usage.md:430` says the whole
   family is revoked at once.

### Seen while modelling, without a run

Sessions and locks:

- `scheduleExpiry` gives the entry the handle of its first `setTimeout` and drops
  those of the later segments (`memory-store.ts:303`).  With a ttl of more than
  24.8 days: set, first segment fires, `renew` moves the date and clears a timer
  that is gone, the second segment deletes the session at the old date.  This is
  why `NoEarlyExpiry` is stated for ttls that fit one segment.
- An overdue ban found by `isBanned` is deleted but its timer stays
  (`memory-store.ts:277`): the user, banned again, is unbanned when the old
  timer runs, if that is between the two dates (only with bans in segments, or
  a callback that is late).
- `rotate` stores the new token without a ttl (`random-token.strategy.ts:165`): the
  rotated session never expires.
- The ttl of a Redis index is that of the last `set` (`redis-store.ts:101`), and
  `renew` leaves it alone: after `openSafeAuth`, which stores with 30 minutes, the
  user's other sessions are in no index half an hour later, and `kickUser` or a
  login under `single` passes them by.
- The account limit of a device is checked under locks of different users
  (`auth.service.ts:349`): two users may both be let in as the last one.
- A pipeline of `set` that breaks off leaves a session in no index
  (`redis-store.ts:109` throws, and takes nothing back): `login` fails, and the session
  it stored lives on, out of the reach of `kickUser`.
- A `release` that throws, or an answer to `acquire` that is lost, leaves the lock to
  its ttl; the user's next login from that device is refused until then.
- A login the account limit refuses has already ended the user's sessions under
  `single` or `mutual-exclusion`; a throwing audit call after `store.set` leaves a
  session whose token nobody has (`auth.service.ts:260`).
- `kickUser` with a device kicks the user everywhere when the store has no
  `deleteByUserIdAndDevice`, as `MemoryStore` has not (`auth.service.ts:444`).
- Two rotations of one token leave two sessions of one login; `NoLostSession`
  holds, a bound does not.
- `openSafeAuth` stores the session itself with the ttl of the safe
  authentication (`auth.service.ts:628`): a session good for days ends with it.

Guards and tokens:

- `login`, the websocket guard, the admin console and the SSO callback never ask
  `isBanned`; `AuthGuard` does for JWTs only, the microservice guard always.
- Two parallel requests with one cookie, or an answer lost after a rotation,
  leave the browser with a token that is dead (`disturbed` in `RequestGuard`).  So
  does an answer of the store that is lost after `rotate`'s delete
  (`random-token.strategy.ts:166`): the handler throws and no cookie is written.
- A fingerprint binds only what both sides name: a session stored without ip and
  user agent, or a request without, passes the strict check
  (`auth.service.ts:839-858`), and the microservice guard hands over no user
  agent (`auth.guard.ts:301`).
- `switchAccount` with random tokens returns a token without a session;
  `autoRenew` never happens for random tokens; `rememberMe` with a JWT keeps its
  `expiresIn`.

Signatures, limits, wiring:

- A message recorded by the memory store before its own timestamp, or at it, may
  pass again: the nonce is forgotten at the end of a ttl that began when it was
  recorded, and the timestamp is valid a little longer
  (`ReplayNeedsEarlyArrival` says this is the only way but for eviction).
- The nonce is recorded before the signature is verified (`signature.guard.ts:105`):
  a forged message uses up the nonce of the honest one.
- A client's burst within one millisecond is one member of the Redis limiter's
  sorted set and counts once (`redis-rate-limiter.ts:58`); a command that is late
  is judged on the date it carries.  `RedisLimitHolds` is stated for both.
- `options.auth.rateLimit` alone, as in `docs/usage.md:533-544`, limits nothing: the
  limiter needs `options.rateLimit` too.  `forConfig` writes only the former.
- With both places switched on, `login` asks the limiter only if its caller names
  an ip (`auth.service.ts:170`); the calls of `README.zh-CN.md:211` and `:237` name
  none, and are never limited.  `WiredLimitHolds` counts the calls with an ip.
- `registerAsync` and `forConfig` fail at start without a section for signatures,
  since `SignatureGuard` is always listed and reads it; `README.zh-CN.md:162` says so
  for `registerAsync`, the example of `docs/usage.md:88-103` has none.
- `validateSecrets` lets an absent `jwt` section pass, and `TOKEN_STRATEGY` then signs
  with the default secret (`auth.module.ts:226-230`), which `auth.config.ts:486` and
  `docs/usage.md:106` say is refused.  `SigningSecret` models it; no property is
  stated, since one start of one application shows it.
- `SESSION_STORE` and `REDIS_CLIENT` open a connection each, and only the latter
  quits at the end; a client the application brought is quit too
  (`redis-lifecycle.service.ts:6`).  It quits under the requests in flight, whose
  next command then throws.

OAuth2:

- Over Redis an authorization code is read with GET and deleted with DEL
  (`redis-client-store.ts:178`): two exchanges that both read before either
  deletes both get tokens, against "一次性使用" (`:197`).  This is why
  `GrantsRedeemedOnce` leaves codes of that store out.
- Reuse of a refresh token is noticed only while the access token of its pair
  has not expired (`client-store.ts:374` comes before `:383`).
- `userinfo` with an expired access token deletes that token alone
  (`client-store.ts:352`); its refresh token stays in the Maps and in the index
  for good, since `evictExpiredTokens` looks for it by access token.

## 4. What is proved

TLAPS checks every theorem for all values of the constants.  Every safety
property and every action property of the passing runs is the statement of one
of them; where a theorem asks more of the constants than the run's module does,
the last column says so.

| theorem | statement | rests on |
| --- | --- | --- |
| `LeaseLockProofs!LeasesExclude` | two callers never own one key; Redis knows its owners | `Ttl \in Nat` |
| `MemoryDistributedLockProofs!TypeCorrect`, `TimersFollowEntries`, `MutualExclusion` | types; every pending timer is that of the entry, and every entry has one; exclusion | `LockAssumption` |
| `MemoryDistributedLockProofs!MemoryLockImplementsLease` | the Map with timers implements the contract | same |
| `AuthServiceProofs!TypeCorrect` | types, all handlers, all configurations | `AuthAssumption` |
| `AuthServiceProofs!LocksAreReleased` | a lock is held only by a login about to release it | same |
| `AuthServiceProofs!LoginsExclude` | critical sections of one key do not overlap | same; the property itself asks for the lock to be on and its ttl to be long enough |
| `AuthServiceProofs!SessionsAreNotLost` | a stored login lives on until something ends it | `AuthAssumption` |
| `AuthServiceProofs!SessionsAreBounded` | the bound of sessions per user and device | `AuthAssumption` and `Plain`: the lock is on and not outlived, and `login` alone stores sessions |
| `AuthServiceProofs!UsersHaveOneSession` | `single` keeps one session per user | same, and no login names a device |
| `AuthServiceProofs!ServiceImplementsRegistry` | refinement of the registry | `AuthAssumption` and `LimitsAreLocked`: `NoCopies` (`rotate` and `safeAuth` are not used), and `Plain` where the policy sets a limit |
| `AuthServiceProofs!RequestsDoNotLoop` | every step takes a request ahead, and no list it works off is infinite | `AuthAssumption` |
| `MemoryStoreProofs!TypeCorrect`, `EntriesHaveTimers`, `CapacityHolds`, `NewSessionsStay` | types; every entry that expires has its timer; Map and LRU order agree and fit; the new session is kept | `StoreAssumption` |
| `MemoryStoreProofs!NoTimerIsEarly` | no timer deletes a session before its date | `StoreAssumption` and `TtlsFit`: every ttl fits one segment of a timer |
| `RedisStoreProofs!TypeCorrect`, `SessionsAreListed`, `DeletesDoTheirWork` | types; a live session is in its indexes or was orphaned in one of four ways; a delete by user reaches all it was called for | `RedisAssumption` |
| `RedisStoreProofs!UniformSessionsAreListed` | there are no orphans: every live session is in its indexes | same; all sessions get one ttl, the calls are `set` and `delete`, and no `set` breaks off |
| `OAuth2Proofs!TypeCorrect`, `LiveTokensCanBeRevoked` | types; every live token is in the index of its family | `OAuth2Assumption` |
| `OAuth2Proofs!GrantsGiveOnePair`, `FamiliesStayChains` | a grant is redeemed once; one unused refresh token per family | same |
| `OAuth2Proofs!LoneRequestsRevoke` | a revoked family is dead | same and `Alone`: the token endpoint serves one request at a time |
| `AdmissionProofs!LimitsHold`, `RefusalsCountNothing` | types and `LimitHolds`; refusals leave no trace | `LimitAssumption`, `ClockAssumption` |
| `AdmissionProofs!NoncesHold` | types and `NonceOncePerWindow` | `NonceAssumption`, `ClockAssumption` |
| `AdmissionProofs!LimitsHoldForLogins`, `RefusedLoginsAreFree`, `NoncesHoldForGuard` | the two specifications above hold of their composition | all assumptions of `Admission` |
| `AdmissionProofs!ReplaysNeedEarlyArrival`, `WiredLimitsHold` | replay and limit of a whole application | same |
| `AdmissionProofs!TypeCorrect`, `GuardedLoginsAreRecorded` | types; a guarded login was signed, came in its window, and has a receipt to itself | same |
| `RequestGuardProofs!MatchingIsInclusion` | `matchPermission` decides inclusion | `SegmentAssumption` |
| `RequestGuardProofs!TypeCorrect`, `BansAreEnforced`, `EndedLoginsAreRefused`, `HandlersRunAsGranted` | types, bans, ended logins, grants, at every entry | `GuardAssumption`, `SegmentAssumption` |
| `RequestGuardProofs!BansReachEveryEntry` | no banned user is admitted | same and `EveryEntryAsks`: requests come by http with JWTs or to microservices |
| `RequestGuardProofs!SafeRoutesAreGuarded` | safe auth is open when it is demanded | same |
| `RequestGuardProofs!CookiesStayUsable` | rotation does not strand the browser | same |

**Locks.** `LeaseInv` and `LockInv`: exclusion is not inductive by itself.  It is
strengthened with "an owner is the one the entry names" (`OwnersAreKnown`) and
"tokens are distinct and were drawn" (`TokensAreUnique`, `TokensAreDistinct`), so that
a release with an old token meets another token or none.  For the Map, the
timers join it: every pending timer carries the token of the entry of its key,
hence `Fire` frees a lease that is over.  The refinement then goes action by
action (`AcquireIsContractAcquire`, ...); the step lemma `ViewChangesAtKey` says
what a change of one entry does to the abstract leases.

**AuthService.** `TypeInv` adds to `TypeOK` that a request's program counter fits
its handler (`RequestsWellFormed`): without it `Fail` could not tell which
requests have a `finally` block to run.  `LockInv` adds that a login past
`acquire` holds its lock (`LockHeld`), given that locks are on and do not expire
under it; with `NoLeakedLock` this gives exclusion.

**No lost login.** `LoginInv` follows ids rather than sessions: an id is drawn
once, so all copies of it, stored or in a request's hands, are of one login
(`Copies`).  `rotate` deletes the old session only after the new one is stored, and
what it deletes may by then have been written again by `openSafeAuth`; it is
still of the same login, and that login went on under a later id
(`GoesOnAfter`) or was ended.  A step that takes a session from the store
satisfies `Survival`, and every step is shown to.  It is the case of two rotations
of one session, one of which deletes what the other just read, that makes "a
later id" part of the invariant.

**Registry.** `OpeningInv` adds to `LockInv` which handlers are at work (`Handlers`)
and that the session a login is about to store has a number that no session and
no ended login has (`Fresh`).  It needs no lock: numbers are drawn once.  `PlainInv`
adds `Space` (a login that has the lock and has made room still has it: only
logins add sessions, and those of this key are excluded).  Steps are sorted into
those that end sessions, those that draw a number, and `Store`.

The hypotheses are as weak as the code allows.  In the registry what was ended
stays ended; in the code `rotate` and `open`/`closeSafeAuth` may write back a copy
they have read (`auth_resurrect`), so `NoCopies` leaves out those two and nothing
else: locks may be off or outlived and `switchIdentity` may be called.  The
refinement needs a lock only where the registry has a limit to keep
(`LimitsAreLocked`).  The bound needs `Plain`, since `switchIdentity` stores without
a lock or a policy.  `UsersHaveOneSession` is the other half of
`auth_single_devices`: without devices all logins of a user share one lock and
one list, and the limit of that list is 1.

**Progress.** `RequestsDoNotLoop` is the half of `RequestsEnd` that needs no
fairness.  The program counters are put in an order (`Stage`); a step goes up in
it, or stays to try once more for the lock, of which there are `Retries`, or to
take one session off its list (`Ahead`).  The lists are subsets of the stored
sessions, of which there are finitely many (`ListsAreFinite`).  Nothing that other
requests or the environment do takes a request back (`RequestsGetOn`).  A request
that never ends would therefore stop at one step for ever; that it does not is
the fairness of `RequestsEnd`, and left to TLC.

**MemoryStore.** `CapacityInv` has the LRU Map be a strict total order of what is
stored (`IsOrder`: it needs transitivity, which no run checks), so there is a
least element to evict whenever there is one session too many, and the session
just touched is never it.  `EveryEntryHasItsTimer` is inductive with the types.
`TimelyInv`, for `NoEarlyExpiry`: a session timer with a handle is for the date the
session has, and one with a real date has its handle and runs in one segment;
the second half fails for longer ttls, which is the finding on segments in
section 3.

**RedisStore.** `Listed`: a session that is no orphan is in its indexes *and* none
of them expires before it, so that time takes the session first.  `ReachesAll`: of
the sessions a delete owes (alive when called, not written since, not orphaned),
all that are still alive are among the ids it read, have its device, and are
among those it found once it has looked.  `NoOrphansInv`: sessions have no more to live
than the one ttl, and an index gets that and `Slack` at every `set`, so no `set` or
`Tick` leaves an index with less time than a session in it; `delete` takes from the
indexes only the session it deletes.  So with no delete by user or device, no
renewal, one ttl and no broken `set`, the four causes are gone and so are orphans.

**OAuth2.** `GrantInv` gives the right to save the next pair of a family to one
holder: an unused refresh token, or one request that marked it
(`FamiliesAreChains`); and that to redeem a grant to the Map, one request or one
issued pair (`TakenIsSpent`, `TakenByOne`).  `PairInv` keeps drawn pairs apart, so
that what a request saves is nowhere yet.  For `LiveTokensAreRevocable` the only
strengthening is that the steps between GET and DEL, and between SMEMBERS and
DEL, are steps of the Redis store (`RedisStepsAreRedis`).  `RevokedFamiliesStayDead`
can fail when two requests overlap (`oauth2_revoked`); `LoneRequestsRevoke`
shows that the overlap is the only cause.  Its invariant `DeadInv` has the index
list every refresh token (`Indexed`), so that a revocation takes all of a family,
and no request under way for a family that was revoked (`Informed`).

**Limiters.** `LimitHolds` counts history, the code counts stamps.  The invariant
links them: a grant still within the window has its stamp in the store
(`GrantsAreStamped`; in Redis the stamp of its date, and the key's ttl outlives
it), so the grants of any window that ends now inject into the recent stamps,
of which there were fewer than `maxRequests` when the last was granted.

**Nonces.** `Remembered`: a nonce that was recorded is still stored, or its ttl is
over, or as many others were recorded since as the store holds.  A repetition
needs one of the latter two (`RepeatsComeLate`).

**Admission.** `RunOfBoth` shows that a run of the composition is a run of the
limiter and of the nonce store: no worker's date is older than `Late`
(`FlightInv`), so the dates it uses are among those the limiter allows for.  The
theorems of the parts carry over.  `MessageInv` follows a message past the guard:
what login or a worker at the limiter holds was signed, valid on arrival, and
recorded within `Late` of it (`MessagesAreKnown`), and no two of them hold one
receipt (`ReceiptsAreApart`).  `GuardedLoginsAreRecorded` is that, for logins;
`ReplaysNeedEarlyArrival` follows with `RepeatsComeLate`, since a nonce recorded
again was recorded again within the window.  For `WiredLimitsHold` the logins
that count in a window are no more than the grants dated in it
(`LoginsAreGranted`), in Redis each has the date of one (`LoginsAreDated`); this
has to survive a `clear` between grant and login, after which neither counts.

**Permissions.** From matching to inclusion by cases.  Back: the name that takes,
for each wildcard of the requirement, a segment other than the grant's is one
the requirement stands for; so the grant stands for it, and can do so only with
a wildcard in each of these places.

**Guards.** `GuardInv` says that what a request knows is still so: its token was
issued (`Located`), a ban it noted still lasts while it has not asked (`Asking`), a
login it noted as over is still over and the request has not read a session
(`Late`), its handler was granted (`Granted`).  `BansReachEveryEntry`, the other half
of `guard_ban`, needs only that a request under way came by an entry in use
(`EntriesAreCalled`).  That a login stays over is a fact
about all the others: nobody holds a copy of it to write back (`OverLasts`).
`SafeInv` adds that an opening which was taken back is in no session and in no
copy under way (`ShutIsGone`), so a request reads it only if its ttl ended in
the meantime, which the last check sees.  `CookieInv` follows the one request of a
browser that sends one at a time: until it has stored a new token the cookie is
good, from then on the new token is, and both are of one login (`Belongs`,
`Carries`).

## 5. What is only model-checked

- Liveness: `RequestsEnd`, `AbandonedLockIsFreed`, `ExpiredSessionsAreSwept`.  They
  need fairness and ENABLED, which the prover does not handle.  What they need
  besides is proved: `RequestsDoNotLoop` for the first; for the other two, that
  every lock entry and every session that expires has its timer
  (`TimersFollowEntries`, `EntriesHaveTimers`).
- The theorems with a hypothesis of their own (`Plain`, `NoCopies`, `LimitsAreLocked`,
  `EveryEntryAsks`, `TtlsFit`, `Alone`, and those written out in the theorem) say
  nothing outside it.  There the statement fails, or is about a setting that the
  code treats in another way: see the disagreements and the points on sessions
  and locks in section 3.
- The definitions marked MUTANT, and that the four violating runs violate.

## 6. What is not modelled, and why

- Bytes: token formats, JWT signatures and claims, PKCE and HMAC computations,
  password hashing, cookie attributes, URLs, i18n.  Cryptographic functions are
  taken to do what they should; a check by them is a choice between passing and
  failing.
- Of the configuration: the ranges of single numbers are one flag; options that
  are only passed through.
- Of `AuthService`: `switchAccount`, audit records, the queries.
- Of `RedisStore`: pipelines of deletes that break off.
- Audit: the library writes to it and never reads it back.  Persistence: adapters
  for the application's tables, which nothing under `src/auth` or `src/extras` calls.
- The microservice interceptor carries a token from call to call.  Third-party
  logins, SAML and the Passport bridge call outside services, parse what they
  answer and then call `login`.
- Of the nonce stores `has` and `set`, which nothing calls.
- Values of time: dates are ticks.  A clock that is set back is not modelled.
- More than one process before Redis: sessions, limits and nonces are shared by
  workers of one clock; clocks of two servers that differ are not modelled.

## 7. What is left

The plan was: locks, sessions of AuthService, session stores, OAuth2 server, then
the way of a request through signatures, limits and guards.  All of it is
modelled.  What would come next:

- `AuthService` over `RedisStore` in place of its atomic store, to see which of its
  promises survive the commands in between.
- A contract of the session stores with their callers in it.  A contract of the
  store alone says little: it has to allow a delete at any time, and then a timer
  that fires early looks like a caller.  What such a contract would promise is
  proved of each store as it stands: `NoTimerIsEarly`, `CapacityHolds`,
  `NewSessionsStay` and `SessionsAreListed`.
- Two servers with clocks that differ, for nonces and limits over Redis.

## 8. Running it

    tlc -workers 2 -config AuthService_mutual.cfg MCAuthService
    tlapm AuthServiceProofs.tla

`PROJECT.json` names the module and the configuration of every run.  The longest
runs (`auth_all`, `oauth2`, `redis_store`, `admission`, `request_guard`) take one to
four minutes with two workers, the others less.
