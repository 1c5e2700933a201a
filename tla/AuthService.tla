----------------------------- MODULE AuthService -----------------------------
(***************************************************************************)
(* AuthService: concurrent requests over one session store.  Every request *)
(* is cut at its awaits, each step being what runs between two of them,    *)
(* and the steps of different requests interleave.  A store call is one    *)
(* step, as it is in MemoryStore; a session may also expire or be evicted  *)
(* at any time.  createTime and session ids are drawn from one counter.    *)
(*                                                                         *)
(* Calls that change no session (validateToken, renewSession, the queries, *)
(* the blacklist) are not steps here; the audit call that ends a handler   *)
(* is part of its last step.                                               *)
(***************************************************************************)
EXTENDS Naturals, FiniteSets

CONSTANTS
    User, Device,
    NoDevice,        \* the device argument left out
    NoUser,          \* the user of an idle process
    Process,         \* concurrent requests
    Free, Dead,      \* nobody holds a lock; it stays, and its holder is gone
    Ops,             \* the handlers called in this instance
    Policy,          \* config.loginPolicy
    MaxSame,         \* config.maxSameDeviceSessions
    MultiAccount,    \* config.multiAccount.enabled
    MaxAccounts,     \* config.multiAccount.maxAccounts
    LockEnabled,     \* config.distributedLock.enabled and a lock service
    Retries,         \* config.distributedLock.retries
    RandomTokens,    \* RandomTokenStrategy (TRUE) or JwtStrategy (FALSE)
    DeletesByDevice, \* the store has deleteByUserIdAndDevice
    MayExpire,       \* sessions expire or are evicted
    MayFail,         \* calls of the store and the lock may throw
    MayCrash,        \* a process may die in the middle of a request
    LockMayExpire,   \* a login may outlast the ttl of its lock
    MaxCreated       \* BOUND: ids drawn

AllOps == {"login", "logout", "forceLogout", "kick", "switchIdentity",
           "rotate", "safeAuth"}

ASSUME AuthAssumption ==
    /\ NoDevice \notin Device /\ NoUser \notin User
    /\ Free \notin Process /\ Dead \notin Process /\ Free # Dead
    /\ IsFiniteSet(Process)
    /\ Ops \subseteq AllOps
    /\ Policy \in {"single", "multiple", "mutual-exclusion"}
    /\ MaxSame \in Nat \ {0} /\ MaxAccounts \in Nat /\ Retries \in Nat
    /\ {MultiAccount, LockEnabled, RandomTokens, DeletesByDevice, MayExpire,
        MayFail, MayCrash, LockMayExpire} \subseteq BOOLEAN
    /\ MaxCreated \in Nat

VARIABLES
    sessions,   \* the store: a set of sessions with distinct ids
    locks,      \* locks[k]: the process that holds k, Free or Dead
    req,        \* req[p]: the request p is serving
    created,    \* ids drawn so far
    opened,     \* history: the logins (createTime) that were stored
    ended       \* history: the logins whose session was ended

vars == <<sessions, locks, req, created, opened, ended>>

Place == Device \cup {NoDevice}
Key == User \X Place

\* ct is createTime: rotate copies it, so it names the login a session comes
\* from.
Ids == 1..MaxCreated
Session == [id : Ids, user : User, device : Place, ct : Ids]

PC == {"idle", "acquire", "policy", "evict", "accounts", "scan", "evictOwn",
       "generate", "store", "release", "verify", "delete", "kick", "get",
       "deleteOld"}

\* The locals of a handler that live across its awaits.
Request == [user : User \cup {NoUser}, device : Place,
            op : Ops \cup {"none"}, pc : PC,
            sid : 0..MaxCreated,       \* the session the request is about
            data : SUBSET Session,     \* the copy it read or the one it built
            todo : SUBSET Session,     \* listed sessions still to handle
            seen : SUBSET Session,     \* sessions a scan has got
            tries : Nat]

New(op, pc, u, d, i) ==
    [user |-> u, device |-> d, op |-> op, pc |-> pc, sid |-> i,
     data |-> {}, todo |-> {}, seen |-> {}, tries |-> 0]

ForUser(op, pc, u, d) == New(op, pc, u, d, 0)
ForSession(op, pc, i) == New(op, pc, NoUser, NoDevice, i)
Idle == New("none", "idle", NoUser, NoDevice, 0)

TypeOK ==
    /\ sessions \in SUBSET Session
    /\ locks \in [Key -> Process \cup {Free, Dead}]
    /\ req \in [Process -> Request]
    /\ created \in 0..MaxCreated
    /\ opened \in SUBSET Ids
    /\ ended \in SUBSET Ids

Init ==
    /\ sessions = {}
    /\ locks = [k \in Key |-> Free]
    /\ req = [p \in Process |-> Idle]
    /\ created = 0
    /\ opened = {}
    /\ ended = {}

------------------------------------------------------------------------------

OfUser(u) == {s \in sessions : s.user = u}
OnDevice(d) == {s \in sessions : s.device = d}
On(u, d) == {s \in sessions : s.user = u /\ s.device = d}
WithId(i) == {s \in sessions : s.id = i}

\* Sessions of S leave the store and their logins are over.
EndSessions(S) ==
    /\ sessions' = sessions \ S
    /\ ended' = ended \cup {s.ct : s \in S}

\* MUTANT of Overflows: S.length - maxSame, one too few.
OverflowsOneLess(S) ==
    IF Cardinality(S) <= MaxSame THEN {{}}
    ELSE {del \in SUBSET S :
            /\ Cardinality(S \ del) = MaxSame
            /\ \A s \in del, r \in S \ del : s.ct <= r.ct}

\* The sessions a login deletes from the list S to make room for one more:
\* the first S.length - maxSame + 1 in the order of createTime.
Overflows(S) ==
    IF Cardinality(S) < MaxSame THEN {{}}
    ELSE {del \in SUBSET S :
            /\ Cardinality(S \ del) = MaxSame - 1
            /\ \A s \in del, r \in S \ del : s.ct <= r.ct}

\* BOUND: a handler that will draw an id starts only while one is left for it.
BeforeGenerate == {"acquire", "policy", "evict", "accounts", "scan", "evictOwn",
                   "get", "generate"}
WillCreate == {p \in Process : /\ req[p].op \in {"login", "switchIdentity", "rotate"}
                               /\ req[p].pc \in BeforeGenerate}
Room == created + Cardinality(WillCreate) < MaxCreated

Goto(p, pc) == req' = [req EXCEPT ![p].pc = pc]
Finish(p) == req' = [req EXCEPT ![p] = Idle]
KeyOf(p) == <<req[p].user, req[p].device>>

------------------------------------------------------------------------------
\* Requests come in.

Begin(p, request) ==
    /\ req[p].pc = "idle"
    /\ request.op \in Ops
    /\ req' = [req EXCEPT ![p] = request]
    /\ UNCHANGED <<sessions, locks, created, opened, ended>>

BeginLogin(p, u, d) ==
    /\ Room
    /\ Begin(p, ForUser("login", IF LockEnabled THEN "acquire" ELSE "policy", u, d))

\* switchIdentity: u is the target user.
BeginSwitchIdentity(p, u, d) ==
    /\ Room
    /\ Begin(p, ForUser("switchIdentity", "generate", u, d))

BeginKick(p, u, d) == Begin(p, ForUser("kick", "kick", u, d))

\* The token of session i: a JWT is verified on the spot, a random token by a
\* look into the store.
BeginLogout(p, i) ==
    Begin(p, ForSession("logout", IF RandomTokens THEN "verify" ELSE "delete", i))

BeginForceLogout(p, i) == Begin(p, ForSession("forceLogout", "delete", i))

\* rotateToken: only the random token strategy can rotate.
BeginRotate(p, i) ==
    /\ RandomTokens
    /\ Room
    /\ Begin(p, ForSession("rotate", "get", i))

\* openSafeAuth and closeSafeAuth: the same steps, the flag they write apart.
BeginSafeAuth(p, i) == Begin(p, ForSession("safeAuth", "get", i))

------------------------------------------------------------------------------
\* login

\* MUTANT of Acquire: after the last retry the login goes on without the lock.
AcquireGivesWay(p) ==
    /\ req[p].pc = "acquire"
    /\ IF locks[KeyOf(p)] = Free
       THEN locks' = [locks EXCEPT ![KeyOf(p)] = p] /\ Goto(p, "policy")
       ELSE /\ IF req[p].tries < Retries
               THEN req' = [req EXCEPT ![p].tries = @ + 1]
               ELSE Goto(p, "policy")
            /\ UNCHANGED locks
    /\ UNCHANGED <<sessions, created, opened, ended>>

\* MUTANT of Acquire: the retries are not counted.
AcquireForEver(p) ==
    /\ req[p].pc = "acquire"
    /\ IF locks[KeyOf(p)] = Free
       THEN locks' = [locks EXCEPT ![KeyOf(p)] = p] /\ Goto(p, "policy")
       ELSE UNCHANGED <<locks, req>>
    /\ UNCHANGED <<sessions, created, opened, ended>>

\* MUTANT of Acquire: a lock that is held is taken.
AcquireHeld(p) ==
    /\ req[p].pc = "acquire"
    /\ locks' = [locks EXCEPT ![KeyOf(p)] = p]
    /\ Goto(p, "policy")
    /\ UNCHANGED <<sessions, created, opened, ended>>

\* acquireLockWithRetry: the lock, another try, or LOGIN_CONCURRENT_LIMIT.
Acquire(p) ==
    /\ req[p].pc = "acquire"
    /\ \/ /\ locks[KeyOf(p)] = Free
          /\ locks' = [locks EXCEPT ![KeyOf(p)] = p]
          /\ Goto(p, "policy")
       \/ /\ locks[KeyOf(p)] # Free
          /\ IF req[p].tries < Retries
             THEN req' = [req EXCEPT ![p].tries = @ + 1]
             ELSE Finish(p)
          /\ UNCHANGED locks
    /\ UNCHANGED <<sessions, created, opened, ended>>

\* handleMultiAccountLogin returns at once unless it is enabled.
AfterPolicy(d) == IF MultiAccount /\ d # NoDevice THEN "accounts" ELSE "generate"

\* loginPolicy over a store that lists by user and device, as both stores of the
\* repository do; the branches for stores that cannot are left out.
ApplyPolicy(p) ==
    /\ req[p].pc = "policy"
    /\ LET u == req[p].user
           d == req[p].device
       IN  \/ /\ Policy = "single"
              /\ EndSessions(OfUser(u))
              /\ Goto(p, AfterPolicy(d))
           \/ /\ Policy = "mutual-exclusion" /\ d # NoDevice
              /\ \E del \in Overflows(On(u, d)) :
                     req' = [req EXCEPT ![p].todo = del,
                                        ![p].pc = IF del = {} THEN AfterPolicy(d) ELSE "evict"]
              /\ UNCHANGED <<sessions, ended>>
           \/ /\ Policy = "multiple" \/ (Policy = "mutual-exclusion" /\ d = NoDevice)
              /\ Goto(p, AfterPolicy(d))
              /\ UNCHANGED <<sessions, ended>>
    /\ UNCHANGED <<locks, created, opened>>

\* The loops that delete the overflow, one awaited store.delete at a time.
EvictOldest(p) ==
    /\ req[p].pc \in {"evict", "evictOwn"}
    /\ \E s \in req[p].todo :
           /\ \A r \in req[p].todo : s.ct <= r.ct
           /\ EndSessions(WithId(s.id))
           /\ req' = [req EXCEPT
                  ![p].todo = @ \ {s},
                  ![p].pc = IF req[p].todo # {s} THEN @
                            ELSE IF @ = "evict" THEN AfterPolicy(req[p].device)
                            ELSE "generate"]
    /\ UNCHANGED <<locks, created, opened>>

ListDevice(p) ==
    /\ req[p].pc = "accounts"
    /\ req' = [req EXCEPT ![p].todo = OnDevice(req[p].device), ![p].pc = "scan"]
    /\ UNCHANGED <<sessions, locks, created, opened, ended>>

ScanSession(p) ==
    /\ req[p].pc = "scan"
    /\ \E s \in req[p].todo :
           req' = [req EXCEPT ![p].todo = @ \ {s}, ![p].seen = @ \cup WithId(s.id)]
    /\ UNCHANGED <<sessions, locks, created, opened, ended>>

\* The account limit (MULTI_ACCOUNT_LIMIT_EXCEEDED) and the user's own overflow.
DecideAccounts(p) ==
    /\ req[p].pc = "scan"
    /\ req[p].todo = {}
    /\ LET accounts == {s.user : s \in req[p].seen}
           own == {s \in req[p].seen : s.user = req[p].user}
       IN  IF req[p].user \notin accounts /\ Cardinality(accounts) >= MaxAccounts
           THEN Goto(p, "release")
           ELSE \E del \in Overflows(own) :
                    req' = [req EXCEPT ![p].todo = del,
                                       ![p].pc = IF del = {} THEN "generate" ELSE "evictOwn"]
    /\ UNCHANGED <<sessions, locks, created, opened, ended>>

\* MUTANT of Generate: the lock key is written as the device.
GenerateWrongDevice(p) ==
    /\ req[p].pc = "generate"
    /\ created < MaxCreated
    /\ created' = created + 1
    /\ req' = [req EXCEPT ![p].pc = "store",
                          ![p].data = {[id |-> created + 1, ct |-> created + 1,
                                        user |-> req[p].user, device |-> KeyOf(p)]}]
    /\ UNCHANGED <<sessions, locks, opened, ended>>

\* The id, the createTime and the token of the new session; for rotate, the
\* copy of the session it has read.
Generate(p) ==
    /\ req[p].pc = "generate"
    /\ created < MaxCreated  \* holds: Room kept an id
    /\ created' = created + 1
    /\ IF req[p].op = "rotate"
       THEN \E old \in req[p].data :
                req' = [req EXCEPT ![p].pc = "store",
                                   ![p].data = {[old EXCEPT !.id = created + 1]}]
       ELSE req' = [req EXCEPT ![p].pc = "store",
                               ![p].data = {[id |-> created + 1, ct |-> created + 1,
                                             user |-> req[p].user, device |-> req[p].device]}]
    /\ UNCHANGED <<sessions, locks, opened, ended>>

\* store.set: the copy is written whatever happened to the session meanwhile.
Store(p) ==
    /\ req[p].pc = "store"
    /\ \E s \in req[p].data :
           /\ sessions' = {r \in sessions : r.id # s.id} \cup {s}
           /\ opened' = IF req[p].op \in {"login", "switchIdentity"}
                        THEN opened \cup {s.ct} ELSE opened
    /\ CASE req[p].op = "login"  -> Goto(p, "release")
         [] req[p].op = "rotate" -> Goto(p, "deleteOld")
         [] OTHER -> Finish(p)
    /\ UNCHANGED <<locks, created, ended>>

\* The finally block of login: release looks at the token of the lock.
Release(p) ==
    /\ req[p].pc = "release"
    /\ locks' = [locks EXCEPT ![KeyOf(p)] = IF @ = p THEN Free ELSE @]
    /\ Finish(p)
    /\ UNCHANGED <<sessions, created, opened, ended>>

------------------------------------------------------------------------------
\* The other handlers.

Verify(p) ==
    /\ req[p].pc = "verify"
    /\ IF WithId(req[p].sid) = {} THEN Finish(p) ELSE Goto(p, "delete")
    /\ UNCHANGED <<sessions, locks, created, opened, ended>>

Delete(p) ==
    /\ req[p].pc = "delete"
    /\ EndSessions(WithId(req[p].sid))
    /\ Finish(p)
    /\ UNCHANGED <<locks, created, opened>>

\* kickUser: by device only if the store can, all sessions of the user if not.
Kick(p) ==
    /\ req[p].pc = "kick"
    /\ IF req[p].device # NoDevice /\ DeletesByDevice
       THEN EndSessions(On(req[p].user, req[p].device))
       ELSE EndSessions(OfUser(req[p].user))
    /\ Finish(p)
    /\ UNCHANGED <<locks, created, opened>>

\* MUTANT of Get: rotate deletes the old session before the copy is stored.
GetAndDelete(p) ==
    /\ req[p].pc = "get"
    /\ IF WithId(req[p].sid) = {}
       THEN Finish(p)
       ELSE req' = [req EXCEPT ![p].data = WithId(req[p].sid),
                               ![p].pc = IF req[p].op = "rotate" THEN "generate" ELSE "store"]
    /\ sessions' = IF req[p].op = "rotate" THEN sessions \ WithId(req[p].sid) ELSE sessions
    /\ UNCHANGED <<locks, created, opened, ended>>

\* The read of rotate and of open/closeSafeAuth; no session, no effect.
Get(p) ==
    /\ req[p].pc = "get"
    /\ IF WithId(req[p].sid) = {}
       THEN Finish(p)
       ELSE req' = [req EXCEPT ![p].data = WithId(req[p].sid),
                               ![p].pc = IF req[p].op = "rotate" THEN "generate" ELSE "store"]
    /\ UNCHANGED <<sessions, locks, created, opened, ended>>

\* rotate's delete of the old token: its login goes on under the new one.
DeleteOld(p) ==
    /\ req[p].pc = "deleteOld"
    /\ sessions' = sessions \ WithId(req[p].sid)
    /\ Finish(p)
    /\ UNCHANGED <<locks, created, opened, ended>>

------------------------------------------------------------------------------
\* What happens to requests, sessions and locks.

\* MUTANT of Fail: login has no finally block.
FailWithoutFinally(p) ==
    /\ MayFail
    /\ req[p].pc \notin {"idle", "release"}
    /\ Finish(p)
    /\ UNCHANGED <<sessions, locks, created, opened, ended>>

\* A call throws: login still runs its finally block once it has the lock, every
\* other handler is over.  (A store call that takes effect and then throws is its
\* step, followed by this one.)  A command of the lock may throw after acquire's ran
\* or before release's did: then the lock stays, without a holder.
Fail(p) ==
    /\ MayFail
    /\ \/ /\ req[p].pc \notin {"idle", "release"}
          /\ IF req[p].op = "login" /\ req[p].pc # "acquire"
             THEN Goto(p, "release") ELSE Finish(p)
          /\ UNCHANGED locks
       \/ /\ \/ req[p].pc = "acquire" /\ locks[KeyOf(p)] = Free
             \/ req[p].pc = "release" /\ locks[KeyOf(p)] = p
          /\ locks' = [locks EXCEPT ![KeyOf(p)] = Dead]
          /\ Finish(p)
    /\ UNCHANGED <<sessions, created, opened, ended>>

\* The process of the request dies: a lock it holds has no holder any more.
Crash(p) ==
    /\ MayCrash
    /\ req[p].pc # "idle"
    /\ locks' = [k \in Key |-> IF locks[k] = p THEN Dead ELSE locks[k]]
    /\ Finish(p)
    /\ UNCHANGED <<sessions, created, opened, ended>>

\* The ttl of a session is over, or the store is full and evicts it.
ExpireSession(s) ==
    /\ MayExpire
    /\ s \in sessions
    /\ EndSessions({s})
    /\ UNCHANGED <<locks, req, created, opened>>

\* The ttl of a lock runs out: of one nobody holds, or under a slow holder.
ExpireLock(k) ==
    /\ locks[k] # Free
    /\ locks[k] = Dead \/ LockMayExpire
    /\ locks' = [locks EXCEPT ![k] = Free]
    /\ UNCHANGED <<sessions, req, created, opened, ended>>

Arrive(p) ==
    \/ \E u \in User, d \in Place :
           BeginLogin(p, u, d) \/ BeginSwitchIdentity(p, u, d) \/ BeginKick(p, u, d)
    \/ \E i \in 1..created :
           BeginLogout(p, i) \/ BeginForceLogout(p, i) \/ BeginRotate(p, i) \/ BeginSafeAuth(p, i)

\* The next step of a request that is being served.
Step(p) ==
    \/ Acquire(p) \/ ApplyPolicy(p) \/ EvictOldest(p)
    \/ ListDevice(p) \/ ScanSession(p) \/ DecideAccounts(p)
    \/ Generate(p) \/ Store(p) \/ Release(p)
    \/ Verify(p) \/ Delete(p) \/ Kick(p) \/ Get(p) \/ DeleteOld(p)

Next ==
    \/ \E p \in Process : Arrive(p) \/ Step(p) \/ Fail(p) \/ Crash(p)
    \/ \E s \in sessions : ExpireSession(s)
    \/ \E k \in Key : ExpireLock(k)

Spec == Init /\ [][Next]_vars

\* The event loop resumes every handler whose awaited promise is settled.
FairSpec == Spec /\ \A p \in Process : WF_vars(Step(p))

------------------------------------------------------------------------------

\* Between acquire and the release in finally.
Critical(p) ==
    req[p].op = "login" /\ req[p].pc \notin {"idle", "acquire"}

\* Two logins of one user on one device never run their critical sections
\* together, whatever fails, crashes or gives up on the way.
LoginExclusion ==
    LockEnabled /\ ~LockMayExpire =>
        \A p, q \in Process :
            Critical(p) /\ Critical(q) /\ KeyOf(p) = KeyOf(q) => p = q

\* The lock of a key is held only by a login that is still going to release it:
\* refusals, failed store calls and retries leave none behind.
NoLeakedLock ==
    \A k \in Key : locks[k] \in Process =>
        Critical(locks[k]) /\ KeyOf(locks[k]) = k

\* The places where the policy limits the sessions of a user.
LimitedPlaces == CASE Policy = "single" -> Place
                   [] Policy = "mutual-exclusion" -> Device
                   [] OTHER -> {}

\* mutual-exclusion keeps at most maxSameDeviceSessions sessions per user and
\* device (usage.md:213), single at most one: concurrent logins do not add up.
Limit == IF Policy = "single" THEN 1 ELSE MaxSame

SameDeviceBound ==
    \A u \in User, d \in LimitedPlaces : Cardinality(On(u, d)) <= Limit

\* A session that was logged out, kicked, evicted or expired does not come
\* back, be it as a copy under another id.
NoResurrection == \A s \in sessions : s.ct \notin ended

\* Nor does one get lost: a login that was stored lives on under some id until
\* something ends it, whatever rotations and rewrites overlap.
NoLostSession == opened \subseteq ended \cup {s.ct : s \in sessions}

\* single keeps one session per user (usage.md:211, auth.service.ts:25).
SingleSession ==
    Policy = "single" => \A u \in User : Cardinality(OfUser(u)) <= 1

\* Every request ends: no lock, retry loop or eviction loop keeps it for ever.
RequestsEnd == \A p \in Process : req[p].pc # "idle" ~> req[p].pc = "idle"

Registry == INSTANCE SessionRegistry WITH
    Login <- Ids, Limited <- LimitedPlaces,
    live <- {[login |-> s.ct, user |-> s.user, place |-> s.device] : s \in sessions}

\* The service implements the registry: under the lock, a session is opened
\* once and only where there is room, and what is ended stays ended.
ImplementsRegistry == Registry!Spec

==============================================================================
