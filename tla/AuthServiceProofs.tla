-------------------------- MODULE AuthServiceProofs --------------------------
(***************************************************************************)
(* Proofs about AuthService, for any users, devices, processes and bounds: *)
(* its types, the exclusion of logins by the lock, that no session is      *)
(* lost, and that every step of a request gets it on.  When sessions are   *)
(* not copied, what was ended stays ended; under the lock, the limits hold *)
(* and AuthService implements SessionRegistry.                             *)
(***************************************************************************)
EXTENDS AuthService, Functions, FiniteSetTheorems, TLAPS

\* Where a login can be, and where only a login can be.
LoginPC == {"acquire", "policy", "evict", "accounts", "scan", "evictOwn",
            "generate", "store", "release"}
OnlyLoginPC == LoginPC \ {"generate", "store"}

\* A request is at a step of its own handler and names a user if it needs one.
WellFormed(r) ==
    /\ r.op \in {"login", "switchIdentity", "kick"} => r.user \in User
    /\ r.op = "login" => r.pc \in LoginPC
    /\ r.pc \in OnlyLoginPC => r.op = "login"
    /\ r.pc = "generate" => r.op \in {"login", "switchIdentity", "rotate"}
    /\ r.pc = "get" => r.op \in {"rotate", "safeAuth"}

RequestsWellFormed == \A p \in Process : WellFormed(req[p])

TypeInv == TypeOK /\ RequestsWellFormed

------------------------------------------------------------------------------
\* Types

\* A step of one request that gives it the value r.
LEMMA TypeStep ==
  ASSUME TypeInv, NEW p \in Process, NEW r \in Request, WellFormed(r),
         req' = [req EXCEPT ![p] = r],
         sessions' \in SUBSET Session,
         locks' \in [Key -> Process \cup {Free, Dead}],
         created' \in 0..MaxCreated, opened' \in SUBSET Ids, ended' \in SUBSET Ids
  PROVE  TypeInv'
  BY DEF TypeInv, TypeOK, RequestsWellFormed

LEMMA BoundsAreNaturals == MaxCreated \in Nat /\ MaxSame \in Nat \ {0}
  BY AuthAssumption

LEMMA IdleIsRequest == Idle \in Request /\ WellFormed(Idle)
  BY BoundsAreNaturals DEF Idle, New, Request, WellFormed, LoginPC, OnlyLoginPC, PC, Place

\* What a request looks like at its next step.
LEMMA PcStep ==
  ASSUME TypeInv, NEW p \in Process, NEW pc \in PC
  PROVE  /\ [req[p] EXCEPT !.pc = pc] \in Request
         /\ [req EXCEPT ![p].pc = pc] = [req EXCEPT ![p] = [req[p] EXCEPT !.pc = pc]]
  BY DEF TypeInv, TypeOK, Request

LEMMA EndSessionsType ==
  ASSUME TypeInv, NEW S \in SUBSET sessions, EndSessions(S)
  PROVE  sessions' \in SUBSET Session /\ ended' \in SUBSET Ids
  BY DEF TypeInv, TypeOK, EndSessions, Session

LEMMA BeginType ==
  ASSUME TypeInv, NEW p \in Process, NEW r \in Request, WellFormed(r), Begin(p, r)
  PROVE  TypeInv'
  BY TypeStep DEF Begin, TypeInv, TypeOK

\* The requests that can come in are well formed.
LEMMA RequestForUser ==
  ASSUME NEW op \in Ops, NEW pc \in PC, NEW u \in User, NEW d \in Place,
         op = "login" <=> pc \in {"acquire", "policy"},
         pc \in {"acquire", "policy", "generate", "kick"},
         pc = "generate" => op = "switchIdentity"
  PROVE  ForUser(op, pc, u, d) \in Request /\ WellFormed(ForUser(op, pc, u, d))
<1>1. ForUser(op, pc, u, d) \in Request
  BY BoundsAreNaturals DEF Request, ForUser, New
<1>2. WellFormed(ForUser(op, pc, u, d))
  BY DEF WellFormed, LoginPC, OnlyLoginPC, ForUser, New
<1> QED BY <1>1, <1>2

LEMMA RequestForSession ==
  ASSUME NEW op \in Ops, NEW pc \in PC, NEW i \in 0..MaxCreated,
         op \notin {"login", "switchIdentity", "kick"},
         pc \in {"verify", "delete", "get"},
         pc = "get" => op \in {"rotate", "safeAuth"}
  PROVE  ForSession(op, pc, i) \in Request /\ WellFormed(ForSession(op, pc, i))
<1>1. NoDevice \in Place
  BY DEF Place
<1>2. ForSession(op, pc, i) \in Request
  BY <1>1 DEF Request, ForSession, New
<1>3. WellFormed(ForSession(op, pc, i))
  BY DEF WellFormed, LoginPC, OnlyLoginPC, ForSession, New
<1> QED BY <1>2, <1>3

LEMMA ArriveType ==
  ASSUME TypeInv, NEW p \in Process, Arrive(p)
  PROVE  TypeInv'
<1>1. \A i \in 1..created : i \in 0..MaxCreated
  BY BoundsAreNaturals DEF TypeInv, TypeOK
<1>2. ASSUME NEW u \in User, NEW d \in Place, BeginLogin(p, u, d)
      PROVE  TypeInv'
  <2> DEFINE pc == IF LockEnabled THEN "acquire" ELSE "policy"
  <2>1. pc \in PC /\ pc \in {"acquire", "policy"} /\ "login" \in Ops
    BY <1>2 DEF BeginLogin, Begin, ForUser, New, PC
  <2> HIDE DEF pc
  <2>2. /\ ForUser("login", pc, u, d) \in Request
        /\ WellFormed(ForUser("login", pc, u, d))
    BY <2>1, RequestForUser
  <2>3. Begin(p, ForUser("login", pc, u, d))
    BY <1>2 DEF BeginLogin, pc
  <2> QED BY <2>2, <2>3, BeginType
<1>3. ASSUME NEW u \in User, NEW d \in Place, BeginSwitchIdentity(p, u, d)
      PROVE  TypeInv'
  <2>1. "switchIdentity" \in Ops
    BY <1>3 DEF BeginSwitchIdentity, Begin, ForUser, New
  <2> QED BY <1>3, <2>1, BeginType, RequestForUser DEF BeginSwitchIdentity, PC
<1>4. ASSUME NEW u \in User, NEW d \in Place, BeginKick(p, u, d)
      PROVE  TypeInv'
  <2>1. "kick" \in Ops
    BY <1>4 DEF BeginKick, Begin, ForUser, New
  <2> QED BY <1>4, <2>1, BeginType, RequestForUser DEF BeginKick, PC
<1>5. ASSUME NEW i \in 1..created, BeginLogout(p, i)
      PROVE  TypeInv'
  <2> DEFINE pc == IF RandomTokens THEN "verify" ELSE "delete"
  <2>1. pc \in PC /\ pc \in {"verify", "delete"} /\ "logout" \in Ops
    BY <1>5 DEF BeginLogout, Begin, ForSession, New, PC
  <2> HIDE DEF pc
  <2>2. /\ ForSession("logout", pc, i) \in Request
        /\ WellFormed(ForSession("logout", pc, i))
    BY <1>1, <2>1, RequestForSession
  <2>3. Begin(p, ForSession("logout", pc, i))
    BY <1>5 DEF BeginLogout, pc
  <2> QED BY <2>2, <2>3, BeginType
<1>6. ASSUME NEW i \in 1..created, BeginForceLogout(p, i)
      PROVE  TypeInv'
  <2>1. "forceLogout" \in Ops
    BY <1>6 DEF BeginForceLogout, Begin, ForSession, New
  <2> QED BY <1>1, <1>6, <2>1, BeginType, RequestForSession DEF BeginForceLogout, PC
<1>7. ASSUME NEW i \in 1..created, BeginRotate(p, i)
      PROVE  TypeInv'
  <2>1. "rotate" \in Ops
    BY <1>7 DEF BeginRotate, Begin, ForSession, New
  <2> QED BY <1>1, <1>7, <2>1, BeginType, RequestForSession DEF BeginRotate, PC
<1>8. ASSUME NEW i \in 1..created, BeginSafeAuth(p, i)
      PROVE  TypeInv'
  <2>1. "safeAuth" \in Ops
    BY <1>8 DEF BeginSafeAuth, Begin, ForSession, New
  <2> QED BY <1>1, <1>8, <2>1, BeginType, RequestForSession DEF BeginSafeAuth, PC
<1> QED BY <1>2, <1>3, <1>4, <1>5, <1>6, <1>7, <1>8 DEF Arrive

LEMMA AcquireType ==
  ASSUME TypeInv, NEW p \in Process, Acquire(p)
  PROVE  TypeInv'
<1>1. req[p] \in Request /\ WellFormed(req[p]) /\ req[p].op = "login"
  BY DEF TypeInv, TypeOK, RequestsWellFormed, WellFormed, OnlyLoginPC, LoginPC, Acquire
<1>2. CASE locks[KeyOf(p)] = Free
  <2> DEFINE r == [req[p] EXCEPT !.pc = "policy"]
  <2>1. r \in Request /\ WellFormed(r)
    BY <1>1 DEF Request, WellFormed, OnlyLoginPC, LoginPC, PC
  <2>2. req' = [req EXCEPT ![p] = r]
    BY <1>2 DEF Acquire, Goto
  <2>3. locks' \in [Key -> Process \cup {Free, Dead}]
    BY <1>2 DEF Acquire, TypeInv, TypeOK
  <2> QED BY <2>1, <2>2, <2>3, TypeStep DEF Acquire, TypeInv, TypeOK
<1>3. CASE locks[KeyOf(p)] # Free /\ req[p].tries < Retries
  <2> DEFINE r == [req[p] EXCEPT !.tries = @ + 1]
  <2>1. r \in Request /\ WellFormed(r)
    BY <1>1 DEF Request, WellFormed
  <2>2. req' = [req EXCEPT ![p] = r]
    BY <1>3 DEF Acquire
  <2> QED BY <1>3, <2>1, <2>2, TypeStep DEF Acquire, TypeInv, TypeOK
<1>4. CASE locks[KeyOf(p)] # Free /\ ~(req[p].tries < Retries)
  BY <1>4, IdleIsRequest, TypeStep DEF Acquire, Finish, TypeInv, TypeOK
<1> QED BY <1>2, <1>3, <1>4

LEMMA AfterPolicyStep ==
  ASSUME NEW d
  PROVE  AfterPolicy(d) \in {"accounts", "generate"}
  BY DEF AfterPolicy

LEMMA ApplyPolicyType ==
  ASSUME TypeInv, NEW p \in Process, ApplyPolicy(p)
  PROVE  TypeInv'
<1> DEFINE d == req[p].device
<1>1. req[p] \in Request /\ WellFormed(req[p]) /\ req[p].op = "login"
  BY DEF TypeInv, TypeOK, RequestsWellFormed, WellFormed, OnlyLoginPC, LoginPC, ApplyPolicy
<1>2. sessions' \in SUBSET Session /\ ended' \in SUBSET Ids
  <2>1. OfUser(req[p].user) \in SUBSET sessions
    BY DEF OfUser
  <2> QED BY <2>1, EndSessionsType DEF ApplyPolicy, TypeInv, TypeOK
<1>3. CASE req' = [req EXCEPT ![p].pc = AfterPolicy(d)]
  <2> DEFINE r == [req[p] EXCEPT !.pc = AfterPolicy(d)]
  <2>1. r \in Request /\ WellFormed(r)
    BY <1>1, AfterPolicyStep DEF Request, WellFormed, OnlyLoginPC, LoginPC, PC
  <2> QED BY <1>2, <1>3, <2>1, TypeStep DEF ApplyPolicy, TypeInv, TypeOK
<1>4. ASSUME NEW del \in Overflows(On(req[p].user, d)),
             req' = [req EXCEPT ![p].todo = del,
                                ![p].pc = IF del = {} THEN AfterPolicy(d) ELSE "evict"]
      PROVE  TypeInv'
  <2> DEFINE r == [req[p] EXCEPT !.todo = del,
                                 !.pc = IF del = {} THEN AfterPolicy(d) ELSE "evict"]
  <2>1. del \in SUBSET Session
    BY DEF Overflows, On, TypeInv, TypeOK
  <2>2. r \in Request /\ WellFormed(r)
    BY <1>1, <2>1, AfterPolicyStep DEF Request, WellFormed, OnlyLoginPC, LoginPC, PC
  <2>3. req' = [req EXCEPT ![p] = r]
    BY <1>4
  <2> QED BY <1>2, <2>2, <2>3, TypeStep DEF ApplyPolicy, TypeInv, TypeOK
<1> QED BY <1>3, <1>4 DEF ApplyPolicy, Goto

LEMMA EvictOldestType ==
  ASSUME TypeInv, NEW p \in Process, EvictOldest(p)
  PROVE  TypeInv'
<1>1. req[p] \in Request /\ WellFormed(req[p]) /\ req[p].op = "login"
  BY DEF TypeInv, TypeOK, RequestsWellFormed, WellFormed, OnlyLoginPC, LoginPC, EvictOldest
<1>2. PICK s \in req[p].todo :
           /\ EndSessions(WithId(s.id))
           /\ req' = [req EXCEPT
                  ![p].todo = @ \ {s},
                  ![p].pc = IF req[p].todo # {s} THEN @
                            ELSE IF @ = "evict" THEN AfterPolicy(req[p].device)
                            ELSE "generate"]
  BY DEF EvictOldest
<1> DEFINE pc == IF req[p].todo # {s} THEN req[p].pc
                 ELSE IF req[p].pc = "evict" THEN AfterPolicy(req[p].device)
                 ELSE "generate"
           r == [req[p] EXCEPT !.todo = @ \ {s}, !.pc = pc]
<1>3. pc \in LoginPC
  BY <1>1, AfterPolicyStep DEF LoginPC, WellFormed
<1>4. r \in Request /\ WellFormed(r)
  <2> HIDE DEF pc
  <2> QED BY <1>1, <1>3 DEF Request, WellFormed, OnlyLoginPC, LoginPC, PC
<1>5. req' = [req EXCEPT ![p] = r]
  BY <1>2 DEF TypeInv, TypeOK
<1>6. sessions' \in SUBSET Session /\ ended' \in SUBSET Ids
  BY <1>2, EndSessionsType DEF WithId
<1> QED BY <1>4, <1>5, <1>6, TypeStep DEF EvictOldest, TypeInv, TypeOK

LEMMA ScanType ==
  ASSUME TypeInv, NEW p \in Process,
         ListDevice(p) \/ ScanSession(p) \/ DecideAccounts(p)
  PROVE  TypeInv'
<1>1. req[p] \in Request /\ WellFormed(req[p]) /\ req[p].op = "login"
  BY DEF TypeInv, TypeOK, RequestsWellFormed, WellFormed, OnlyLoginPC, LoginPC,
         ListDevice, ScanSession, DecideAccounts
<1>2. /\ sessions' \in SUBSET Session /\ locks' \in [Key -> Process \cup {Free, Dead}]
      /\ created' \in 0..MaxCreated /\ opened' \in SUBSET Ids /\ ended' \in SUBSET Ids
  BY DEF TypeInv, TypeOK, ListDevice, ScanSession, DecideAccounts
<1>3. CASE ListDevice(p)
  <2> DEFINE r == [req[p] EXCEPT !.todo = OnDevice(req[p].device), !.pc = "scan"]
  <2>1. OnDevice(req[p].device) \in SUBSET Session
    BY DEF OnDevice, TypeInv, TypeOK
  <2>2. r \in Request /\ WellFormed(r)
    BY <1>1, <2>1 DEF Request, WellFormed, OnlyLoginPC, LoginPC, PC
  <2>3. req' = [req EXCEPT ![p] = r]
    BY <1>3 DEF ListDevice
  <2> QED BY <1>2, <2>2, <2>3, TypeStep
<1>4. CASE ScanSession(p)
  <2>1. PICK s \in req[p].todo :
            req' = [req EXCEPT ![p].todo = @ \ {s}, ![p].seen = @ \cup WithId(s.id)]
    BY <1>4 DEF ScanSession
  <2> DEFINE r == [req[p] EXCEPT !.todo = @ \ {s}, !.seen = @ \cup WithId(s.id)]
  <2>2. WithId(s.id) \in SUBSET Session
    BY DEF WithId, TypeInv, TypeOK
  <2>3. r \in Request /\ WellFormed(r)
    BY <1>1, <2>2 DEF Request, WellFormed
  <2>4. req' = [req EXCEPT ![p] = r]
    BY <2>1
  <2> QED BY <1>2, <2>3, <2>4, TypeStep
<1>5. CASE DecideAccounts(p)
  <2>1. CASE req' = [req EXCEPT ![p].pc = "release"]
    <3> DEFINE r == [req[p] EXCEPT !.pc = "release"]
    <3>1. r \in Request /\ WellFormed(r)
      BY <1>1 DEF Request, WellFormed, OnlyLoginPC, LoginPC, PC
    <3> QED BY <1>2, <2>1, <3>1, TypeStep
  <2>2. ASSUME NEW del \in SUBSET req[p].seen,
               req' = [req EXCEPT ![p].todo = del,
                                  ![p].pc = IF del = {} THEN "generate" ELSE "evictOwn"]
        PROVE  TypeInv'
    <3> DEFINE r == [req[p] EXCEPT !.todo = del,
                                   !.pc = IF del = {} THEN "generate" ELSE "evictOwn"]
    <3>1. r \in Request /\ WellFormed(r)
      BY <1>1 DEF Request, WellFormed, OnlyLoginPC, LoginPC, PC
    <3>2. req' = [req EXCEPT ![p] = r]
      BY <2>2
    <3> QED BY <1>2, <3>1, <3>2, TypeStep
  <2>3. \A del \in Overflows({s \in req[p].seen : s.user = req[p].user}) :
            del \in SUBSET req[p].seen
    BY DEF Overflows
  <2> QED BY <1>5, <2>1, <2>2, <2>3 DEF DecideAccounts, Goto
<1> QED BY <1>3, <1>4, <1>5

LEMMA GenerateType ==
  ASSUME TypeInv, NEW p \in Process, Generate(p)
  PROVE  TypeInv'
<1>1. /\ req[p] \in Request /\ WellFormed(req[p])
      /\ req[p].op \in {"login", "switchIdentity", "rotate"}
  BY DEF TypeInv, TypeOK, RequestsWellFormed, WellFormed, Generate
<1>2. created + 1 \in Ids /\ created' \in 0..MaxCreated
  <2>1. created < MaxCreated /\ created' = created + 1
    BY DEF Generate
  <2> QED BY <2>1, BoundsAreNaturals DEF TypeInv, TypeOK, Ids
<1>3. ASSUME NEW s \in Session,
             req' = [req EXCEPT ![p].pc = "store", ![p].data = {s}]
      PROVE  TypeInv'
  <2> DEFINE r == [req[p] EXCEPT !.pc = "store", !.data = {s}]
  <2>1. r \in Request /\ WellFormed(r)
    BY <1>1 DEF Request, WellFormed, OnlyLoginPC, LoginPC, PC
  <2>2. req' = [req EXCEPT ![p] = r]
    BY <1>3
  <2> QED BY <1>2, <2>1, <2>2, TypeStep DEF Generate, TypeInv, TypeOK
<1>4. CASE req[p].op = "rotate"
  <2>1. PICK old \in req[p].data :
          req' = [req EXCEPT ![p].pc = "store",
                    ![p].data = {[old EXCEPT !.id = created + 1]}]
    BY <1>4 DEF Generate
  <2>2. [old EXCEPT !.id = created + 1] \in Session
    BY <1>1, <1>2 DEF Request, Session
  <2> QED BY <1>3, <2>1, <2>2
<1>5. CASE req[p].op # "rotate"
  <2> DEFINE s == [id |-> created + 1, ct |-> created + 1, user |-> req[p].user,
                   device |-> req[p].device]
  <2>1. s \in Session
    BY <1>1, <1>2, <1>5 DEF Request, Session, WellFormed
  <2>2. req' = [req EXCEPT ![p].pc = "store", ![p].data = {s}]
    BY <1>5 DEF Generate
  <2> QED BY <1>3, <2>1, <2>2
<1> QED BY <1>4, <1>5

LEMMA StoreType ==
  ASSUME TypeInv, NEW p \in Process, Store(p)
  PROVE  TypeInv'
<1>1. req[p] \in Request /\ WellFormed(req[p])
  BY DEF TypeInv, TypeOK, RequestsWellFormed
<1>2. sessions' \in SUBSET Session /\ opened' \in SUBSET Ids
  BY <1>1 DEF Store, TypeInv, TypeOK, Request, Session
<1>3. /\ locks' \in [Key -> Process \cup {Free, Dead}]
      /\ created' \in 0..MaxCreated /\ ended' \in SUBSET Ids
  BY DEF Store, TypeInv, TypeOK
<1>4. CASE req' = [req EXCEPT ![p].pc = "release"] /\ req[p].op = "login"
  <2> DEFINE r == [req[p] EXCEPT !.pc = "release"]
  <2>1. r \in Request /\ WellFormed(r)
    BY <1>1, <1>4 DEF Request, WellFormed, OnlyLoginPC, LoginPC, PC
  <2> QED BY <1>2, <1>3, <1>4, <2>1, TypeStep
<1>5. CASE req' = [req EXCEPT ![p].pc = "deleteOld"] /\ req[p].op = "rotate"
  <2> DEFINE r == [req[p] EXCEPT !.pc = "deleteOld"]
  <2>1. r \in Request /\ WellFormed(r)
    BY <1>1, <1>5 DEF Request, WellFormed, OnlyLoginPC, LoginPC, PC
  <2> QED BY <1>2, <1>3, <1>5, <2>1, TypeStep
<1>6. CASE Finish(p)
  BY <1>2, <1>3, <1>6, IdleIsRequest, TypeStep DEF Finish
<1> QED BY <1>4, <1>5, <1>6 DEF Store, Goto

LEMMA ReleaseType ==
  ASSUME TypeInv, NEW p \in Process, Release(p)
  PROVE  TypeInv'
<1>1. locks' \in [Key -> Process \cup {Free, Dead}]
  BY DEF Release, TypeInv, TypeOK
<1> QED BY <1>1, IdleIsRequest, TypeStep DEF Release, Finish, TypeInv, TypeOK

LEMMA EndingType ==
  ASSUME TypeInv, NEW p \in Process,
         Verify(p) \/ Delete(p) \/ Kick(p) \/ DeleteOld(p)
  PROVE  TypeInv'
<1>1. CASE Verify(p)
  <2>1. CASE Finish(p)
    BY <1>1, <2>1, IdleIsRequest, TypeStep DEF Verify, Finish, TypeInv, TypeOK
  <2>2. CASE Goto(p, "delete")
    <3> DEFINE r == [req[p] EXCEPT !.pc = "delete"]
    <3>1. req[p] \in Request /\ WellFormed(req[p]) /\ req[p].pc = "verify"
      BY <1>1 DEF TypeInv, TypeOK, RequestsWellFormed, Verify
    <3>2. r \in Request /\ WellFormed(r)
      BY <3>1 DEF Request, WellFormed, OnlyLoginPC, LoginPC, PC
    <3> QED BY <1>1, <2>2, <3>2, TypeStep DEF Verify, Goto, TypeInv, TypeOK
  <2> QED BY <1>1, <2>1, <2>2 DEF Verify
<1>2. CASE Delete(p) \/ Kick(p)
  <2>1. sessions' \in SUBSET Session /\ ended' \in SUBSET Ids
    <3>1. /\ WithId(req[p].sid) \in SUBSET sessions
          /\ OfUser(req[p].user) \in SUBSET sessions
          /\ On(req[p].user, req[p].device) \in SUBSET sessions
      BY DEF WithId, OfUser, On
    <3> QED BY <1>2, <3>1, EndSessionsType DEF Delete, Kick
  <2> QED BY <1>2, <2>1, IdleIsRequest, TypeStep DEF Delete, Kick, Finish, TypeInv, TypeOK
<1>3. CASE DeleteOld(p)
  BY <1>3, IdleIsRequest, TypeStep DEF DeleteOld, Finish, TypeInv, TypeOK
<1> QED BY <1>1, <1>2, <1>3

LEMMA GetType ==
  ASSUME TypeInv, NEW p \in Process, Get(p)
  PROVE  TypeInv'
<1>1. CASE Finish(p)
  BY <1>1, IdleIsRequest, TypeStep DEF Get, Finish, TypeInv, TypeOK
<1>2. CASE WithId(req[p].sid) # {}
  <2> DEFINE copy == WithId(req[p].sid)
             pc == IF req[p].op = "rotate" THEN "generate" ELSE "store"
             r == [req[p] EXCEPT !.data = copy, !.pc = pc]
  <2>1. /\ req[p] \in Request /\ WellFormed(req[p])
        /\ req[p].op \in {"rotate", "safeAuth"}
    BY DEF Get, TypeInv, TypeOK, RequestsWellFormed, WellFormed
  <2>2. copy \in SUBSET Session
    BY DEF TypeInv, TypeOK, Session, WithId
  <2>3. pc \in {"generate", "store"} /\ (pc = "generate" => req[p].op = "rotate")
    OBVIOUS
  <2>4. r \in Request /\ WellFormed(r)
    <3> HIDE DEF copy, pc
    <3> QED BY <2>1, <2>2, <2>3 DEF Request, WellFormed, OnlyLoginPC, LoginPC, PC
  <2>5. req' = [req EXCEPT ![p] = r]
    BY <1>2 DEF Get
  <2> QED BY <2>4, <2>5, TypeStep DEF Get, TypeInv, TypeOK
<1> QED BY <1>1, <1>2 DEF Get

LEMMA FailureType ==
  ASSUME TypeInv, NEW p \in Process, Fail(p) \/ Crash(p)
  PROVE  TypeInv'
<1>1. CASE Fail(p) /\ Goto(p, "release") /\ req[p].op = "login"
  <2> DEFINE r == [req[p] EXCEPT !.pc = "release"]
  <2>1. req[p] \in Request /\ WellFormed(req[p])
    BY DEF TypeInv, TypeOK, RequestsWellFormed
  <2>2. r \in Request /\ WellFormed(r)
    BY <1>1, <2>1 DEF Request, WellFormed, OnlyLoginPC, LoginPC, PC
  <2> QED BY <1>1, <2>2, TypeStep DEF Fail, Goto, TypeInv, TypeOK
<1>2. CASE Fail(p) /\ Finish(p)
  BY <1>2, IdleIsRequest, TypeStep DEF Fail, Finish, TypeInv, TypeOK
<1>3. CASE Crash(p)
  BY <1>3, IdleIsRequest, TypeStep DEF Crash, Finish, TypeInv, TypeOK
<1> QED BY <1>1, <1>2, <1>3 DEF Fail

LEMMA ExpiryType ==
  ASSUME TypeInv,
         (\E s \in sessions : ExpireSession(s)) \/ (\E k \in Key : ExpireLock(k))
  PROVE  TypeInv'
<1>1. ASSUME NEW s \in sessions, ExpireSession(s)
      PROVE  TypeInv'
  BY <1>1, EndSessionsType DEF ExpireSession, TypeInv, TypeOK, RequestsWellFormed
<1>2. ASSUME NEW k \in Key, ExpireLock(k)
      PROVE  TypeInv'
  BY <1>2 DEF ExpireLock, TypeInv, TypeOK, RequestsWellFormed
<1> QED BY <1>1, <1>2

LEMMA TypeInitially == Init => TypeInv
  BY IdleIsRequest, BoundsAreNaturals DEF Init, TypeInv, TypeOK, RequestsWellFormed

LEMMA TypePreserved == TypeInv /\ [Next]_vars => TypeInv'
<1> SUFFICES ASSUME TypeInv, [Next]_vars
             PROVE  TypeInv'
  OBVIOUS
<1>1. ASSUME NEW p \in Process, Step(p) PROVE TypeInv'
  BY <1>1, AcquireType, ApplyPolicyType, EvictOldestType, ScanType, GenerateType,
     StoreType, ReleaseType, EndingType, GetType DEF Step
<1>2. ASSUME NEW p \in Process, Arrive(p) \/ Fail(p) \/ Crash(p) PROVE TypeInv'
  BY <1>2, ArriveType, FailureType
<1>3. CASE UNCHANGED vars
  BY <1>3 DEF vars, TypeInv, TypeOK, RequestsWellFormed
<1> QED BY <1>1, <1>2, <1>3, ExpiryType DEF Next

LEMMA TypeInvariance == Spec => []TypeInv
  BY TypeInitially, TypePreserved, PTL DEF Spec

\* Every request stays at a step of its handler, with the locals it needs, and
\* the store holds sessions: for all handlers, policies and failures.
THEOREM TypeCorrect == Spec => []TypeOK
<1>1. TypeInv => TypeOK
  BY DEF TypeInv
<1> QED BY TypeInvariance, <1>1, PTL

------------------------------------------------------------------------------
\* The lock

\* A login in its critical section holds the lock of its key.
LockHeld ==
    LockEnabled /\ ~LockMayExpire =>
        \A p \in Process : Critical(p) => locks[KeyOf(p)] = p

LockInv == TypeInv /\ NoLeakedLock /\ LockHeld

CriticalPC == LoginPC \ {"acquire"}

\* What a step of p leaves alone: the other requests, and who and where p is.
Keeps(p) ==
    /\ \A q \in Process : q # p => req'[q] = req[q]
    /\ req'[p].op = req[p].op
    /\ req'[p].user = req[p].user
    /\ req'[p].device = req[p].device

LEMMA CriticalMeansLoginPC ==
  ASSUME TypeInv, NEW p \in Process
  PROVE  Critical(p) <=> req[p].op = "login" /\ req[p].pc \in CriticalPC
  BY DEF TypeInv, RequestsWellFormed, WellFormed, Critical, CriticalPC, LoginPC

LEMMA LoginStepKeeps ==
  ASSUME TypeInv, NEW p \in Process,
         \/ ApplyPolicy(p) \/ EvictOldest(p) \/ ListDevice(p) \/ ScanSession(p)
         \/ DecideAccounts(p)
  PROVE  /\ Keeps(p) /\ req[p].op = "login"
         /\ req[p].pc \in CriticalPC /\ req'[p].pc \in CriticalPC
         /\ locks' = locks /\ created' = created /\ opened' = opened
<1> USE DEF Keeps, CriticalPC, LoginPC, OnlyLoginPC
<1>1. /\ req \in [Process -> Request] /\ req[p] \in Request
      /\ req[p].pc \in OnlyLoginPC => req[p].op = "login"
  BY DEF TypeInv, TypeOK, RequestsWellFormed, WellFormed
<1>2. CASE ApplyPolicy(p)
  <2>1. req[p].pc = "policy" /\ locks' = locks /\ created' = created /\ opened' = opened
    BY <1>2 DEF ApplyPolicy
  <2>2. CASE req' = [req EXCEPT ![p].pc = AfterPolicy(req[p].device)]
    BY <1>1, <2>1, <2>2, AfterPolicyStep DEF Request
  <2>3. ASSUME NEW del,
               req' = [req EXCEPT ![p].todo = del,
                          ![p].pc = IF del = {} THEN AfterPolicy(req[p].device) ELSE "evict"]
        PROVE  Keeps(p) /\ req'[p].pc \in CriticalPC
    BY <1>1, <2>1, <2>3, AfterPolicyStep DEF Request
  <2> QED BY <1>1, <1>2, <2>1, <2>2, <2>3 DEF ApplyPolicy, Goto
<1>3. CASE EvictOldest(p)
  <2>1. req[p].pc \in {"evict", "evictOwn"} /\ locks' = locks /\ created' = created
        /\ opened' = opened
    BY <1>3 DEF EvictOldest
  <2>2. PICK s \in req[p].todo :
             req' = [req EXCEPT
                  ![p].todo = @ \ {s},
                  ![p].pc = IF req[p].todo # {s} THEN @
                            ELSE IF @ = "evict" THEN AfterPolicy(req[p].device)
                            ELSE "generate"]
    BY <1>3 DEF EvictOldest
  <2> QED BY <1>1, <2>1, <2>2, AfterPolicyStep DEF Request
<1>4. CASE ListDevice(p)
  BY <1>1, <1>4 DEF ListDevice, Request
<1>5. CASE ScanSession(p)
  <2>1. /\ req[p].pc = "scan" /\ locks' = locks /\ created' = created /\ opened' = opened
    BY <1>5 DEF ScanSession
  <2>2. PICK s \in req[p].todo :
            req' = [req EXCEPT ![p].todo = @ \ {s}, ![p].seen = @ \cup WithId(s.id)]
    BY <1>5 DEF ScanSession
  <2> QED BY <1>1, <2>1, <2>2 DEF Request
<1>6. CASE DecideAccounts(p)
  <2>1. /\ req[p].pc = "scan" /\ locks' = locks /\ created' = created /\ opened' = opened
    BY <1>6 DEF DecideAccounts
  <2>2. CASE req' = [req EXCEPT ![p].pc = "release"]
    BY <1>1, <2>1, <2>2 DEF Request
  <2>3. ASSUME NEW del,
               req' = [req EXCEPT ![p].todo = del,
                          ![p].pc = IF del = {} THEN "generate" ELSE "evictOwn"]
        PROVE  Keeps(p) /\ req'[p].pc \in CriticalPC
    BY <1>1, <2>1, <2>3 DEF Request
  <2> QED BY <1>1, <1>6, <2>1, <2>2, <2>3 DEF DecideAccounts, Goto
<1> QED BY <1>2, <1>3, <1>4, <1>5, <1>6

LEMMA GenerateKeeps ==
  ASSUME TypeInv, NEW p \in Process, Generate(p)
  PROVE  /\ Keeps(p) /\ req[p].pc = "generate" /\ req'[p].pc = "store" /\ locks' = locks
         /\ sessions' = sessions /\ ended' = ended
<1>1. req \in [Process -> Request]
  BY DEF TypeInv, TypeOK
<1>2. /\ req[p].pc = "generate" /\ locks' = locks
      /\ sessions' = sessions /\ ended' = ended
  BY DEF Generate
<1>3. \E data : req' = [req EXCEPT ![p].pc = "store", ![p].data = data]
  <2>1. CASE req[p].op = "rotate"
    BY <2>1 DEF Generate
  <2>2. CASE req[p].op # "rotate"
    BY <2>2 DEF Generate
  <2> QED BY <2>1, <2>2
<1>4. PICK data : req' = [req EXCEPT ![p].pc = "store", ![p].data = data]
  BY <1>3
<1>5. Keeps(p) /\ req'[p].pc = "store"
  BY <1>1, <1>4 DEF Keeps, Request
<1> QED BY <1>2, <1>5

LEMMA StoreKeeps ==
  ASSUME TypeInv, NEW p \in Process, Store(p)
  PROVE  /\ \A q \in Process : q # p => req'[q] = req[q]
         /\ req[p].pc = "store" /\ locks' = locks
         /\ \/ req[p].op = "login" /\ Keeps(p) /\ req'[p].pc = "release"
            \/ req[p].op # "login" /\ req'[p].op # "login"
<1>1. req \in [Process -> Request] /\ req[p] \in Request
  BY DEF TypeInv, TypeOK
<1>2. \/ req[p].op = "login" /\ req' = [req EXCEPT ![p].pc = "release"]
      \/ req[p].op # "login" /\ req' = [req EXCEPT ![p].pc = "deleteOld"]
      \/ req[p].op # "login" /\ req' = [req EXCEPT ![p] = Idle]
  BY DEF Store, Goto, Finish
<1>3. req[p].pc = "store" /\ locks' = locks
  BY DEF Store
<1> QED BY <1>1, <1>2, <1>3 DEF Keeps, Request, Idle, New

\* A step outside the lock service.
LEMMA QuietStep ==
  ASSUME LockInv, TypeInv', NEW p \in Process, locks' = locks,
         \A q \in Process : q # p => req'[q] = req[q],
         \/ Keeps(p) /\ req[p].pc \in CriticalPC /\ req'[p].pc \in CriticalPC
         \/ ~Critical(p) /\ ~Critical(p)'
  PROVE  LockInv'
<1>1. \A q \in Process : Critical(q)' <=> Critical(q)
  BY DEF Critical, Keeps, CriticalPC, LoginPC
<1>2. \A q \in Process : Critical(q) => KeyOf(q)' = KeyOf(q)
  BY DEF Keeps, KeyOf
<1>3. NoLeakedLock'
  BY <1>1, <1>2 DEF LockInv, NoLeakedLock
<1>4. LockHeld'
  BY <1>1, <1>2 DEF LockInv, LockHeld
<1> QED BY <1>3, <1>4 DEF LockInv

LEMMA LockNames == Free \notin Process /\ Dead \notin Process
  BY AuthAssumption

LEMMA ArriveKeepsOthers ==
  ASSUME TypeInv, NEW p \in Process, Arrive(p)
  PROVE  /\ \A q \in Process : q # p => req'[q] = req[q]
         /\ req[p].pc = "idle"
         /\ LockEnabled => ~Critical(p)'
         /\ UNCHANGED <<sessions, locks, created, opened, ended>>
<1>1. req \in [Process -> Request]
  BY DEF TypeInv, TypeOK
<1>2. ASSUME NEW r, Begin(p, r)
      PROVE  /\ \A q \in Process : q # p => req'[q] = req[q]
             /\ req[p].pc = "idle" /\ req'[p] = r
             /\ UNCHANGED <<sessions, locks, created, opened, ended>>
  BY <1>1, <1>2 DEF Begin
<1>3. ASSUME NEW u \in User, NEW d \in Place, BeginLogin(p, u, d)
      PROVE  \E r : Begin(p, r) /\ (LockEnabled => r.pc = "acquire")
  BY <1>3 DEF BeginLogin, ForUser, New
<1>4. ASSUME NEW u \in User, NEW d \in Place, BeginSwitchIdentity(p, u, d) \/ BeginKick(p, u, d)
      PROVE  \E r : Begin(p, r) /\ r.op # "login"
  BY <1>4 DEF BeginSwitchIdentity, BeginKick, ForUser, New
<1>5. ASSUME NEW i \in 1..created, \/ BeginLogout(p, i) \/ BeginForceLogout(p, i)
                                    \/ BeginRotate(p, i) \/ BeginSafeAuth(p, i)
      PROVE  \E r : Begin(p, r) /\ r.op # "login"
  BY <1>5 DEF BeginLogout, BeginForceLogout, BeginRotate, BeginSafeAuth, ForSession, New
<1>6. \E r : Begin(p, r) /\ (LockEnabled => r.pc = "acquire" \/ r.op # "login")
  BY <1>3, <1>4, <1>5 DEF Arrive
<1> QED BY <1>2, <1>6 DEF Critical

LEMMA LockInitially == Init => LockInv
  BY TypeInitially, LockNames
  DEF Init, LockInv, NoLeakedLock, LockHeld, Critical, Idle, New

LEMMA AcquireLocks ==
  ASSUME LockInv, TypeInv', NEW p \in Process, Acquire(p)
  PROVE  LockInv'
<1>1. /\ req \in [Process -> Request] /\ req[p] \in Request /\ req[p].op = "login"
      /\ KeyOf(p) \in Key /\ req[p].pc = "acquire" /\ locks \in [Key -> Process \cup {Free, Dead}]
  BY DEF LockInv, TypeInv, TypeOK, RequestsWellFormed, WellFormed, OnlyLoginPC, LoginPC,
         Acquire, KeyOf, Key, Request
<1>2. CASE locks[KeyOf(p)] = Free
  <2>1. /\ req' = [req EXCEPT ![p].pc = "policy"]
        /\ locks' = [locks EXCEPT ![KeyOf(p)] = p]
    BY <1>2, LockNames DEF Acquire, Goto
  <2>2. Keeps(p) /\ req'[p].pc = "policy"
    BY <1>1, <2>1 DEF Keeps, Request
  <2>3. \A q \in Process : KeyOf(q)' = KeyOf(q)
    BY <2>2 DEF Keeps, KeyOf
  <2>4. Critical(p)' /\ ~Critical(p) /\ \A q \in Process : q # p => (Critical(q)' <=> Critical(q))
    BY <1>1, <2>2 DEF Keeps, Critical
  <2>5. NoLeakedLock'
    BY <1>1, <2>1, <2>3, <2>4 DEF LockInv, NoLeakedLock
  <2>6. LockHeld'
    <3> SUFFICES ASSUME LockEnabled, ~LockMayExpire, NEW q \in Process, Critical(q)'
                 PROVE  locks'[KeyOf(q)] = q
      BY <2>3 DEF LockHeld
    <3>1. CASE q = p
      BY <1>1, <2>1, <3>1
    <3>2. CASE q # p
      <4>1. locks[KeyOf(q)] = q
        BY <2>4, <3>2 DEF LockInv, LockHeld
      <4>2. KeyOf(q) # KeyOf(p)
        BY <1>2, <4>1, LockNames
      <4> QED BY <1>1, <2>1, <4>1, <4>2
    <3> QED BY <3>1, <3>2
  <2> QED BY <2>5, <2>6 DEF LockInv
<1>3. CASE locks[KeyOf(p)] # Free
  <2>1. locks' = locks /\ \A q \in Process : q # p => req'[q] = req[q]
    BY <1>1, <1>3 DEF Acquire, Finish
  <2>2. req'[p].pc \in {"acquire", "idle"}
    BY <1>1, <1>3 DEF Acquire, Finish, Idle, New, Request
  <2> QED BY <1>1, <2>1, <2>2, QuietStep DEF Critical
<1> QED BY <1>2, <1>3

\* A request that is over, its lock first given back or left to its ttl.
LEMMA UnlockingStep ==
  ASSUME LockInv, TypeInv', NEW p \in Process, NEW v \in {Free, Dead},
         req' = [req EXCEPT ![p] = Idle],
         locks' = [k \in Key |-> IF locks[k] = p THEN v ELSE locks[k]]
  PROVE  LockInv'
<1>1. /\ req \in [Process -> Request] /\ locks \in [Key -> Process \cup {Free, Dead}]
  BY DEF LockInv, TypeInv, TypeOK
<1>2. \A q \in Process : q # p => (Critical(q)' <=> Critical(q)) /\ KeyOf(q)' = KeyOf(q)
  BY <1>1 DEF Critical, KeyOf
<1>3. ~Critical(p)'
  BY <1>1 DEF Critical, Idle, New
<1>4. NoLeakedLock'
  BY <1>1, <1>2, LockNames DEF LockInv, NoLeakedLock
<1>5. LockHeld'
  <2> SUFFICES ASSUME LockEnabled, ~LockMayExpire, NEW q \in Process, Critical(q)'
               PROVE  locks'[KeyOf(q)'] = q
    BY DEF LockHeld
  <2>1. q # p /\ locks[KeyOf(q)] = q /\ KeyOf(q)' = KeyOf(q)
    BY <1>2, <1>3 DEF LockInv, LockHeld
  <2>2. KeyOf(q) \in Key
    BY <2>1 DEF LockInv, TypeInv, TypeOK, RequestsWellFormed, WellFormed, Critical, KeyOf, Key, Request
  <2> QED BY <2>1, <2>2
<1> QED BY <1>4, <1>5 DEF LockInv

LEMMA ArriveKeepsLocks ==
  ASSUME LockInv, TypeInv', NEW p \in Process, Arrive(p)
  PROVE  LockInv'
<1>1. /\ \A q \in Process : q # p => req'[q] = req[q]
      /\ ~Critical(p) /\ (LockEnabled => ~Critical(p)') /\ locks' = locks
  BY ArriveKeepsOthers DEF LockInv, Critical
<1>2. \A q \in Process : q # p => (Critical(q)' <=> Critical(q)) /\ KeyOf(q)' = KeyOf(q)
  BY <1>1 DEF Critical, KeyOf
<1>3. NoLeakedLock'
  BY <1>1, <1>2 DEF LockInv, NoLeakedLock
<1>4. LockHeld'
  BY <1>1, <1>2 DEF LockInv, LockHeld
<1> QED BY <1>3, <1>4 DEF LockInv

LEMMA ReleaseUnlocks ==
  ASSUME LockInv, TypeInv', NEW p \in Process, Release(p)
  PROVE  LockInv'
<1>1. locks \in [Key -> Process \cup {Free, Dead}]
  BY DEF LockInv, TypeInv, TypeOK
<1>2. \A k \in Key : locks[k] = p => k = KeyOf(p)
  BY DEF LockInv, NoLeakedLock
<1>3. locks' = [k \in Key |-> IF locks[k] = p THEN Free ELSE locks[k]]
  BY <1>1, <1>2 DEF Release
<1> QED BY <1>3, UnlockingStep DEF Release, Finish

\* The command of acquire ran, but its answer never came.
LEMMA LostLockKeepsInv ==
  ASSUME LockInv, TypeInv', NEW p \in Process,
         ~Critical(p), locks[KeyOf(p)] = Free,
         req' = [req EXCEPT ![p] = Idle],
         locks' = [locks EXCEPT ![KeyOf(p)] = Dead]
  PROVE  LockInv'
<1>1. /\ req \in [Process -> Request] /\ locks \in [Key -> Process \cup {Free, Dead}]
  BY DEF LockInv, TypeInv, TypeOK
<1>2. \A q \in Process : q # p => (Critical(q)' <=> Critical(q)) /\ KeyOf(q)' = KeyOf(q)
  BY <1>1 DEF Critical, KeyOf
<1>3. ~Critical(p)'
  BY <1>1 DEF Critical, Idle, New
<1>4. \A k \in Key : locks'[k] \in Process => locks'[k] = locks[k] /\ locks[k] # p
  <2>1. ASSUME NEW k \in Key, locks'[k] \in Process PROVE locks'[k] = locks[k]
    BY <1>1, <2>1, LockNames
  <2>2. \A k \in Key : locks[k] # p
    BY DEF LockInv, NoLeakedLock
  <2> QED BY <2>1, <2>2
<1>5. NoLeakedLock'
  BY <1>2, <1>4 DEF LockInv, NoLeakedLock
<1>6. LockHeld'
  <2> SUFFICES ASSUME LockEnabled, ~LockMayExpire, NEW q \in Process, Critical(q)'
               PROVE  locks'[KeyOf(q)'] = q
    BY DEF LockHeld
  <2>1. q # p /\ locks[KeyOf(q)] = q /\ KeyOf(q)' = KeyOf(q)
    BY <1>2, <1>3 DEF LockInv, LockHeld
  <2>2. KeyOf(q) # KeyOf(p)
    BY <2>1, LockNames
  <2>3. KeyOf(q) \in Key
    BY <2>1 DEF LockInv, TypeInv, TypeOK, RequestsWellFormed, WellFormed, Critical, KeyOf, Key, Request
  <2> QED BY <1>1, <2>1, <2>2, <2>3
<1> QED BY <1>5, <1>6 DEF LockInv

LEMMA FailureKeepsLocks ==
  ASSUME LockInv, TypeInv', NEW p \in Process, Fail(p) \/ Crash(p)
  PROVE  LockInv'
<1>1. req \in [Process -> Request] /\ req[p] \in Request
  BY DEF LockInv, TypeInv, TypeOK
<1>2. CASE Crash(p)
  BY <1>2, UnlockingStep DEF Crash, Finish
<1>3. CASE Fail(p) /\ Critical(p) /\ locks' = locks /\ Goto(p, "release")
  <2>1. req' = [req EXCEPT ![p].pc = "release"] /\ locks' = locks
    BY <1>3 DEF Goto
  <2>2. req[p].pc \in CriticalPC /\ Keeps(p) /\ req'[p].pc \in CriticalPC
    BY <1>1, <1>3, <2>1, CriticalMeansLoginPC DEF LockInv, Keeps, Request, CriticalPC, LoginPC
  <2> QED BY <2>1, <2>2, QuietStep DEF Keeps
<1>4. CASE Fail(p) /\ ~Critical(p) /\ locks' = locks
  <2>1. req' = [req EXCEPT ![p] = Idle] /\ locks' = locks
    BY <1>4 DEF Fail, Critical, Finish
  <2> QED BY <1>1, <1>4, <2>1, QuietStep DEF Critical, Idle, New
<1>5. CASE /\ req[p].pc = "release" /\ locks[KeyOf(p)] = p
           /\ locks' = [locks EXCEPT ![KeyOf(p)] = Dead] /\ Finish(p)
  <2>1. locks \in [Key -> Process \cup {Free, Dead}]
    BY DEF LockInv, TypeInv, TypeOK
  <2>2. \A k \in Key : locks[k] = p => k = KeyOf(p)
    BY DEF LockInv, NoLeakedLock
  <2>3. locks' = [k \in Key |-> IF locks[k] = p THEN Dead ELSE locks[k]]
    BY <1>5, <2>1, <2>2
  <2> QED BY <1>5, <2>3, UnlockingStep DEF Finish
<1>6. CASE /\ req[p].pc = "acquire" /\ locks[KeyOf(p)] = Free
           /\ locks' = [locks EXCEPT ![KeyOf(p)] = Dead] /\ Finish(p)
  <2>1. ~Critical(p) /\ req' = [req EXCEPT ![p] = Idle]
    BY <1>6 DEF Critical, Finish
  <2> QED BY <1>6, <2>1, LostLockKeepsInv
<1> QED BY <1>2, <1>3, <1>4, <1>5, <1>6 DEF Fail, Critical

LEMMA EndingKeepsLocks ==
  ASSUME LockInv, TypeInv', NEW p \in Process,
         Verify(p) \/ Delete(p) \/ Kick(p) \/ Get(p) \/ DeleteOld(p)
  PROVE  LockInv'
<1>1. /\ req \in [Process -> Request] /\ req[p] \in Request /\ ~Critical(p)
  BY DEF LockInv, TypeInv, TypeOK, RequestsWellFormed, WellFormed, LoginPC, Critical,
         Verify, Delete, Kick, Get, DeleteOld
<1>2. /\ locks' = locks
      /\ \/ req' = [req EXCEPT ![p] = Idle]
         \/ \E data, pc : req' = [req EXCEPT ![p].data = data, ![p].pc = pc]
         \/ req' = [req EXCEPT ![p].pc = "delete"]
  BY DEF Verify, Delete, Kick, Get, DeleteOld, Finish, Goto
<1>3. req[p].op # "login"
  BY DEF LockInv, TypeInv, RequestsWellFormed, WellFormed, LoginPC,
         Verify, Delete, Kick, Get, DeleteOld
<1>4. req'[p].op # "login" /\ \A q \in Process : q # p => req'[q] = req[q]
  <2>1. ASSUME NEW data, NEW pc, req' = [req EXCEPT ![p].data = data, ![p].pc = pc]
        PROVE  req'[p].op = req[p].op /\ \A q \in Process : q # p => req'[q] = req[q]
    BY <1>1, <2>1 DEF Request
  <2>2. CASE req' = [req EXCEPT ![p] = Idle]
    BY <1>1, <2>2 DEF Idle, New
  <2>3. CASE req' = [req EXCEPT ![p].pc = "delete"]
    BY <1>1, <1>3, <2>3 DEF Request
  <2> QED BY <1>2, <1>3, <2>1, <2>2, <2>3
<1> QED BY <1>1, <1>2, <1>4, QuietStep DEF Critical

LEMMA StepKeepsLocks ==
  ASSUME LockInv, TypeInv', NEW p \in Process, Step(p)
  PROVE  LockInv'
<1> USE DEF LockInv
<1>1. CASE \/ ApplyPolicy(p) \/ EvictOldest(p) \/ ListDevice(p) \/ ScanSession(p)
           \/ DecideAccounts(p)
  BY <1>1, LoginStepKeeps, QuietStep DEF Keeps
<1>2. CASE Generate(p)
  <2>1. /\ Keeps(p) /\ req[p].pc = "generate" /\ req'[p].pc = "store" /\ locks' = locks
    BY <1>2, GenerateKeeps
  <2> QED BY <2>1, QuietStep DEF Keeps, CriticalPC, LoginPC
<1>3. CASE Store(p)
  <2>1. CASE req[p].op = "login"
    BY <1>3, <2>1, StoreKeeps, QuietStep DEF CriticalPC, LoginPC
  <2>2. CASE req[p].op # "login"
    BY <1>3, <2>2, StoreKeeps, QuietStep DEF Critical
  <2> QED BY <2>1, <2>2
<1> QED BY <1>1, <1>2, <1>3, AcquireLocks, ReleaseUnlocks, EndingKeepsLocks DEF Step

LEMMA ExpiryKeepsLocks ==
  ASSUME LockInv, TypeInv',
         (\E s \in sessions : ExpireSession(s)) \/ (\E k \in Key : ExpireLock(k))
  PROVE  LockInv'
<1>1. ASSUME NEW s \in sessions, ExpireSession(s)
      PROVE  LockInv'
  BY <1>1 DEF LockInv, NoLeakedLock, LockHeld, Critical, KeyOf, ExpireSession
<1>2. ASSUME NEW k \in Key, ExpireLock(k)
      PROVE  LockInv'
  <2>1. /\ locks \in [Key -> Process \cup {Free, Dead}] /\ req' = req
        /\ locks' = [locks EXCEPT ![k] = Free] /\ (locks[k] = Dead \/ LockMayExpire)
    BY <1>2 DEF LockInv, TypeInv, TypeOK, ExpireLock
  <2>2. NoLeakedLock'
    BY <2>1, LockNames DEF LockInv, NoLeakedLock, Critical, KeyOf
  <2>3. LockHeld'
    BY <2>1, LockNames DEF LockInv, LockHeld, Critical, KeyOf
  <2> QED BY <2>2, <2>3 DEF LockInv
<1> QED BY <1>1, <1>2

LEMMA LockPreserved == LockInv /\ [Next]_vars => LockInv'
<1> SUFFICES ASSUME LockInv, [Next]_vars
             PROVE  LockInv'
  OBVIOUS
<1>1. TypeInv'
  BY TypePreserved DEF LockInv
<1>2. CASE UNCHANGED vars
  BY <1>1, <1>2 DEF vars, LockInv, NoLeakedLock, LockHeld, Critical, KeyOf
<1> QED BY <1>1, <1>2, ArriveKeepsLocks, StepKeepsLocks, FailureKeepsLocks,
           ExpiryKeepsLocks DEF Next

LEMMA LockInvariance == Spec => []LockInv
  BY LockInitially, LockPreserved, PTL DEF Spec

\* No handler leaves its lock behind, whatever fails or crashes.
THEOREM LocksAreReleased == Spec => []NoLeakedLock
<1>1. LockInv => NoLeakedLock
  BY DEF LockInv
<1> QED BY LockInvariance, <1>1, PTL

\* Logins of one user on one device never run their critical sections together.
THEOREM LoginsExclude == Spec => []LoginExclusion
<1>1. LockInv => LoginExclusion
  BY DEF LockInv, LockHeld, LoginExclusion
<1> QED BY LockInvariance, <1>1, PTL

------------------------------------------------------------------------------
\* Sessions end

Ends == \E S \in SUBSET sessions : EndSessions(S)

LEMMA NothingEnds ==
  ASSUME sessions' = sessions, ended' = ended
  PROVE  Ends
<1>1. EndSessions({})
  BY DEF EndSessions
<1> QED BY <1>1 DEF Ends

\* A login on its way to its session may end others, and does not store yet.
LEMMA LoginStepGoesOn ==
  ASSUME TypeInv, NEW p \in Process,
         \/ ApplyPolicy(p) \/ EvictOldest(p) \/ ListDevice(p) \/ ScanSession(p)
         \/ DecideAccounts(p)
  PROVE  Ends /\ req'[p].pc # "store" /\ req'[p].sid = req[p].sid
<1>1. Ends
  <2>1. CASE ApplyPolicy(p)
    <3>1. OfUser(req[p].user) \in SUBSET sessions
      BY DEF OfUser
    <3> QED BY <2>1, <3>1, NothingEnds DEF ApplyPolicy, Ends
  <2>2. CASE EvictOldest(p)
    <3>1. \A i : WithId(i) \in SUBSET sessions
      BY DEF WithId
    <3> QED BY <2>2, <3>1 DEF EvictOldest, Ends
  <2>3. CASE ListDevice(p) \/ ScanSession(p) \/ DecideAccounts(p)
    BY <2>3, NothingEnds DEF ListDevice, ScanSession, DecideAccounts
  <2> QED BY <2>1, <2>2, <2>3
<1>2. req'[p].pc # "store" /\ req'[p].sid = req[p].sid
  <2>1. req \in [Process -> Request] /\ req[p] \in Request
    BY DEF TypeInv, TypeOK
  <2>2. CASE ApplyPolicy(p)
    <3>1. CASE req' = [req EXCEPT ![p].pc = AfterPolicy(req[p].device)]
      BY <2>1, <3>1, AfterPolicyStep DEF Request
    <3>2. ASSUME NEW del, req' = [req EXCEPT ![p].todo = del,
                ![p].pc = IF del = {} THEN AfterPolicy(req[p].device) ELSE "evict"]
          PROVE  req'[p].pc # "store" /\ req'[p].sid = req[p].sid
      BY <2>1, <3>2, AfterPolicyStep DEF Request
    <3> QED BY <2>2, <3>1, <3>2 DEF ApplyPolicy, Goto
  <2>3. CASE EvictOldest(p)
    <3>1. PICK s \in req[p].todo : req' = [req EXCEPT
                  ![p].todo = @ \ {s},
                  ![p].pc = IF req[p].todo # {s} THEN @
                            ELSE IF @ = "evict" THEN AfterPolicy(req[p].device)
                            ELSE "generate"]
      BY <2>3 DEF EvictOldest
    <3>2. req[p].pc \in {"evict", "evictOwn"}
      BY <2>3 DEF EvictOldest
    <3> QED BY <2>1, <3>1, <3>2, AfterPolicyStep DEF Request
  <2>4. CASE ListDevice(p)
    BY <2>1, <2>4 DEF ListDevice, Request
  <2>5. CASE ScanSession(p)
    <3>1. PICK s \in req[p].todo :
              req' = [req EXCEPT ![p].todo = @ \ {s}, ![p].seen = @ \cup WithId(s.id)]
      BY <2>5 DEF ScanSession
    <3> QED BY <2>1, <2>5, <3>1 DEF ScanSession, Request
  <2>6. CASE DecideAccounts(p)
    <3>1. CASE req' = [req EXCEPT ![p].pc = "release"]
      BY <2>1, <3>1 DEF Request
    <3>2. ASSUME NEW del, req' = [req EXCEPT ![p].todo = del,
                          ![p].pc = IF del = {} THEN "generate" ELSE "evictOwn"]
          PROVE  req'[p].pc # "store" /\ req'[p].sid = req[p].sid
      BY <2>1, <3>2 DEF Request
    <3> QED BY <2>6, <3>1, <3>2 DEF DecideAccounts, Goto
  <2> QED BY <2>2, <2>3, <2>4, <2>5, <2>6
<1> QED BY <1>1, <1>2

------------------------------------------------------------------------------
\* No session is lost

\* The sessions a request has in hand: what it is about to store, and what rotate
\* has read.
InHand(p) ==
    {s \in req[p].data : req[p].pc = "store" \/ (req[p].pc = "generate" /\ req[p].op = "rotate")}

Copies == sessions \cup UNION {InHand(p) : p \in Process}

\* The login c goes on without its session i, or it is over.
GoesOnAfter(i, c) == c \in ended \/ \E t \in sessions : t.id > i /\ t.ct = c

\* rotate: the new id is later than the old one and of the same login, and once it
\* is stored the old one may go.
Rotating(p) ==
    /\ req[p].sid \in 0..created
    /\ req[p].pc = "generate" => \A t \in InHand(p) : t.id = req[p].sid
    /\ req[p].pc = "store" /\ req[p].op = "rotate" =>
           \A t \in req[p].data :
               /\ t.id > req[p].sid
               /\ \A s \in Copies : s.id = req[p].sid => s.ct = t.ct
    /\ req[p].pc = "deleteOld" =>
           \A s \in Copies : s.id = req[p].sid => GoesOnAfter(s.id, s.ct)

\* An id is drawn once, so all copies of a session are of one login.
LoginInv ==
    /\ \A s \in Copies : s.id <= created
    /\ \A s, t \in Copies : s.id = t.id => s.ct = t.ct
    /\ \A p \in Process : Rotating(p)
    /\ NoLostSession

\* Whatever leaves the store is over, or goes on under the same or a later id.
Survival ==
    /\ ended \subseteq ended'
    /\ \A s \in sessions :
           s.ct \in ended' \/ \E t \in sessions' : t.id >= s.id /\ t.ct = s.ct

LEMMA CopiesAreSessions ==
  ASSUME TypeInv
  PROVE  /\ Copies \subseteq Session /\ sessions \subseteq Copies /\ created \in Nat
         /\ \A p \in Process : InHand(p) \subseteq Copies
         /\ \A s \in Copies : s.id \in Nat
<1>1. \A p \in Process : InHand(p) \subseteq Session
  BY DEF InHand, TypeInv, TypeOK, Request
<1>2. Copies \subseteq Session
  BY <1>1 DEF Copies, TypeInv, TypeOK
<1>3. \A s \in Session : s.id \in Nat
  BY BoundsAreNaturals DEF Session, Ids
<1>4. created \in Nat
  BY BoundsAreNaturals DEF TypeInv, TypeOK
<1> QED BY <1>2, <1>3, <1>4 DEF Copies

LEMMA GoingOnLasts ==
  ASSUME TypeInv, TypeInv', Survival, NEW i \in Nat, NEW c, GoesOnAfter(i, c)
  PROVE  GoesOnAfter(i, c)'
<1>1. CASE c \in ended
  BY <1>1 DEF GoesOnAfter, Survival
<1>2. ASSUME NEW t \in sessions, t.id > i, t.ct = c PROVE GoesOnAfter(i, c)'
  <2>1. CASE c \in ended'
    BY <2>1 DEF GoesOnAfter
  <2>2. ASSUME NEW w \in sessions', w.id >= t.id, w.ct = t.ct PROVE GoesOnAfter(i, c)'
    <3>1. w.id \in Nat /\ t.id \in Nat
      BY CopiesAreSessions, BoundsAreNaturals DEF TypeInv, TypeOK, Session, Ids
    <3>2. w.id > i
      BY <1>2, <2>2, <3>1
    <3> QED BY <1>2, <2>2, <3>2 DEF GoesOnAfter
  <2> QED BY <1>2, <2>1, <2>2 DEF Survival
<1> QED BY <1>1, <1>2 DEF GoesOnAfter

\* A step that draws no id: copies are of what there was.
LEMMA CopyingStep ==
  ASSUME TypeInv, TypeInv', LoginInv, Survival, created' = created,
         \A s \in Copies' : \E t \in Copies : t.id = s.id /\ t.ct = s.ct,
         opened' \subseteq opened \cup {s.ct : s \in sessions'},
         \A q \in Process : req'[q] = req[q] \/ Rotating(q)'
  PROVE  LoginInv'
<1>1. \A s \in Copies' : s.id <= created'
  BY DEF LoginInv
<1>2. \A s, t \in Copies' : s.id = t.id => s.ct = t.ct
  BY DEF LoginInv
<1>3. ASSUME NEW q \in Process, req'[q] = req[q] PROVE Rotating(q)'
  <2>1. Rotating(q)
    BY DEF LoginInv
  <2>2. InHand(q)' = InHand(q)
    BY <1>3 DEF InHand
  <2>3. ASSUME req[q].pc = "deleteOld", NEW s \in Copies', s.id = req[q].sid
        PROVE  GoesOnAfter(s.id, s.ct)'
    <3>1. PICK t \in Copies : t.id = s.id /\ t.ct = s.ct
      OBVIOUS
    <3>2. GoesOnAfter(t.id, t.ct) /\ t.id \in Nat
      BY <2>1, <2>3, <3>1, CopiesAreSessions DEF Rotating
    <3> QED BY <3>1, <3>2, GoingOnLasts
  <2> QED BY <1>3, <2>1, <2>2, <2>3 DEF Rotating
<1>4. NoLostSession'
  <2> SUFFICES ASSUME NEW c \in opened' PROVE c \in ended' \cup {s.ct : s \in sessions'}
    BY DEF NoLostSession
  <2>1. CASE c \in {s.ct : s \in sessions'}
    BY <2>1
  <2>2. CASE c \in opened
    <3>1. c \in ended \/ \E s \in sessions : s.ct = c
      BY <2>2 DEF LoginInv, NoLostSession
    <3> QED BY <3>1 DEF Survival
  <2> QED BY <2>1, <2>2
<1> QED BY <1>1, <1>2, <1>3, <1>4 DEF LoginInv

\* A request that has no session in hand and no old one to delete.
Harmless(r) ==
    /\ r.pc \notin {"store", "deleteOld"}
    /\ r.pc = "generate" => r.op # "rotate"

LEMMA EmptyHanded ==
  ASSUME NEW p \in Process, Harmless(req[p])
  PROVE  InHand(p) = {}
  BY DEF Harmless, InHand

LEMMA HarmlessRotates ==
  ASSUME NEW p \in Process, Harmless(req[p]), req[p].sid \in 0..created
  PROVE  Rotating(p)
  BY EmptyHanded DEF Harmless, Rotating

\* Sessions end, and requests come, go or read on.
LEMMA HarmlessStep ==
  ASSUME TypeInv, TypeInv', LoginInv, Ends, created' = created, opened' = opened,
         \A q \in Process : \/ req'[q] = req[q]
                            \/ Harmless(req'[q]) /\ req'[q].sid \in 0..created
  PROVE  LoginInv'
<1>1. PICK S \in SUBSET sessions : sessions' = sessions \ S /\ ended' = ended \cup {s.ct : s \in S}
  BY DEF Ends, EndSessions
<1>2. Survival
  <2>1. \A s \in sessions : s.ct \in ended' \/ s \in sessions'
    BY <1>1
  <2>2. \A s \in sessions : s.id \in Nat
    BY CopiesAreSessions
  <2>3. \A s \in sessions : s.id >= s.id
    BY <2>2
  <2> QED BY <1>1, <2>1, <2>3 DEF Survival
<1>3. \A q \in Process : InHand(q)' \subseteq InHand(q)
  <2> SUFFICES ASSUME NEW q \in Process PROVE InHand(q)' \subseteq InHand(q)
    OBVIOUS
  <2>1. CASE req'[q] = req[q]
    BY <2>1 DEF InHand
  <2>2. CASE Harmless(req'[q])
    BY <2>2 DEF InHand, Harmless
  <2> QED BY <2>1, <2>2
<1>4. Copies' \subseteq Copies
  BY <1>1, <1>3 DEF Copies
<1>5. \A q \in Process : req'[q] = req[q] \/ Rotating(q)'
  BY DEF Harmless, Rotating, InHand
<1> QED BY <1>2, <1>4, <1>5, CopyingStep

LEMMA SidsWereDrawn ==
  ASSUME LoginInv, NEW p \in Process
  PROVE  req[p].sid \in 0..created
  BY DEF LoginInv, Rotating

LEMMA IdleIsHarmless ==
  ASSUME TypeInv
  PROVE  Harmless(Idle) /\ Idle.sid \in 0..created
  BY CopiesAreSessions DEF Harmless, Idle, New

LEMMA ArriveLosesNothing ==
  ASSUME TypeInv, TypeInv', LoginInv, NEW p \in Process, Arrive(p)
  PROVE  LoginInv'
<1>1. /\ \A q \in Process : q # p => req'[q] = req[q]
      /\ UNCHANGED <<sessions, locks, created, opened, ended>>
  BY ArriveKeepsOthers
<1>2. /\ req \in [Process -> Request] /\ created \in Nat
  BY CopiesAreSessions DEF TypeInv, TypeOK
<1>3. ASSUME NEW r, Begin(p, r), Harmless(r), r.sid \in 0..created
      PROVE  LoginInv'
  <2>1. req'[p] = r
    BY <1>2, <1>3 DEF Begin
  <2> QED BY <1>1, <1>3, <2>1, NothingEnds, HarmlessStep
<1>4. ASSUME NEW u \in User, NEW d \in Place,
             BeginLogin(p, u, d) \/ BeginSwitchIdentity(p, u, d) \/ BeginKick(p, u, d)
      PROVE  \E r : Begin(p, r) /\ Harmless(r) /\ r.sid \in 0..created
  BY <1>2, <1>4 DEF BeginLogin, BeginSwitchIdentity, BeginKick, ForUser, New, Harmless
<1>5. ASSUME NEW i \in 1..created, \/ BeginLogout(p, i) \/ BeginForceLogout(p, i)
                                    \/ BeginRotate(p, i) \/ BeginSafeAuth(p, i)
      PROVE  \E r : Begin(p, r) /\ Harmless(r) /\ r.sid \in 0..created
  BY <1>2, <1>5 DEF BeginLogout, BeginForceLogout, BeginRotate, BeginSafeAuth, ForSession, New,
     Harmless
<1> QED BY <1>3, <1>4, <1>5 DEF Arrive

LEMMA LoginStepLosesNothing ==
  ASSUME TypeInv, TypeInv', LoginInv, NEW p \in Process,
         \/ ApplyPolicy(p) \/ EvictOldest(p) \/ ListDevice(p) \/ ScanSession(p)
         \/ DecideAccounts(p)
  PROVE  LoginInv'
<1>1. /\ Keeps(p) /\ req[p].op = "login" /\ created' = created /\ opened' = opened
      /\ Ends /\ req'[p].pc # "store" /\ req'[p].sid = req[p].sid /\ req'[p].pc \in CriticalPC
  BY LoginStepKeeps, LoginStepGoesOn
<1>2. Harmless(req'[p]) /\ req'[p].sid \in 0..created
  BY <1>1, SidsWereDrawn DEF Harmless, Keeps, CriticalPC, LoginPC
<1> QED BY <1>1, <1>2, HarmlessStep DEF Keeps

LEMMA OtherStepLosesNothing ==
  ASSUME TypeInv, TypeInv', LoginInv, NEW p \in Process,
         \/ Acquire(p) \/ Release(p) \/ Verify(p) \/ Delete(p) \/ Kick(p)
         \/ Fail(p) \/ Crash(p)
  PROVE  LoginInv'
<1>1. req \in [Process -> Request] /\ req[p] \in Request
  BY DEF TypeInv, TypeOK
<1>2. created' = created /\ opened' = opened /\ Ends
  <2>1. CASE Delete(p) \/ Kick(p)
    <3>1. /\ WithId(req[p].sid) \in SUBSET sessions
          /\ OfUser(req[p].user) \in SUBSET sessions
          /\ On(req[p].user, req[p].device) \in SUBSET sessions
      BY DEF WithId, OfUser, On
    <3> QED BY <2>1, <3>1 DEF Delete, Kick, Ends
  <2>2. CASE Acquire(p) \/ Release(p) \/ Verify(p) \/ Fail(p) \/ Crash(p)
    BY <2>2, NothingEnds DEF Acquire, Release, Verify, Fail, Crash
  <2> QED BY <2>1, <2>2
<1>3. ASSUME NEW r, req' = [req EXCEPT ![p] = r], Harmless(r), r.sid \in 0..created
      PROVE  LoginInv'
  <2>1. req'[p] = r /\ \A q \in Process : q # p => req'[q] = req[q]
    BY <1>1, <1>3
  <2> QED BY <1>2, <1>3, <2>1, HarmlessStep
<1>4. CASE req' = [req EXCEPT ![p] = Idle]
  BY <1>3, <1>4, IdleIsHarmless
<1>5. ASSUME NEW pc \in {"policy", "release", "delete"}, req' = [req EXCEPT ![p].pc = pc]
      PROVE  LoginInv'
  <2> PICK r : r = [req[p] EXCEPT !.pc = pc]
    OBVIOUS
  <2>1. r.pc = pc /\ r.sid = req[p].sid
    BY <1>1 DEF Request
  <2>2. Harmless(r) /\ r.sid \in 0..created
    BY <2>1, SidsWereDrawn DEF Harmless
  <2> QED BY <1>3, <1>5, <2>2
<1>6. CASE Acquire(p) /\ req' = [req EXCEPT ![p].tries = @ + 1]
  <2> PICK r : r = [req[p] EXCEPT !.tries = @ + 1]
    OBVIOUS
  <2>1. r.pc = "acquire" /\ r.sid = req[p].sid
    BY <1>1, <1>6 DEF Request, Acquire
  <2>2. Harmless(r) /\ r.sid \in 0..created
    BY <2>1, SidsWereDrawn DEF Harmless
  <2>3. req' = [req EXCEPT ![p] = r]
    BY <1>6
  <2> QED BY <1>3, <2>2, <2>3
<1> QED BY <1>4, <1>5, <1>6
        DEF Acquire, Release, Verify, Delete, Kick, Fail, Crash, Finish, Goto

\* rotate and safeAuth read a session: what they get is a copy of one in the store.
LEMMA GetLosesNothing ==
  ASSUME TypeInv, TypeInv', LoginInv, NEW p \in Process, Get(p)
  PROVE  LoginInv'
<1>1. /\ req \in [Process -> Request] /\ req[p] \in Request
      /\ UNCHANGED <<sessions, created, opened, ended>>
      /\ req[p].op \in {"rotate", "safeAuth"}
  BY DEF Get, TypeInv, TypeOK, RequestsWellFormed, WellFormed
<1>2. CASE req' = [req EXCEPT ![p] = Idle]
  <2>1. \A q \in Process : \/ req'[q] = req[q]
                           \/ Harmless(req'[q]) /\ req'[q].sid \in 0..created
    BY <1>1, <1>2, IdleIsHarmless
  <2> QED BY <1>1, <2>1, NothingEnds, HarmlessStep
<1>3. CASE WithId(req[p].sid) # {}
  <2> DEFINE copy == WithId(req[p].sid)
             pc == IF req[p].op = "rotate" THEN "generate" ELSE "store"
  <2>1. \A t \in copy : t.id = req[p].sid /\ \E s \in sessions : s.id = t.id /\ s.ct = t.ct
    BY DEF WithId, TypeInv, TypeOK, Session
  <2>2. req' = [req EXCEPT ![p].data = copy, ![p].pc = pc]
    BY <1>3 DEF Get
  <2>3. pc \in {"generate", "store"} /\ (pc = "store" => req[p].op # "rotate")
    OBVIOUS
  <2> HIDE DEF copy, pc
  <2>4. /\ req'[p].data = copy /\ req'[p].pc = pc /\ req'[p].op = req[p].op
        /\ req'[p].sid = req[p].sid /\ \A q \in Process : q # p => req'[q] = req[q]
    BY <1>1, <2>2 DEF Request
  <2>5. InHand(p)' \subseteq copy
    BY <2>4 DEF InHand
  <2>6. ASSUME NEW s \in Copies' PROVE \E t \in Copies : t.id = s.id /\ t.ct = s.ct
    <3>1. \A q \in Process : q # p => InHand(q)' = InHand(q)
      BY <2>4 DEF InHand
    <3>2. s \in Copies \/ s \in copy
      BY <1>1, <2>5, <2>6, <3>1 DEF Copies
    <3> QED BY <2>1, <3>2 DEF Copies
  <2>7. Rotating(p)'
    BY <1>1, <2>1, <2>3, <2>4, <2>5, SidsWereDrawn DEF Rotating
  <2>8. Survival
    <3>1. \A s \in sessions : s.id >= s.id
      BY CopiesAreSessions
    <3> QED BY <1>1, <3>1 DEF Survival
  <2> QED BY <1>1, <2>4, <2>6, <2>7, <2>8, CopyingStep
<1> QED BY <1>2, <1>3 DEF Get, Finish

\* The id that is drawn is of no copy yet.
LEMMA GenerateLosesNothing ==
  ASSUME TypeInv, TypeInv', LoginInv, NEW p \in Process, Generate(p)
  PROVE  LoginInv'
<1>1. /\ req \in [Process -> Request] /\ req[p] \in Request /\ req[p].pc = "generate"
      /\ UNCHANGED <<sessions, opened, ended>> /\ created' = created + 1 /\ created \in Nat
  BY CopiesAreSessions DEF Generate, TypeInv, TypeOK
<1>2. PICK n : /\ req' = [req EXCEPT ![p].pc = "store", ![p].data = {n}]
               /\ n.id = created + 1
               /\ req[p].op = "rotate" => \E old \in InHand(p) : n.ct = old.ct
  <2>1. CASE req[p].op = "rotate"
    <3>1. PICK old \in req[p].data :
             req' = [req EXCEPT ![p].pc = "store",
                                ![p].data = {[old EXCEPT !.id = created + 1]}]
      BY <2>1 DEF Generate
    <3>2. old \in Session /\ old \in InHand(p)
      BY <1>1, <2>1 DEF Request, InHand
    <3> PICK n : n = [old EXCEPT !.id = created + 1]
      OBVIOUS
    <3>3. n.id = created + 1 /\ n.ct = old.ct
      BY <3>2 DEF Session
    <3>4. req' = [req EXCEPT ![p].pc = "store", ![p].data = {n}]
      BY <3>1
    <3> QED BY <3>2, <3>3, <3>4
  <2>2. CASE req[p].op # "rotate"
    <3> PICK n : n = [id |-> created + 1, ct |-> created + 1, user |-> req[p].user,
                      device |-> req[p].device]
      OBVIOUS
    <3>1. n.id = created + 1
      OBVIOUS
    <3>2. req' = [req EXCEPT ![p].pc = "store", ![p].data = {n}]
      BY <2>2 DEF Generate
    <3> QED BY <2>2, <3>1, <3>2
  <2> QED BY <2>1, <2>2
<1>3. /\ req'[p].data = {n} /\ req'[p].pc = "store" /\ req'[p].op = req[p].op
      /\ req'[p].sid = req[p].sid /\ \A q \in Process : q # p => req'[q] = req[q]
  BY <1>1, <1>2 DEF Request
<1>4. ASSUME NEW s \in Copies' PROVE s \in Copies \/ s = n
  <2>1. \A q \in Process : q # p => InHand(q)' = InHand(q)
    BY <1>3 DEF InHand
  <2>2. InHand(p)' \subseteq {n}
    BY <1>3 DEF InHand
  <2> QED BY <1>1, <1>4, <2>1, <2>2 DEF Copies
<1>5. \A s \in Copies : s.id <= created /\ s.id \in Nat /\ s.id # n.id
  BY <1>1, <1>2, CopiesAreSessions DEF LoginInv
<1>6. \A s \in Copies' : s.id <= created'
  BY <1>1, <1>2, <1>4, <1>5
<1>7. \A s, t \in Copies' : s.id = t.id => s.ct = t.ct
  BY <1>4, <1>5 DEF LoginInv
<1>8. ASSUME NEW q \in Process
      PROVE  /\ req[q].sid \in 0..created /\ req[q].sid \in 0..created' /\ req[q].sid # n.id
             /\ \A s \in Copies' : s.id = req[q].sid => s \in Copies
  <2>1. req[q].sid \in 0..created
    BY SidsWereDrawn
  <2> QED BY <1>1, <1>2, <1>4, <2>1
<1>9. ASSUME NEW q \in Process, q # p PROVE Rotating(q)'
  <2>1. Rotating(q) /\ req'[q] = req[q] /\ InHand(q)' = InHand(q)
    BY <1>3, <1>9 DEF LoginInv, InHand
  <2>2. \A i, c : GoesOnAfter(i, c)' <=> GoesOnAfter(i, c)
    BY <1>1 DEF GoesOnAfter
  <2> QED BY <1>8, <2>1, <2>2 DEF Rotating
<1>10. Rotating(p)'
  <2>1. ASSUME req[p].op = "rotate", NEW s \in Copies', s.id = req[p].sid PROVE s.ct = n.ct
    <3>1. PICK old \in InHand(p) : n.ct = old.ct
      BY <1>2, <2>1
    <3>2. old \in Copies /\ old.id = req[p].sid
      BY <1>1, CopiesAreSessions DEF LoginInv, Rotating
    <3> QED BY <1>8, <2>1, <3>1, <3>2 DEF LoginInv
  <2>2. n.id > req[p].sid
    BY <1>1, <1>2, <1>8
  <2> QED BY <1>3, <1>8, <2>1, <2>2 DEF Rotating
<1>11. NoLostSession'
  BY <1>1 DEF LoginInv, NoLostSession
<1> QED BY <1>6, <1>7, <1>9, <1>10, <1>11 DEF LoginInv

\* What is stored takes the place of a session of the same login, if of any.
LEMMA StoreLosesNothing ==
  ASSUME TypeInv, TypeInv', LoginInv, NEW p \in Process, Store(p)
  PROVE  LoginInv'
<1>1. /\ req \in [Process -> Request] /\ req[p] \in Request /\ req[p].pc = "store"
      /\ UNCHANGED <<created, ended>>
  BY DEF Store, TypeInv, TypeOK
<1>2. PICK n \in req[p].data :
          /\ sessions' = {r \in sessions : r.id # n.id} \cup {n}
          /\ opened' = opened \/ opened' = opened \cup {n.ct}
  BY DEF Store
<1>3. n \in Copies /\ n.id \in Nat
  BY <1>1, CopiesAreSessions DEF InHand
<1>4. Survival
  <2>1. ASSUME NEW s \in sessions
        PROVE  \E t \in sessions' : t.id >= s.id /\ t.ct = s.ct
    <3>1. s \in Copies /\ s.id \in Nat
      BY CopiesAreSessions
    <3>2. CASE s.id = n.id
      BY <1>2, <1>3, <3>1, <3>2 DEF LoginInv
    <3>3. CASE s.id # n.id
      BY <1>2, <3>1, <3>3
    <3> QED BY <3>2, <3>3
  <2> QED BY <1>1, <2>1 DEF Survival
<1>5. \/ req' = [req EXCEPT ![p].pc = "release"]
      \/ req' = [req EXCEPT ![p].pc = "deleteOld"] /\ req[p].op = "rotate"
      \/ req' = [req EXCEPT ![p] = Idle]
  BY DEF Store, Goto, Finish
<1>6. /\ \A q \in Process : q # p => req'[q] = req[q]
      /\ \/ req'[p].pc = "release" /\ req'[p].sid = req[p].sid
         \/ req'[p].pc = "deleteOld" /\ req'[p].sid = req[p].sid /\ req[p].op = "rotate"
         \/ req'[p] = Idle
  BY <1>1, <1>5 DEF Request
<1>7. InHand(p)' = {}
  BY <1>6, IdleIsHarmless DEF InHand, Harmless
<1>8. Copies' \subseteq Copies
  <2>1. \A q \in Process : q # p => InHand(q)' = InHand(q)
    BY <1>6 DEF InHand
  <2>2. sessions' \subseteq Copies
    BY <1>2, <1>3 DEF Copies
  <2> QED BY <1>7, <2>1, <2>2 DEF Copies
<1>9. Rotating(p)'
  <2>1. req[p].sid \in 0..created
    BY SidsWereDrawn
  <2>2. CASE req'[p].pc = "release" /\ req'[p].sid = req[p].sid
    BY <1>1, <2>1, <2>2 DEF Rotating
  <2>3. CASE req'[p] = Idle
    BY <1>1, <2>3, IdleIsHarmless DEF Rotating, Harmless, InHand
  <2>4. CASE req'[p].pc = "deleteOld" /\ req'[p].sid = req[p].sid /\ req[p].op = "rotate"
    <3>1. n.id > req[p].sid /\ \A s \in Copies : s.id = req[p].sid => s.ct = n.ct
      BY <1>1, <2>4 DEF LoginInv, Rotating
    <3>2. n \in sessions'
      BY <1>2
    <3>3. ASSUME NEW s \in Copies', s.id = req[p].sid PROVE GoesOnAfter(s.id, s.ct)'
      BY <1>8, <3>1, <3>2, <3>3 DEF GoesOnAfter
    <3> QED BY <1>1, <2>1, <2>4, <3>3 DEF Rotating
  <2> QED BY <1>6, <2>2, <2>3, <2>4
<1>10. opened' \subseteq opened \cup {s.ct : s \in sessions'}
  BY <1>2
<1> QED BY <1>1, <1>4, <1>6, <1>8, <1>9, <1>10, CopyingStep

\* rotate's delete: the login goes on under the new id, or is over.
LEMMA DeleteOldLosesNothing ==
  ASSUME TypeInv, TypeInv', LoginInv, NEW p \in Process, DeleteOld(p)
  PROVE  LoginInv'
<1>1. /\ req[p].pc = "deleteOld" /\ UNCHANGED <<created, opened, ended>>
      /\ sessions' = {s \in sessions : s.id # req[p].sid}
      /\ req'[p] = Idle /\ \A q \in Process : q # p => req'[q] = req[q]
  BY DEF DeleteOld, Finish, WithId, TypeInv, TypeOK
<1>2. Survival
  <2>1. ASSUME NEW s \in sessions
        PROVE  s.ct \in ended \/ \E t \in sessions' : t.id >= s.id /\ t.ct = s.ct
    <3>1. s \in Copies /\ s.id \in Nat /\ \A t \in sessions : t.id \in Nat
      BY CopiesAreSessions
    <3>2. CASE s.id = req[p].sid
      <4>1. GoesOnAfter(s.id, s.ct)
        BY <1>1, <3>1, <3>2 DEF LoginInv, Rotating
      <4>2. ASSUME NEW t \in sessions, t.id > s.id, t.ct = s.ct
            PROVE  t \in sessions' /\ t.id >= s.id
        BY <1>1, <3>1, <3>2, <4>2
      <4> QED BY <4>1, <4>2 DEF GoesOnAfter
    <3>3. CASE s.id # req[p].sid
      BY <1>1, <3>1, <3>3
    <3> QED BY <3>2, <3>3
  <2> QED BY <1>1, <2>1 DEF Survival
<1>3. InHand(p)' = {}
  BY <1>1, IdleIsHarmless DEF InHand, Harmless
<1>4. Copies' \subseteq Copies
  <2>1. \A q \in Process : q # p => InHand(q)' = InHand(q)
    BY <1>1 DEF InHand
  <2> QED BY <1>1, <1>3, <2>1 DEF Copies
<1>5. Rotating(p)'
  BY <1>1, IdleIsHarmless DEF Rotating, Harmless, InHand
<1> QED BY <1>1, <1>2, <1>4, <1>5, CopyingStep

LEMMA LoginInvPreserved == TypeInv /\ LoginInv /\ [Next]_vars => LoginInv'
<1> SUFFICES ASSUME TypeInv, LoginInv, [Next]_vars PROVE LoginInv'
  OBVIOUS
<1>1. TypeInv'
  BY TypePreserved
<1>2. ASSUME NEW p \in Process, Arrive(p) \/ Step(p) \/ Fail(p) \/ Crash(p) PROVE LoginInv'
  BY <1>1, <1>2, ArriveLosesNothing, LoginStepLosesNothing, OtherStepLosesNothing,
     GetLosesNothing, GenerateLosesNothing, StoreLosesNothing, DeleteOldLosesNothing DEF Step
<1>3. ASSUME NEW s \in sessions, ExpireSession(s) PROVE LoginInv'
  <2>1. EndSessions({s}) /\ UNCHANGED <<req, created, opened>>
    BY <1>3 DEF ExpireSession
  <2> QED BY <1>1, <2>1, HarmlessStep DEF Ends
<1>4. CASE (\E k \in Key : ExpireLock(k)) \/ UNCHANGED vars
  <2>1. UNCHANGED <<sessions, req, created, opened, ended>>
    BY <1>4 DEF ExpireLock, vars
  <2> QED BY <1>1, <2>1, NothingEnds, HarmlessStep
<1> QED BY <1>2, <1>3, <1>4 DEF Next

LEMMA LoginInvInitially == Init => LoginInv
<1> SUFFICES ASSUME Init PROVE LoginInv
  OBVIOUS
<1>1. TypeInv
  BY TypeInitially
<1>2. \A p \in Process : Harmless(req[p]) /\ req[p].sid \in 0..created
  BY <1>1, IdleIsHarmless DEF Init
<1>3. \A p \in Process : Rotating(p) /\ InHand(p) = {}
  BY <1>2, HarmlessRotates, EmptyHanded
<1>4. Copies = {}
  BY <1>3 DEF Init, Copies
<1> QED BY <1>3, <1>4 DEF Init, LoginInv, NoLostSession

\* A login that was stored lives on under some id until something ends it, whatever
\* rotations, rewrites and failures overlap (auth.service.ts:608-672,
\* random-token.strategy.ts:150-169).
THEOREM SessionsAreNotLost == Spec => []NoLostSession
<1>1. TypeInv /\ LoginInv => NoLostSession
  BY DEF LoginInv
<1>2. Spec => [](TypeInv /\ LoginInv)
  BY TypeInitially, TypePreserved, LoginInvInitially, LoginInvPreserved, PTL DEF Spec
<1> QED BY <1>1, <1>2, PTL

------------------------------------------------------------------------------
\* The registry

\* Neither rotate nor safeAuth is called: nobody writes back what it has read.
NoCopies == "rotate" \notin Ops /\ "safeAuth" \notin Ops

\* The lock is used and outlives every login, and switchIdentity, which stores
\* without it, is not called either.
Plain ==
    /\ NoCopies
    /\ LockEnabled /\ ~LockMayExpire
    /\ "switchIdentity" \notin Ops

\* Where the policy limits sessions, Plain holds; where it does not, no lock is
\* needed.
LimitsAreLocked == NoCopies /\ (LimitedPlaces # {} => Plain)

\* The handlers that open sessions.
Opening == {"login", "switchIdentity"}

\* No request is inside a handler that is not called.
Handlers ==
    \A p \in Process :
        /\ req[p].pc = "store" => req[p].op \in Opening
        /\ req[p].pc \notin {"get", "deleteOld"}

\* The session that p is about to store is new: its login is in no list yet.
Pending(p) ==
    req[p].pc = "store" =>
        \E s \in Session :
            /\ req[p].data = {s}
            /\ s.user = req[p].user /\ s.device = req[p].device
            /\ s.ct = s.id /\ s.ct \in 1..created /\ s.ct \notin ended
            /\ \A r \in sessions : r.ct # s.ct

Fresh ==
    /\ \A s \in sessions : s.ct = s.id /\ s.ct \in 1..created /\ s.ct \notin ended
    /\ \A s, r \in sessions : s.ct = r.ct => s = r
    /\ ended \subseteq 1..created
    /\ \A p \in Process : Pending(p)
    /\ \A p, q \in Process : p # q /\ req[p].pc = "store" /\ req[q].pc = "store" =>
           \A s \in req[p].data, r \in req[q].data : s.ct # r.ct

\* A login that has made room has it until it stores its session: what its
\* eviction loop still has to delete does not count.
Entitled == {"accounts", "scan", "evictOwn", "generate", "store"}

SpaceOf(p) ==
    req[p].op = "login" /\ req[p].device \in LimitedPlaces =>
        /\ req[p].pc = "evict" =>
               /\ Policy = "mutual-exclusion"
               /\ Cardinality(On(req[p].user, req[p].device) \ req[p].todo) < Limit
        /\ req[p].pc \in Entitled =>
               Cardinality(On(req[p].user, req[p].device)) < Limit

Space ==
    /\ IsFiniteSet(sessions)
    /\ \A p \in Process : SpaceOf(p)
    /\ SameDeviceBound

OpeningInv == LockInv /\ Handlers /\ Fresh

PlainInv == OpeningInv /\ Space

------------------------------------------------------------------------------
\* Steps sorted by what they do to the sessions

\* A step that can only end sessions and brings no request to its store.
EndingStep ==
    /\ Ends
    /\ created' = created
    /\ \A q \in Process : req'[q].pc = "store" => req'[q] = req[q]

LEMMA ArriveEnds ==
  ASSUME NoCopies, TypeInv, Handlers, NEW p \in Process, Arrive(p)
  PROVE  EndingStep /\ Handlers'
<1>1. /\ \A q \in Process : q # p => req'[q] = req[q]
      /\ UNCHANGED <<sessions, locks, created, opened, ended>>
  BY ArriveKeepsOthers
<1>2. req \in [Process -> Request]
  BY DEF TypeInv, TypeOK
<1>3. ASSUME NEW r, Begin(p, r), r.pc \notin {"store", "get", "deleteOld"}
      PROVE  req'[p].pc \notin {"store", "get", "deleteOld"}
  BY <1>2, <1>3 DEF Begin
<1>4. ASSUME NEW u \in User, NEW d \in Place,
             BeginLogin(p, u, d) \/ BeginSwitchIdentity(p, u, d) \/ BeginKick(p, u, d)
      PROVE  \E r : Begin(p, r) /\ r.pc \notin {"store", "get", "deleteOld"}
  BY <1>4 DEF BeginLogin, BeginSwitchIdentity, BeginKick, ForUser, New
<1>5. ASSUME NEW i \in 1..created, BeginLogout(p, i) \/ BeginForceLogout(p, i)
      PROVE  \E r : Begin(p, r) /\ r.pc \notin {"store", "get", "deleteOld"}
  BY <1>5 DEF BeginLogout, BeginForceLogout, ForSession, New
<1>6. ASSUME NEW i \in 1..created, BeginRotate(p, i) \/ BeginSafeAuth(p, i)
      PROVE  FALSE
  BY <1>6 DEF NoCopies, BeginRotate, BeginSafeAuth, Begin, ForSession, New
<1>7. req'[p].pc \notin {"store", "get", "deleteOld"}
  BY <1>3, <1>4, <1>5, <1>6 DEF Arrive
<1>8. EndingStep
  BY <1>1, <1>7, NothingEnds DEF EndingStep
<1> QED BY <1>1, <1>7, <1>8 DEF Handlers

LEMMA LoginStepEnds ==
  ASSUME TypeInv, Handlers, NEW p \in Process,
         \/ ApplyPolicy(p) \/ EvictOldest(p) \/ ListDevice(p) \/ ScanSession(p)
         \/ DecideAccounts(p)
  PROVE  EndingStep /\ Handlers'
<1>1. /\ Keeps(p) /\ created' = created /\ req'[p].pc \in CriticalPC
      /\ Ends /\ req'[p].pc # "store"
  BY LoginStepKeeps, LoginStepGoesOn
<1>2. EndingStep
  BY <1>1 DEF EndingStep, Keeps
<1>3. Handlers'
  BY <1>1 DEF Handlers, Keeps, CriticalPC, LoginPC
<1> QED BY <1>2, <1>3

\* A step of p after which it is idle, retrying, releasing or deleting, or has
\* just got its lock.
Leaves(p) ==
    /\ \A q \in Process : q # p => req'[q] = req[q]
    /\ req'[p].pc \in {"idle", "acquire", "policy", "release", "delete"}

\* Login goes on to release its lock, switchIdentity is over.
LEMMA StoreLeaves ==
  ASSUME TypeInv, Handlers, NEW p \in Process, Store(p)
  PROVE  Leaves(p)
<1>1. req \in [Process -> Request] /\ req[p] \in Request
  BY DEF TypeInv, TypeOK
<1>2. req[p].op \in Opening
  BY DEF Handlers, Store
<1>3. \/ req' = [req EXCEPT ![p].pc = "release"]
      \/ req' = [req EXCEPT ![p] = Idle]
  BY <1>2 DEF Store, Goto, Finish, Opening
<1> QED BY <1>1, <1>3 DEF Leaves, Request, Idle, New

LEMMA LeavingEnds ==
  ASSUME TypeInv, Handlers, NEW p \in Process, Ends, created' = created, Leaves(p)
  PROVE  EndingStep /\ Handlers'
  BY DEF EndingStep, Handlers, Leaves

LEMMA OtherStepEnds ==
  ASSUME NoCopies, TypeInv, Handlers, NEW p \in Process,
         \/ Acquire(p) \/ Release(p) \/ Verify(p) \/ Delete(p) \/ Kick(p)
         \/ Fail(p) \/ Crash(p) \/ Get(p) \/ DeleteOld(p)
  PROVE  EndingStep /\ Handlers' /\ Leaves(p)
<1>1. req \in [Process -> Request] /\ req[p] \in Request
  BY DEF TypeInv, TypeOK
<1>2. ~Get(p) /\ ~DeleteOld(p)
  BY DEF Handlers, Get, DeleteOld
<1>3. /\ created' = created /\ Ends
  <2>1. CASE Delete(p) \/ Kick(p)
    <3>1. /\ WithId(req[p].sid) \in SUBSET sessions
          /\ OfUser(req[p].user) \in SUBSET sessions
          /\ On(req[p].user, req[p].device) \in SUBSET sessions
      BY DEF WithId, OfUser, On
    <3> QED BY <2>1, <3>1 DEF Delete, Kick, Ends
  <2>2. CASE Acquire(p) \/ Release(p) \/ Verify(p) \/ Fail(p) \/ Crash(p)
    BY <2>2, NothingEnds DEF Acquire, Release, Verify, Fail, Crash
  <2> QED BY <1>2, <2>1, <2>2
<1>4. CASE req' = [req EXCEPT ![p] = Idle]
  BY <1>1, <1>3, <1>4, LeavingEnds DEF Leaves, Idle, New
<1>5. ASSUME NEW pc \in {"policy", "release", "delete"}, req' = [req EXCEPT ![p].pc = pc]
      PROVE  EndingStep /\ Handlers' /\ Leaves(p)
  BY <1>1, <1>3, <1>5, LeavingEnds DEF Leaves, Request
<1>6. CASE Acquire(p) /\ req' = [req EXCEPT ![p].tries = @ + 1]
  <2>1. req[p].pc = "acquire"
    BY <1>6 DEF Acquire
  <2> QED BY <1>1, <1>3, <1>6, <2>1, LeavingEnds DEF Leaves, Request
<1> QED BY <1>2, <1>4, <1>5, <1>6
        DEF Acquire, Release, Verify, Delete, Kick, Fail, Crash, Finish, Goto

\* Every step only ends sessions, or generates a session, or stores one.
LEMMA StepsSorted ==
  ASSUME NoCopies, TypeInv, Handlers, [Next]_vars
  PROVE  /\ EndingStep \/ \E p \in Process : Generate(p) \/ Store(p)
         /\ Handlers'
<1>1. ASSUME NEW p \in Process, Generate(p) \/ Store(p)
      PROVE  Handlers'
  <2>1. CASE Generate(p)
    <3>1. /\ Keeps(p) /\ req[p].pc = "generate" /\ req'[p].pc = "store"
      BY <2>1, GenerateKeeps
    <3>2. req[p].op \in Opening
      <4>1. req[p] \in Request /\ req[p].op \in {"login", "switchIdentity", "rotate"}
        BY <3>1 DEF TypeInv, TypeOK, RequestsWellFormed, WellFormed
      <4> QED BY <4>1 DEF NoCopies, Opening, Request
    <3> QED BY <3>1, <3>2 DEF Handlers, Keeps
  <2>2. CASE Store(p)
    BY <2>2, StoreLeaves DEF Handlers, Leaves
  <2> QED BY <1>1, <2>1, <2>2
<1>2. ASSUME NEW s \in sessions, ExpireSession(s)
      PROVE  EndingStep /\ Handlers'
  <2>1. EndSessions({s}) /\ created' = created /\ req' = req
    BY <1>2 DEF ExpireSession
  <2> QED BY <2>1 DEF EndingStep, Ends, Handlers
<1>3. ASSUME NEW k \in Key, ExpireLock(k)
      PROVE  EndingStep /\ Handlers'
  BY <1>3, NothingEnds DEF ExpireLock, EndingStep, Handlers
<1>4. CASE UNCHANGED vars
  BY <1>4, NothingEnds DEF vars, EndingStep, Handlers
<1>5. ASSUME NEW p \in Process, Arrive(p) \/ Step(p) \/ Fail(p) \/ Crash(p)
      PROVE  /\ EndingStep \/ Generate(p) \/ Store(p)
             /\ Handlers'
  BY <1>1, <1>5, ArriveEnds, LoginStepEnds, OtherStepEnds DEF Step
<1> QED BY <1>2, <1>3, <1>4, <1>5 DEF Next

------------------------------------------------------------------------------
\* Sessions are opened once.

LEMMA EndingKeepsFresh ==
  ASSUME TypeInv, Fresh, EndingStep
  PROVE  Fresh'
<1>1. PICK S \in SUBSET sessions :
           sessions' = sessions \ S /\ ended' = ended \cup {s.ct : s \in S}
  BY DEF EndingStep, Ends, EndSessions
<1>2. created' = created /\ \A q \in Process : req'[q].pc = "store" => req'[q] = req[q]
  BY DEF EndingStep
<1>3. \A s \in sessions' : s.ct = s.id /\ s.ct \in 1..created' /\ s.ct \notin ended'
  BY <1>1, <1>2 DEF Fresh
<1>4. (\A s, r \in sessions' : s.ct = r.ct => s = r) /\ ended' \subseteq 1..created'
  BY <1>1, <1>2 DEF Fresh
<1>5. ASSUME NEW p \in Process, req'[p].pc = "store"
      PROVE  Pending(p)'
  <2>1. req'[p] = req[p]
    BY <1>2, <1>5
  <2>2. PICK s \in Session :
            /\ req[p].data = {s}
            /\ s.user = req[p].user /\ s.device = req[p].device
            /\ s.ct = s.id /\ s.ct \in 1..created /\ s.ct \notin ended
            /\ \A r \in sessions : r.ct # s.ct
    BY <1>5, <2>1 DEF Fresh, Pending
  <2>3. s.ct \notin ended' /\ \A r \in sessions' : r.ct # s.ct
    BY <1>1, <2>2
  <2> QED BY <1>2, <2>1, <2>2, <2>3 DEF Pending
<1>6. \A p, q \in Process : p # q /\ req'[p].pc = "store" /\ req'[q].pc = "store" =>
           \A s \in req'[p].data, r \in req'[q].data : s.ct # r.ct
  BY <1>2 DEF Fresh
<1> QED BY <1>3, <1>4, <1>5, <1>6 DEF Fresh, Pending

LEMMA GenerateKeepsFresh ==
  ASSUME NoCopies, TypeInv, Handlers, Fresh, NEW p \in Process, Generate(p)
  PROVE  Fresh'
<1>1. /\ Keeps(p) /\ req[p].pc = "generate" /\ req'[p].pc = "store"
      /\ sessions' = sessions /\ ended' = ended
  BY GenerateKeeps
<1>2. /\ req \in [Process -> Request] /\ req[p] \in Request
      /\ req[p].op \in Opening /\ req[p].user \in User
  BY <1>1 DEF TypeInv, TypeOK, RequestsWellFormed, WellFormed, NoCopies, Opening, Request
<1> DEFINE s == [id |-> created + 1, ct |-> created + 1, user |-> req[p].user,
                 device |-> req[p].device]
<1>3. req' = [req EXCEPT ![p].pc = "store", ![p].data = {s}]
  BY <1>2 DEF Generate, Opening
<1>4. created < MaxCreated /\ created' = created + 1 /\ created \in Nat
  <2>1. created < MaxCreated /\ created' = created + 1
    BY DEF Generate
  <2> QED BY <2>1 DEF TypeInv, TypeOK
<1>5. req'[p].data = {s} /\ s \in Session
  BY <1>2, <1>3, <1>4, BoundsAreNaturals DEF Request, Session, Ids
<1>6. s.ct \notin ended /\ \A r \in sessions : r.ct # s.ct
  BY <1>4 DEF Fresh
<1> HIDE DEF s
<1>7. s.ct = created + 1 /\ s.id = created + 1 /\ s.user = req[p].user /\ s.device = req[p].device
  BY DEF s
<1>8. Pending(p)'
  BY <1>1, <1>4, <1>5, <1>6, <1>7 DEF Pending, Keeps
<1>9. ASSUME NEW q \in Process, q # p
      PROVE  Pending(q)'
  <2>1. req'[q] = req[q]
    BY <1>1, <1>9 DEF Keeps
  <2> QED BY <1>1, <1>4, <2>1 DEF Fresh, Pending
<1>10. ASSUME NEW q \in Process, q # p, req[q].pc = "store", NEW r \in req[q].data
       PROVE  r.ct # s.ct
  BY <1>4, <1>7, <1>10 DEF Fresh, Pending
<1>11. \A q, t \in Process : q # t /\ req'[q].pc = "store" /\ req'[t].pc = "store" =>
           \A r \in req'[q].data, w \in req'[t].data : r.ct # w.ct
  BY <1>1, <1>5, <1>10 DEF Fresh, Keeps
<1> QED BY <1>1, <1>4, <1>8, <1>9, <1>11 DEF Fresh

\* The session that p stores is added to the others.
LEMMA StoreAdds ==
  ASSUME TypeInv, Handlers, Fresh, NEW p \in Process, Store(p)
  PROVE  \E s \in Session :
             /\ req[p].data = {s}
             /\ s.user = req[p].user /\ s.device = req[p].device
             /\ s.ct = s.id /\ s.ct \in 1..created /\ s.ct \notin ended
             /\ \A r \in sessions : r.ct # s.ct
             /\ sessions' = sessions \cup {s}
             /\ ended' = ended /\ created' = created
             /\ Leaves(p) /\ req[p].op \in Opening /\ req[p].pc = "store"
<1>1. req[p].pc = "store" /\ req[p].op \in Opening /\ Leaves(p)
  BY StoreLeaves DEF Handlers, Store
<1>2. PICK s \in Session :
          /\ req[p].data = {s}
          /\ s.user = req[p].user /\ s.device = req[p].device
          /\ s.ct = s.id /\ s.ct \in 1..created /\ s.ct \notin ended
          /\ \A r \in sessions : r.ct # s.ct
  BY <1>1 DEF Fresh, Pending
<1>3. sessions' = {r \in sessions : r.id # s.id} \cup {s} /\ ended' = ended /\ created' = created
  BY <1>2 DEF Store
<1>4. {r \in sessions : r.id # s.id} = sessions
  BY <1>2 DEF Fresh
<1> QED BY <1>1, <1>2, <1>3, <1>4

LEMMA StoreKeepsFresh ==
  ASSUME TypeInv, Handlers, Fresh, NEW p \in Process, Store(p)
  PROVE  Fresh'
<1>1. PICK s \in Session :
             /\ req[p].data = {s}
             /\ s.ct = s.id /\ s.ct \in 1..created /\ s.ct \notin ended
             /\ \A r \in sessions : r.ct # s.ct
             /\ sessions' = sessions \cup {s}
             /\ ended' = ended /\ created' = created
             /\ Leaves(p) /\ req[p].pc = "store"
  BY StoreAdds
<1>2. /\ \A r \in sessions' : r.ct = r.id /\ r.ct \in 1..created' /\ r.ct \notin ended'
      /\ \A r, w \in sessions' : r.ct = w.ct => r = w
      /\ ended' \subseteq 1..created'
  BY <1>1 DEF Fresh
<1>3. ASSUME NEW q \in Process, req'[q].pc = "store"
      PROVE  Pending(q)'
  <2>1. q # p /\ req'[q] = req[q]
    BY <1>1, <1>3 DEF Leaves
  <2>2. PICK r \in Session :
            /\ req[q].data = {r}
            /\ r.user = req[q].user /\ r.device = req[q].device
            /\ r.ct = r.id /\ r.ct \in 1..created /\ r.ct \notin ended
            /\ \A w \in sessions : w.ct # r.ct
    BY <1>3, <2>1 DEF Fresh, Pending
  <2>3. r.ct # s.ct
    BY <1>1, <1>3, <2>1, <2>2 DEF Fresh
  <2> QED BY <1>1, <2>1, <2>2, <2>3 DEF Pending
<1>4. \A q, t \in Process : q # t /\ req'[q].pc = "store" /\ req'[t].pc = "store" =>
           \A r \in req'[q].data, w \in req'[t].data : r.ct # w.ct
  BY <1>1 DEF Fresh, Leaves
<1> QED BY <1>2, <1>3, <1>4 DEF Fresh, Pending

------------------------------------------------------------------------------
\* Room is made and kept.

LEMMA LimitFacts ==
  /\ Limit \in Nat \ {0}
  /\ Policy = "single" => Limit = 1
  /\ Policy = "mutual-exclusion" => LimitedPlaces = Device /\ Limit = MaxSame
  /\ Policy \notin {"single", "mutual-exclusion"} => LimitedPlaces = {}
  BY BoundsAreNaturals DEF Limit, LimitedPlaces

LEMMA SessionsShrink ==
  ASSUME EndingStep
  PROVE  sessions' \subseteq sessions
  BY DEF EndingStep, Ends, EndSessions

LEMMA OnIsFinite ==
  ASSUME IsFiniteSet(sessions), NEW u, NEW d, NEW S \in SUBSET On(u, d)
  PROVE  /\ IsFiniteSet(S) /\ Cardinality(S) \in Nat
         /\ \A T \in SUBSET S : Cardinality(T) \in Nat /\ Cardinality(T) <= Cardinality(S)
<1>1. S \in SUBSET sessions
  BY DEF On
<1>2. IsFiniteSet(S)
  BY <1>1, FS_Subset
<1> QED BY <1>2, FS_Subset, FS_CardinalityType

\* Requests that do not move keep their room when sessions only go.
LEMMA SpaceOfOther ==
  ASSUME Space, sessions' \subseteq sessions, NEW q \in Process, req'[q] = req[q]
  PROVE  SpaceOf(q)'
<1> DEFINE u == req[q].user
           d == req[q].device
<1>1. SpaceOf(q) /\ IsFiniteSet(sessions)
  BY DEF Space
<1>2. On(u, d)' \subseteq On(u, d)
  BY DEF On
<1>3. Cardinality(On(u, d)') <= Cardinality(On(u, d))
  BY <1>1, <1>2, OnIsFinite
<1>4. Cardinality(On(u, d)' \ req[q].todo) <= Cardinality(On(u, d) \ req[q].todo)
  <2>1. On(u, d) \ req[q].todo \in SUBSET On(u, d)
    OBVIOUS
  <2>2. On(u, d)' \ req[q].todo \in SUBSET (On(u, d) \ req[q].todo)
    BY <1>2
  <2> QED BY <1>1, <2>1, <2>2, OnIsFinite
<1>5. /\ Cardinality(On(u, d)') \in Nat /\ Cardinality(On(u, d)) \in Nat
      /\ Cardinality(On(u, d)' \ req[q].todo) \in Nat
      /\ Cardinality(On(u, d) \ req[q].todo) \in Nat
  <2>1. /\ On(u, d) \in SUBSET On(u, d) /\ On(u, d)' \in SUBSET On(u, d)
        /\ On(u, d) \ req[q].todo \in SUBSET On(u, d)
        /\ On(u, d)' \ req[q].todo \in SUBSET On(u, d)
    BY <1>2
  <2> QED BY <1>1, <2>1, OnIsFinite
<1> QED BY <1>1, <1>3, <1>4, <1>5, LimitFacts DEF SpaceOf

LEMMA ShrinkKeepsSpace ==
  ASSUME Space, sessions' \subseteq sessions, \A q \in Process : SpaceOf(q)'
  PROVE  Space'
<1>1. IsFiniteSet(sessions) /\ SameDeviceBound
  BY DEF Space
<1>2. IsFiniteSet(sessions')
  BY <1>1, FS_Subset
<1>3. ASSUME NEW u \in User, NEW d \in LimitedPlaces
      PROVE  Cardinality(On(u, d)') <= Limit
  <2>1. On(u, d)' \in SUBSET On(u, d)
    BY DEF On
  <2>2. Cardinality(On(u, d)) <= Limit
    BY <1>1 DEF SameDeviceBound
  <2>3. /\ Cardinality(On(u, d)') <= Cardinality(On(u, d))
        /\ Cardinality(On(u, d)') \in Nat /\ Cardinality(On(u, d)) \in Nat
    BY <1>1, <2>1, OnIsFinite
  <2> QED BY <2>2, <2>3, LimitFacts
<1>4. SameDeviceBound'
  BY <1>3 DEF SameDeviceBound
<1> QED BY <1>2, <1>4 DEF Space

\* What the policy leaves on the device of a login it has let through.
LEMMA PolicyMakesSpace ==
  ASSUME TypeInv, Space, NEW p \in Process, ApplyPolicy(p)
  PROVE  SpaceOf(p)'
<1> DEFINE u == req[p].user
           d == req[p].device
<1>1. /\ req \in [Process -> Request] /\ req[p] \in Request /\ IsFiniteSet(sessions)
      /\ Keeps(p)
  BY LoginStepKeeps DEF TypeInv, TypeOK, Space
<1>2. req'[p].user = u /\ req'[p].device = d
  BY <1>1 DEF Keeps
<1>3. CASE Policy = "single"
  <2>1. On(u, d)' = {}
    BY <1>2, <1>3 DEF ApplyPolicy, EndSessions, OfUser, On
  <2>2. req'[p].pc = AfterPolicy(d)
    BY <1>1, <1>3 DEF ApplyPolicy, Goto, Request
  <2>3. Cardinality(On(u, d)') = 0
    BY <2>1, FS_EmptySet
  <2> QED BY <1>2, <1>3, <2>2, <2>3, AfterPolicyStep, LimitFacts DEF SpaceOf
<1>4. CASE Policy = "mutual-exclusion" /\ d # NoDevice
  <2>1. PICK del \in Overflows(On(u, d)) :
             req' = [req EXCEPT ![p].todo = del,
                        ![p].pc = IF del = {} THEN AfterPolicy(d) ELSE "evict"]
    BY <1>4 DEF ApplyPolicy
  <2>2. sessions' = sessions /\ Limit = MaxSame
    BY <1>4, LimitFacts DEF ApplyPolicy
  <2>3. Cardinality(On(u, d) \ del) < MaxSame
    <3>1. CASE Cardinality(On(u, d)) < MaxSame
      <4>1. del = {}
        BY <2>1, <3>1 DEF Overflows
      <4> QED BY <3>1, <4>1
    <3>2. CASE ~(Cardinality(On(u, d)) < MaxSame)
      <4>1. Cardinality(On(u, d) \ del) = MaxSame - 1
        BY <2>1, <3>2 DEF Overflows
      <4> QED BY <4>1, BoundsAreNaturals
    <3> QED BY <3>1, <3>2
  <2>4. /\ req'[p].todo = del
        /\ req'[p].pc = IF del = {} THEN AfterPolicy(d) ELSE "evict"
    BY <1>1, <2>1 DEF Request
  <2>5. On(u, d)' = On(u, d)
    BY <1>2, <2>2 DEF On
  <2>6. CASE del = {}
    <3>1. Cardinality(On(u, d)) < Limit
      BY <2>2, <2>3, <2>6
    <3> QED BY <1>2, <2>4, <2>5, <2>6, <3>1, AfterPolicyStep DEF SpaceOf
  <2>7. CASE del # {}
    BY <1>2, <1>4, <2>2, <2>3, <2>4, <2>5, <2>7 DEF SpaceOf, Entitled
  <2> QED BY <2>6, <2>7
<1>5. CASE Policy = "mutual-exclusion" /\ d = NoDevice
  <2>1. d \notin LimitedPlaces
    BY <1>5, LimitFacts, AuthAssumption
  <2> QED BY <1>2, <2>1 DEF SpaceOf, LimitedPlaces
<1>6. CASE Policy \notin {"single", "mutual-exclusion"}
  BY <1>6, LimitFacts DEF SpaceOf, LimitedPlaces
<1> QED BY <1>3, <1>4, <1>5, <1>6

\* The eviction loop, the account scan and the generation of the token keep it.
LEMMA LoginKeepsSpace ==
  ASSUME TypeInv, Space, NEW p \in Process,
         \/ EvictOldest(p) \/ ListDevice(p) \/ ScanSession(p) \/ DecideAccounts(p)
         \/ Generate(p)
  PROVE  SpaceOf(p)'
<1> DEFINE u == req[p].user
           d == req[p].device
<1>1. /\ req \in [Process -> Request] /\ req[p] \in Request /\ IsFiniteSet(sessions)
      /\ Keeps(p) /\ SpaceOf(p)
  BY LoginStepKeeps, GenerateKeeps DEF TypeInv, TypeOK, Space
<1>2. req'[p].user = u /\ req'[p].device = d /\ req'[p].op = req[p].op
  BY <1>1 DEF Keeps
<1>3. CASE EvictOldest(p)
  <2>1. PICK s \in req[p].todo :
           /\ EndSessions(WithId(s.id))
           /\ req' = [req EXCEPT
                  ![p].todo = @ \ {s},
                  ![p].pc = IF req[p].todo # {s} THEN @
                            ELSE IF @ = "evict" THEN AfterPolicy(req[p].device)
                            ELSE "generate"]
    BY <1>3 DEF EvictOldest
  <2>2. /\ req'[p].todo = req[p].todo \ {s}
        /\ req'[p].pc = IF req[p].todo # {s} THEN req[p].pc
                        ELSE IF req[p].pc = "evict" THEN AfterPolicy(d)
                        ELSE "generate"
    BY <1>1, <2>1 DEF Request
  <2>3. /\ On(u, d)' \subseteq On(u, d)
        /\ On(u, d)' \ req'[p].todo \subseteq On(u, d) \ req[p].todo
    BY <1>2, <2>1, <2>2 DEF EndSessions, WithId, On
  <2>4. /\ Cardinality(On(u, d)') <= Cardinality(On(u, d))
        /\ Cardinality(On(u, d)') \in Nat /\ Cardinality(On(u, d)) \in Nat
    BY <1>1, <2>3, OnIsFinite
  <2>5. /\ Cardinality(On(u, d)' \ req'[p].todo) <= Cardinality(On(u, d) \ req[p].todo)
        /\ Cardinality(On(u, d)' \ req'[p].todo) \in Nat
        /\ Cardinality(On(u, d) \ req[p].todo) \in Nat
    <3>1. On(u, d) \ req[p].todo \in SUBSET On(u, d)
      OBVIOUS
    <3> QED BY <1>1, <2>3, <3>1, OnIsFinite
  <2>6. req'[p].todo = {} \/ req'[p].pc = req[p].pc
    BY <2>2
  <2>7. CASE req[p].pc = "evict" /\ req'[p].pc = "evict"
    BY <1>1, <1>2, <2>5, <2>7, LimitFacts DEF SpaceOf, Entitled
  <2>8. CASE req[p].pc = "evict" /\ req'[p].pc # "evict"
    <3>1. On(u, d)' \ req'[p].todo = On(u, d)'
      BY <2>6, <2>8
    <3> QED BY <1>1, <1>2, <2>5, <2>8, <3>1, LimitFacts DEF SpaceOf, Entitled
  <2>9. CASE req[p].pc = "evictOwn"
    <3>1. req'[p].pc \in {"evictOwn", "generate"}
      BY <2>2, <2>9
    <3> QED BY <1>1, <1>2, <2>4, <2>9, <3>1, LimitFacts DEF SpaceOf, Entitled
  <2> QED BY <1>3, <2>7, <2>8, <2>9 DEF EvictOldest
<1>4. CASE ListDevice(p) \/ ScanSession(p) \/ DecideAccounts(p) \/ Generate(p)
  <2>1. req[p].pc \in Entitled /\ sessions' = sessions
    BY <1>4 DEF ListDevice, ScanSession, DecideAccounts, Generate, Entitled
  <2>2. On(u, d)' = On(u, d)
    BY <1>2, <2>1 DEF On
  <2>3. req'[p].pc # "evict"
    <3>1. CASE ListDevice(p)
      BY <1>1, <3>1 DEF ListDevice, Request
    <3>2. CASE ScanSession(p)
      <4>1. PICK s \in req[p].todo :
               req' = [req EXCEPT ![p].todo = @ \ {s}, ![p].seen = @ \cup WithId(s.id)]
        BY <3>2 DEF ScanSession
      <4> QED BY <1>1, <3>2, <4>1 DEF ScanSession, Request
    <3>3. CASE DecideAccounts(p)
      <4>1. CASE req' = [req EXCEPT ![p].pc = "release"]
        BY <1>1, <4>1 DEF Request
      <4>2. ASSUME NEW del, req' = [req EXCEPT ![p].todo = del,
                            ![p].pc = IF del = {} THEN "generate" ELSE "evictOwn"]
            PROVE  req'[p].pc # "evict"
        BY <1>1, <4>2 DEF Request
      <4> QED BY <3>3, <4>1, <4>2 DEF DecideAccounts, Goto
    <3>4. CASE Generate(p)
      BY <3>4, GenerateKeeps
    <3> QED BY <1>4, <3>1, <3>2, <3>3, <3>4
  <2> QED BY <1>1, <1>2, <2>1, <2>2, <2>3 DEF SpaceOf
<1> QED BY <1>3, <1>4

LEMMA AddOne ==
  ASSUME NEW S, IsFiniteSet(S), NEW x
  PROVE  Cardinality(S \cup {x}) \in Nat /\ Cardinality(S \cup {x}) <= Cardinality(S) + 1
<1>1. IsFiniteSet(S \cup {x}) /\ Cardinality(S) \in Nat
  BY FS_AddElement, FS_CardinalityType
<1>2. Cardinality(S \cup {x}) = IF x \in S THEN Cardinality(S) ELSE Cardinality(S) + 1
  BY FS_AddElement
<1> QED BY <1>1, <1>2

\* The store: the lock keeps every other login out of the room of this one.
LEMMA StoreKeepsSpace ==
  ASSUME Plain, LockInv, Handlers, Fresh, Space, NEW p \in Process, Store(p)
  PROVE  Space'
<1> USE DEF LockInv
<1>1. PICK s \in Session :
           /\ s.user = req[p].user /\ s.device = req[p].device
           /\ sessions' = sessions \cup {s}
           /\ Leaves(p) /\ req[p].op = "login" /\ req[p].pc = "store"
  <2>1. req[p].op \in Opening => req[p].op = "login"
    BY DEF Plain, Opening, TypeInv, TypeOK, Request
  <2> QED BY <2>1, StoreAdds
<1>2. IsFiniteSet(sessions) /\ IsFiniteSet(sessions')
  BY <1>1, FS_AddElement DEF Space
<1>3. ASSUME NEW u, NEW d, <<u, d>> # <<s.user, s.device>>
      PROVE  On(u, d)' = On(u, d)
  BY <1>1, <1>3 DEF On
<1>4. SpaceOf(p)'
  BY <1>1 DEF SpaceOf, Entitled, Leaves
<1>5. ASSUME NEW q \in Process, q # p
      PROVE  SpaceOf(q)'
  <2>1. req'[q] = req[q] /\ SpaceOf(q)
    BY <1>1, <1>5 DEF Leaves, Space
  <2>2. CASE req[q].op = "login" /\ req[q].pc \in Entitled \cup {"evict"}
    <3>1. Critical(p) /\ Critical(q)
      BY <1>1, <2>2 DEF Critical, Entitled
    <3>2. KeyOf(p) # KeyOf(q)
      BY <1>5, <3>1 DEF LockHeld, Plain
    <3>3. <<req[q].user, req[q].device>> # <<s.user, s.device>>
      BY <1>1, <3>2 DEF KeyOf
    <3>4. {r \in sessions' : r.user = req[q].user /\ r.device = req[q].device}
            = On(req[q].user, req[q].device)
      BY <1>1, <3>3 DEF On
    <3> QED BY <2>1, <3>4 DEF SpaceOf, On
  <2>3. CASE ~(req[q].op = "login" /\ req[q].pc \in Entitled \cup {"evict"})
    BY <2>1, <2>3 DEF SpaceOf
  <2> QED BY <2>2, <2>3
<1>6. ASSUME NEW u \in User, NEW d \in LimitedPlaces
      PROVE  Cardinality(On(u, d)') <= Limit
  <2>1. Cardinality(On(u, d)) <= Limit
    BY DEF Space, SameDeviceBound
  <2>2. CASE <<u, d>> # <<s.user, s.device>>
    BY <1>3, <2>1, <2>2
  <2>3. CASE u = s.user /\ d = s.device
    <3>1. Cardinality(On(u, d)) < Limit
      BY <1>1, <2>3 DEF Space, SpaceOf, Entitled
    <3>2. On(u, d)' = On(u, d) \cup {s}
      BY <1>1, <2>3 DEF On
    <3>3. On(u, d) \in SUBSET On(u, d)
      OBVIOUS
    <3>4. IsFiniteSet(On(u, d)) /\ Cardinality(On(u, d)) \in Nat
      BY <1>2, <3>3, OnIsFinite
    <3>5. /\ Cardinality(On(u, d)') <= Cardinality(On(u, d)) + 1
          /\ Cardinality(On(u, d)') \in Nat
      BY <3>2, <3>4, AddOne
    <3> QED BY <3>1, <3>4, <3>5, LimitFacts
  <2> QED BY <2>2, <2>3
<1>7. SameDeviceBound'
  BY <1>6 DEF SameDeviceBound
<1> QED BY <1>2, <1>4, <1>5, <1>7 DEF Space

LEMMA EndingKeepsSpace ==
  ASSUME Plain, LockInv, Handlers, Space, EndingStep, [Next]_vars,
         ~\E p \in Process : Generate(p) \/ Store(p)
  PROVE  Space'
<1> USE DEF LockInv
<1>1. sessions' \subseteq sessions
  BY SessionsShrink
<1>2. ASSUME NEW p \in Process, SpaceOf(p)', \A q \in Process : q # p => req'[q] = req[q]
      PROVE  Space'
  BY <1>1, <1>2, SpaceOfOther, ShrinkKeepsSpace
<1>3. ASSUME NEW p \in Process, ApplyPolicy(p) \/ EvictOldest(p) \/ ListDevice(p)
                                \/ ScanSession(p) \/ DecideAccounts(p)
      PROVE  Space'
  BY <1>2, <1>3, LoginStepKeeps, PolicyMakesSpace, LoginKeepsSpace DEF Keeps
<1>4. ASSUME NEW p \in Process,
             \/ Acquire(p) \/ Release(p) \/ Verify(p) \/ Delete(p) \/ Kick(p)
             \/ Fail(p) \/ Crash(p) \/ Get(p) \/ DeleteOld(p)
      PROVE  Space'
  <2>1. Leaves(p)
    BY <1>4, OtherStepEnds DEF Plain
  <2> QED BY <1>2, <2>1 DEF Leaves, SpaceOf, Entitled
<1>5. ASSUME NEW p \in Process, Arrive(p)
      PROVE  Space'
  <2>1. ~Critical(p)' /\ \A q \in Process : q # p => req'[q] = req[q]
    BY <1>5, ArriveKeepsOthers DEF Plain
  <2> QED BY <1>2, <2>1 DEF Critical, SpaceOf, Entitled
<1>6. CASE req' = req
  BY <1>1, <1>6, SpaceOfOther, ShrinkKeepsSpace
<1>7. ASSUME NEW s \in sessions, ExpireSession(s)
      PROVE  Space'
  BY <1>6, <1>7 DEF ExpireSession
<1>8. ASSUME NEW k \in Key, ExpireLock(k)
      PROVE  Space'
  BY <1>6, <1>8 DEF ExpireLock
<1>9. CASE UNCHANGED vars
  BY <1>6, <1>9 DEF vars
<1> QED BY <1>3, <1>4, <1>5, <1>7, <1>8, <1>9 DEF Next, Step

LEMMA GenerateKeepsSpace ==
  ASSUME TypeInv, Space, NEW p \in Process, Generate(p)
  PROVE  Space'
<1>1. Keeps(p) /\ sessions' = sessions /\ SpaceOf(p)'
  BY GenerateKeeps, LoginKeepsSpace
<1> QED BY <1>1, SpaceOfOther, ShrinkKeepsSpace DEF Keeps

LEMMA OpeningInitially == Init => OpeningInv
  BY LockInitially DEF Init, Idle, New, Handlers, Fresh, Pending, OpeningInv

LEMMA OpeningPreserved ==
  ASSUME NoCopies, OpeningInv, [Next]_vars
  PROVE  OpeningInv'
<1> USE DEF OpeningInv
<1>1. LockInv' /\ TypeInv
  BY LockPreserved DEF LockInv
<1>2. Handlers' /\ (EndingStep \/ \E p \in Process : Generate(p) \/ Store(p))
  BY <1>1, StepsSorted
<1> QED BY <1>1, <1>2, EndingKeepsFresh, GenerateKeepsFresh, StoreKeepsFresh

LEMMA OpeningInvariance ==
  ASSUME NoCopies
  PROVE  Spec => []OpeningInv
<1>1. OpeningInv /\ [Next]_vars => OpeningInv'
  BY OpeningPreserved
<1> QED BY OpeningInitially, <1>1, PTL DEF Spec

LEMMA SpaceInitially == Init => Space
<1> SUFFICES ASSUME Init PROVE Space
  OBVIOUS
<1>1. IsFiniteSet(sessions) /\ \A u, d : Cardinality(On(u, d)) = 0
  BY FS_EmptySet DEF Init, On
<1> QED BY <1>1, LimitFacts DEF Init, Idle, New, Space, SpaceOf, SameDeviceBound

LEMMA SpacePreserved ==
  ASSUME Plain, PlainInv, [Next]_vars
  PROVE  Space'
<1> USE DEF PlainInv, OpeningInv
<1>1. TypeInv /\ NoCopies
  BY DEF LockInv, Plain
<1>2. EndingStep \/ \E p \in Process : Generate(p) \/ Store(p)
  BY <1>1, StepsSorted
<1>3. CASE \E p \in Process : Generate(p) \/ Store(p)
  BY <1>1, <1>3, GenerateKeepsSpace, StoreKeepsSpace
<1>4. CASE EndingStep /\ ~\E p \in Process : Generate(p) \/ Store(p)
  BY <1>4, EndingKeepsSpace
<1> QED BY <1>2, <1>3, <1>4

LEMMA PlainInvariance ==
  ASSUME Plain
  PROVE  Spec => []PlainInv
<1>1. Spec => []OpeningInv
  BY OpeningInvariance DEF Plain
<1>2. OpeningInv /\ Space /\ [Next]_vars => Space'
  BY SpacePreserved DEF PlainInv
<1> QED BY SpaceInitially, <1>1, <1>2, PTL DEF Spec, PlainInv

\* However many logins of a user run at once, fail or crash, the user's
\* sessions on a limited device never exceed the limit.
THEOREM SessionsAreBounded ==
  ASSUME Plain
  PROVE  Spec => []SameDeviceBound
<1>1. PlainInv => SameDeviceBound
  BY DEF PlainInv, Space
<1> QED BY PlainInvariance, <1>1, PTL

\* single keeps one session per user as long as no login names a device, so
\* that all logins of the user are under one lock and of one list.
THEOREM UsersHaveOneSession ==
  ASSUME Plain, Device = {}
  PROVE  Spec => []SingleSession
<1>1. TypeOK /\ SameDeviceBound => SingleSession
  <2> SUFFICES ASSUME TypeOK, SameDeviceBound, Policy = "single", NEW u \in User
               PROVE  Cardinality(OfUser(u)) <= 1
    BY DEF SingleSession
  <2>1. NoDevice \in LimitedPlaces /\ Limit = 1
    BY DEF LimitedPlaces, Limit, Place
  <2>2. OfUser(u) = On(u, NoDevice)
    BY DEF OfUser, On, TypeOK, Session, Place
  <2> QED BY <2>1, <2>2 DEF SameDeviceBound
<1> QED BY SessionsAreBounded, TypeCorrect, <1>1, PTL

------------------------------------------------------------------------------
\* The refinement.

Entry(s) == [login |-> s.ct, user |-> s.user, place |-> s.device]
Live == {Entry(s) : s \in sessions}

\* The registry has no more sessions at a place than the store.
LEMMA NoMoreEntries ==
  ASSUME IsFiniteSet(sessions), NEW u, NEW d
  PROVE  /\ Cardinality({e \in Live : e.user = u /\ e.place = d}) <= Cardinality(On(u, d))
         /\ Cardinality({e \in Live : e.user = u /\ e.place = d}) \in Nat
         /\ Cardinality(On(u, d)) \in Nat
<1> DEFINE E == {e \in Live : e.user = u /\ e.place = d}
           f == [s \in On(u, d) |-> Entry(s)]
<1>1. IsFiniteSet(On(u, d))
  <2>1. On(u, d) \in SUBSET On(u, d)
    OBVIOUS
  <2> QED BY <2>1, OnIsFinite
<1>2. f \in Surjection(On(u, d), E)
  <2>1. f \in [On(u, d) -> E]
    BY DEF On, Live, Entry
  <2>2. ASSUME NEW e \in E
        PROVE  \E s \in On(u, d) : f[s] = e
    <3>1. PICK s \in sessions : e = Entry(s)
      BY <2>2 DEF Live
    <3>2. s \in On(u, d)
      BY <2>2, <3>1 DEF On, Entry
    <3> QED BY <3>1, <3>2
  <2> QED BY <2>1, <2>2 DEF Surjection
<1>3. IsFiniteSet(E) /\ Cardinality(E) <= Cardinality(On(u, d))
  BY <1>1, <1>2, FS_Surjection
<1> QED BY <1>1, <1>3, FS_CardinalityType

\* The module of the registry brings its own instance of Cardinality.
LEMMA SameCardinality ==
  ASSUME NEW S
  PROVE  Registry!Cardinality(S) = Cardinality(S)
  BY DEF Registry!Cardinality, Cardinality

LEMMA InitIsRegistryInit == Init => Registry!Init
  BY DEF Init, Registry!Init

\* Ending sessions of the store ends their entries.
LEMMA EndingIsEnd ==
  ASSUME TypeInv, Fresh, EndingStep
  PROVE  Registry!Next
<1>1. PICK S \in SUBSET sessions :
           sessions' = sessions \ S /\ ended' = ended \cup {s.ct : s \in S}
  BY DEF EndingStep, Ends, EndSessions
<1> DEFINE E == {Entry(s) : s \in S}
<1>2. E \in SUBSET Live
  BY DEF Live
<1>3. Live' = Live \ E
  <2>1. \A s, r \in sessions : Entry(s) = Entry(r) => s = r
    <3> SUFFICES ASSUME NEW s \in sessions, NEW r \in sessions, Entry(s) = Entry(r)
                 PROVE  s = r
      OBVIOUS
    <3>1. s.ct = r.ct
      BY DEF Entry
    <3> QED BY <3>1 DEF Fresh
  <2> QED BY <1>1, <2>1 DEF Live
<1>4. ended' = ended \cup {e.login : e \in E}
  <2>1. \A s \in S : Entry(s).login = s.ct
    BY DEF Entry
  <2> QED BY <1>1, <2>1
<1>5. Registry!End(E)
  BY <1>3, <1>4 DEF Registry!End, Live, Entry
<1> QED BY <1>2, <1>5 DEF Registry!Next, Live, Entry

\* The store of a login's session opens it, where there is room.
LEMMA StoreIsOpen ==
  ASSUME OpeningInv, LimitedPlaces # {} => Plain /\ Space, NEW p \in Process, Store(p)
  PROVE  Registry!Next
<1> USE DEF OpeningInv, LockInv
<1>1. PICK s \in Session :
             /\ s.user = req[p].user /\ s.device = req[p].device
             /\ s.ct \notin ended
             /\ \A r \in sessions : r.ct # s.ct
             /\ sessions' = sessions \cup {s} /\ ended' = ended
             /\ req[p].op \in Opening /\ req[p].pc = "store"
  BY StoreAdds
<1> DEFINE n == s.ct
           u == s.user
           d == s.device
<1>2. n \in Ids /\ u \in User /\ d \in Place
  BY DEF Session
<1>3. \A e \in Live : e.login # n
  BY <1>1 DEF Live, Entry
<1>4. ASSUME d \in LimitedPlaces
      PROVE  Cardinality({e \in Live : e.user = u /\ e.place = d}) < Limit
  <2>1. req[p].op = "login" /\ Space
    BY <1>1, <1>4 DEF Plain, Opening, TypeInv, TypeOK, Request
  <2>2. Cardinality(On(u, d)) < Limit /\ IsFiniteSet(sessions)
    BY <1>1, <1>4, <2>1 DEF Space, SpaceOf, Entitled
  <2> QED BY <2>2, NoMoreEntries, LimitFacts
<1>5. Live' = Live \cup {[login |-> n, user |-> u, place |-> d]}
  BY <1>1 DEF Live, Entry
<1>6. Registry!Open(n, u, d)
  <2> DEFINE L == {[login |-> r.ct, user |-> r.user, place |-> r.device] : r \in sessions}
  <2>1. L = Live /\ L' = Live'
    BY DEF Live, Entry
  <2> HIDE DEF L
  <2>2. (\A e \in L : e.login # n) /\ L' = L \cup {[login |-> n, user |-> u, place |-> d]}
    BY <1>3, <1>5, <2>1
  <2>3. d \in LimitedPlaces => Cardinality({e \in L : e.user = u /\ e.place = d}) < Limit
    BY <1>4, <2>1
  <2>4. Registry!At(L, u, d) = {e \in L : e.user = u /\ e.place = d}
    BY DEF Registry!At
  <2>5. d \in LimitedPlaces => Registry!Cardinality(Registry!At(L, u, d)) < Limit
    BY <2>3, <2>4, SameCardinality
  <2> QED BY <1>1, <2>2, <2>5, Zenon DEF Registry!Open, L
<1> QED BY <1>2, <1>6 DEF Registry!Next

\* The service implements the registry: every step opens one session where
\* there is room, ends some for good, or is invisible.  It takes the lock to do
\* so only where the policy sets a limit.
THEOREM ServiceImplementsRegistry ==
  ASSUME LimitsAreLocked
  PROVE  Spec => ImplementsRegistry
<1> DEFINE Inv == OpeningInv /\ (LimitedPlaces # {} => Plain /\ Space)
<1>1. Spec => []Inv
  <2>1. Spec => []OpeningInv
    BY OpeningInvariance DEF LimitsAreLocked
  <2>2. CASE LimitedPlaces = {}
    <3>1. OpeningInv => Inv
      BY <2>2
    <3> QED BY <2>1, <3>1, PTL
  <2>3. CASE Plain
    <3>1. PlainInv => Inv
      BY <2>3 DEF PlainInv
    <3>2. Spec => []PlainInv
      BY <2>3, PlainInvariance
    <3> QED BY <3>1, <3>2, PTL
  <2> QED BY <2>2, <2>3 DEF LimitsAreLocked
<1>2. Inv /\ [Next]_vars => [Registry!Next]_(Registry!vars)
  <2> SUFFICES ASSUME Inv, [Next]_vars
               PROVE  [Registry!Next]_(Registry!vars)
    OBVIOUS
  <2>1. TypeInv /\ Handlers /\ Fresh
    BY DEF OpeningInv, LockInv
  <2>2. EndingStep \/ \E p \in Process : Generate(p) \/ Store(p)
    BY <2>1, StepsSorted DEF LimitsAreLocked
  <2>3. CASE EndingStep
    BY <2>1, <2>3, EndingIsEnd
  <2>4. ASSUME NEW p \in Process, Generate(p)
        PROVE  UNCHANGED Registry!vars
    BY <2>1, <2>4, GenerateKeeps DEF Registry!vars
  <2>5. ASSUME NEW p \in Process, Store(p)
        PROVE  Registry!Next
    BY <2>5, StoreIsOpen
  <2> QED BY <2>2, <2>3, <2>4, <2>5
<1> QED BY InitIsRegistryInit, <1>1, <1>2, PTL
        DEF Spec, ImplementsRegistry, Registry!Spec
------------------------------------------------------------------------------
\* Requests get on

\* The steps of the handlers in the order they are taken.
Stage(pc) ==
    CASE pc \in {"acquire", "verify", "kick", "get"} -> 1
      [] pc \in {"policy", "delete"} -> 2
      [] pc = "evict" -> 3
      [] pc = "accounts" -> 4
      [] pc = "scan" -> 5
      [] pc = "evictOwn" -> 6
      [] pc = "generate" -> 7
      [] pc = "store" -> 8
      [] pc \in {"release", "deleteOld"} -> 9
      [] OTHER -> 10

\* A request in state r is further than it was in state q: at a later step, at a
\* later of its tries for the lock, or with a session less on its list.
Ahead(q, r) ==
    \/ Stage(q.pc) < Stage(r.pc)
    \/ q.pc = "acquire" /\ r.pc = "acquire" /\ r.tries = q.tries + 1 /\ r.tries <= Retries
    \/ r.pc = q.pc /\ \E s \in q.todo : r.todo = q.todo \ {s}

\* Every step takes its request ahead, and nothing but the next request of the
\* process sets it back.
RequestsGetOn ==
    [][\A p \in Process :
           /\ Step(p) => Ahead(req[p], req'[p])
           /\ req'[p] # req[p] => req[p].pc = "idle" \/ Ahead(req[p], req'[p])]_vars

\* The lists the loops run over are finite, so no request goes ahead for ever.
ListsAreFinite ==
    /\ IsFiniteSet(sessions)
    /\ \A p \in Process : IsFiniteSet(req[p].todo) /\ IsFiniteSet(req[p].seen)

LEMMA StageOrder ==
  /\ \A pc \in PC : Stage(pc) \in 1..10
  /\ \A pc \in PC \ {"idle"} : Stage(pc) < 10
  /\ \A pc \in LoginPC \ {"release"} : Stage(pc) < 9
  /\ Stage("acquire") = 1 /\ Stage("verify") = 1 /\ Stage("get") = 1 /\ Stage("kick") = 1
  /\ Stage("policy") = 2 /\ Stage("delete") = 2 /\ Stage("evict") = 3
  /\ Stage("accounts") = 4 /\ Stage("scan") = 5 /\ Stage("evictOwn") = 6
  /\ Stage("generate") = 7 /\ Stage("store") = 8 /\ Stage("release") = 9
  /\ Stage("deleteOld") = 9 /\ Stage("idle") = 10
  BY DEF Stage, PC, LoginPC

\* The handlers without a loop, and login where it has none.
LEMMA StraightStepGoesAhead ==
  ASSUME TypeInv, NEW p \in Process,
         \/ ListDevice(p) \/ Generate(p) \/ Store(p) \/ Release(p) \/ Verify(p)
         \/ Delete(p) \/ Kick(p) \/ Get(p) \/ DeleteOld(p) \/ Fail(p) \/ Crash(p)
  PROVE  Ahead(req[p], req'[p])
<1>1. /\ req \in [Process -> Request] /\ req[p] \in Request
      /\ req[p].op = "login" => req[p].pc \in LoginPC
  BY DEF TypeInv, TypeOK, RequestsWellFormed, WellFormed
<1>2. req[p].pc \in PC
  BY <1>1 DEF Request
<1>3. CASE req' = [req EXCEPT ![p] = Idle] /\ req[p].pc # "idle"
  BY <1>1, <1>2, <1>3, StageOrder DEF Ahead, Idle, New
<1>4. ASSUME NEW pc \in PC, req' = [req EXCEPT ![p].pc = pc], Stage(req[p].pc) < Stage(pc)
      PROVE  Ahead(req[p], req'[p])
  BY <1>1, <1>4 DEF Ahead, Request
<1>5. CASE Release(p) \/ Delete(p) \/ Kick(p) \/ DeleteOld(p) \/ Crash(p)
  BY <1>3, <1>5 DEF Release, Delete, Kick, DeleteOld, Crash, Finish
<1>6. CASE Verify(p)
  BY <1>3, <1>4, <1>6, StageOrder DEF Verify, Finish, Goto, PC
<1>7. CASE Fail(p)
  <2>1. req[p].pc # "idle"
    BY <1>7 DEF Fail
  <2>2. CASE Goto(p, "release") /\ req[p].op = "login" /\ req[p].pc \notin {"acquire", "release"}
    <3>1. req' = [req EXCEPT ![p].pc = "release"]
      BY <1>7, <2>2 DEF Fail, Goto
    <3>2. Stage(req[p].pc) < Stage("release")
      BY <1>1, <2>1, <2>2, StageOrder
    <3> QED BY <1>4, <3>1, <3>2 DEF PC
  <2> QED BY <1>3, <1>7, <2>1, <2>2 DEF Fail, Finish
<1>8. CASE Generate(p)
  BY <1>8, GenerateKeeps, StageOrder DEF Ahead
<1>9. CASE Store(p)
  <2>1. req[p].pc = "store"
    BY <1>9 DEF Store
  <2>2. \/ req' = [req EXCEPT ![p].pc = "release"]
        \/ req' = [req EXCEPT ![p].pc = "deleteOld"]
        \/ req' = [req EXCEPT ![p] = Idle]
    BY <1>9 DEF Store, Goto, Finish
  <2> QED BY <1>3, <1>4, <2>1, <2>2, StageOrder DEF PC
<1>10. CASE Get(p)
  <2>1. req[p].pc = "get"
    BY <1>10 DEF Get
  <2>2. CASE WithId(req[p].sid) = {}
    BY <1>3, <1>10, <2>1, <2>2 DEF Get, Finish
  <2>3. CASE WithId(req[p].sid) # {}
    <3>1. PICK data :
              req' = [req EXCEPT ![p].data = data,
                                 ![p].pc = IF req[p].op = "rotate" THEN "generate" ELSE "store"]
      BY <1>10, <2>3 DEF Get
    <3>2. req'[p].pc \in {"generate", "store"}
      BY <1>1, <3>1 DEF Request
    <3> QED BY <2>1, <3>2, StageOrder DEF Ahead
  <2> QED BY <2>2, <2>3
<1>11. CASE ListDevice(p)
  <2>1. req[p].pc = "accounts" /\ req'[p].pc = "scan"
    BY <1>1, <1>11 DEF ListDevice, Request
  <2> QED BY <2>1, StageOrder DEF Ahead
<1> QED BY <1>5, <1>6, <1>7, <1>8, <1>9, <1>10, <1>11

\* The retries for the lock and the loops over listed sessions.
LEMMA LoopStepGoesAhead ==
  ASSUME TypeInv, NEW p \in Process,
         Acquire(p) \/ ApplyPolicy(p) \/ EvictOldest(p) \/ ScanSession(p) \/ DecideAccounts(p)
  PROVE  Ahead(req[p], req'[p])
<1>1. req \in [Process -> Request] /\ req[p] \in Request /\ Retries \in Nat
  BY AuthAssumption DEF TypeInv, TypeOK
<1>2. CASE Acquire(p)
  <2>1. req[p].pc = "acquire"
    BY <1>2 DEF Acquire
  <2>2. CASE req' = [req EXCEPT ![p].pc = "policy"]
    BY <1>1, <2>1, <2>2, StageOrder DEF Ahead, Request
  <2>3. CASE req' = [req EXCEPT ![p].tries = @ + 1] /\ req[p].tries < Retries
    <3>1. req'[p].pc = "acquire" /\ req'[p].tries = req[p].tries + 1 /\ req[p].tries \in Nat
      BY <1>1, <2>1, <2>3 DEF Request
    <3> QED BY <1>1, <2>1, <2>3, <3>1 DEF Ahead
  <2>4. CASE req' = [req EXCEPT ![p] = Idle]
    BY <1>1, <2>1, <2>4, StageOrder DEF Ahead, Idle, New
  <2> QED BY <1>2, <2>2, <2>3, <2>4 DEF Acquire, Goto, Finish
<1>3. CASE ApplyPolicy(p)
  <2>1. req[p].pc = "policy"
    BY <1>3 DEF ApplyPolicy
  <2>2. CASE req' = [req EXCEPT ![p].pc = AfterPolicy(req[p].device)]
    <3>1. req'[p].pc \in {"accounts", "generate"}
      BY <1>1, <2>2, AfterPolicyStep DEF Request
    <3> QED BY <2>1, <3>1, StageOrder DEF Ahead
  <2>3. ASSUME NEW del,
               req' = [req EXCEPT ![p].todo = del,
                          ![p].pc = IF del = {} THEN AfterPolicy(req[p].device) ELSE "evict"]
        PROVE  Ahead(req[p], req'[p])
    <3>1. req'[p].pc \in {"accounts", "generate", "evict"}
      BY <1>1, <2>3, AfterPolicyStep DEF Request
    <3> QED BY <2>1, <3>1, StageOrder DEF Ahead
  <2> QED BY <1>3, <2>2, <2>3 DEF ApplyPolicy, Goto
<1>4. CASE EvictOldest(p)
  <2>1. req[p].pc \in {"evict", "evictOwn"}
    BY <1>4 DEF EvictOldest
  <2>2. PICK s \in req[p].todo :
             req' = [req EXCEPT
                  ![p].todo = @ \ {s},
                  ![p].pc = IF req[p].todo # {s} THEN @
                            ELSE IF @ = "evict" THEN AfterPolicy(req[p].device)
                            ELSE "generate"]
    BY <1>4 DEF EvictOldest
  <2>3. /\ req'[p].todo = req[p].todo \ {s}
        /\ \/ req'[p].pc = req[p].pc
           \/ req'[p].pc \in {"accounts", "generate"} /\ req[p].pc = "evict"
           \/ req'[p].pc = "generate"
    BY <1>1, <2>1, <2>2, AfterPolicyStep DEF Request
  <2> QED BY <2>1, <2>3, StageOrder DEF Ahead
<1>5. CASE ScanSession(p)
  <2>1. PICK s \in req[p].todo :
            req' = [req EXCEPT ![p].todo = @ \ {s}, ![p].seen = @ \cup WithId(s.id)]
    BY <1>5 DEF ScanSession
  <2>2. req'[p].pc = req[p].pc /\ req'[p].todo = req[p].todo \ {s}
    BY <1>1, <2>1 DEF Request
  <2> QED BY <2>2 DEF Ahead
<1>6. CASE DecideAccounts(p)
  <2>1. req[p].pc = "scan"
    BY <1>6 DEF DecideAccounts
  <2>2. CASE req' = [req EXCEPT ![p].pc = "release"]
    BY <1>1, <2>1, <2>2, StageOrder DEF Ahead, Request
  <2>3. ASSUME NEW del,
               req' = [req EXCEPT ![p].todo = del,
                          ![p].pc = IF del = {} THEN "generate" ELSE "evictOwn"]
        PROVE  Ahead(req[p], req'[p])
    <3>1. req'[p].pc \in {"generate", "evictOwn"}
      BY <1>1, <2>3 DEF Request
    <3> QED BY <2>1, <3>1, StageOrder DEF Ahead
  <2> QED BY <1>6, <2>2, <2>3 DEF DecideAccounts, Goto
<1> QED BY <1>2, <1>3, <1>4, <1>5, <1>6

\* A step of p leaves the other requests alone.
LEMMA StepsAreOwn ==
  ASSUME TypeInv, NEW p \in Process, Arrive(p) \/ Step(p) \/ Fail(p) \/ Crash(p)
  PROVE  \A q \in Process : q # p => req'[q] = req[q]
<1>1. req \in [Process -> Request]
  BY DEF TypeInv, TypeOK
<1>2. CASE ApplyPolicy(p) \/ EvictOldest(p) \/ ListDevice(p) \/ ScanSession(p)
           \/ DecideAccounts(p) \/ Generate(p) \/ Store(p)
  BY <1>2, LoginStepKeeps, GenerateKeeps, StoreKeeps DEF Keeps
<1>3. CASE Arrive(p)
  BY <1>3, ArriveKeepsOthers
<1>4. CASE Acquire(p) \/ Release(p) \/ Verify(p) \/ Delete(p) \/ Kick(p) \/ DeleteOld(p)
           \/ Fail(p) \/ Crash(p)
  BY <1>1, <1>4 DEF Acquire, Release, Verify, Delete, Kick, DeleteOld, Fail, Crash, Finish, Goto
<1>5. CASE Get(p)
  BY <1>1, <1>5 DEF Get, Finish
<1> QED BY <1>2, <1>3, <1>4, <1>5 DEF Step

LEMMA RequestsAdvance ==
  TypeInv /\ [Next]_vars =>
      [\A p \in Process :
           /\ Step(p) => Ahead(req[p], req'[p])
           /\ req'[p] # req[p] => req[p].pc = "idle" \/ Ahead(req[p], req'[p])]_vars
<1> SUFFICES ASSUME TypeInv, [Next]_vars, NEW p \in Process, vars' # vars
             PROVE  /\ Step(p) => Ahead(req[p], req'[p])
                    /\ req'[p] # req[p] => req[p].pc = "idle" \/ Ahead(req[p], req'[p])
  OBVIOUS
<1>1. ASSUME Step(p) \/ Fail(p) \/ Crash(p)
      PROVE  Ahead(req[p], req'[p])
  BY <1>1, StraightStepGoesAhead, LoopStepGoesAhead DEF Step
<1>2. ASSUME Arrive(p)
      PROVE  req[p].pc = "idle"
  BY <1>2, ArriveKeepsOthers
<1>3. ASSUME NEW q \in Process, q # p, Arrive(q) \/ Step(q) \/ Fail(q) \/ Crash(q)
      PROVE  req'[p] = req[p]
  BY <1>3, StepsAreOwn
<1>4. ASSUME NEW s, ExpireSession(s)
      PROVE  req' = req
  BY <1>4 DEF ExpireSession
<1>5. ASSUME NEW k, ExpireLock(k)
      PROVE  req' = req
  BY <1>5 DEF ExpireLock
<1>6. req'[p] # req[p] => req[p].pc = "idle" \/ Ahead(req[p], req'[p])
  BY <1>1, <1>2, <1>3, <1>4, <1>5 DEF Next
<1> QED BY <1>1, <1>6

\* What a request lists or has got is part of what is stored or was listed.
LEMMA ListsComeFromTheStore ==
  ASSUME TypeInv, ListsAreFinite, NEW p \in Process,
         \/ Acquire(p) \/ ApplyPolicy(p) \/ EvictOldest(p) \/ ListDevice(p)
         \/ ScanSession(p) \/ DecideAccounts(p)
  PROVE  IsFiniteSet(req'[p].todo) /\ IsFiniteSet(req'[p].seen)
<1>1. /\ req \in [Process -> Request] /\ req[p] \in Request
      /\ IsFiniteSet(sessions) /\ IsFiniteSet(req[p].todo) /\ IsFiniteSet(req[p].seen)
  BY DEF TypeInv, TypeOK, ListsAreFinite
<1>2. IsFiniteSet({})
  BY FS_EmptySet
<1>3. ASSUME NEW S, IsFiniteSet(S), NEW del \in Overflows(S)
      PROVE  IsFiniteSet(del)
  <2>1. del \in SUBSET S
    BY <1>3 DEF Overflows
  <2> QED BY <1>3, <2>1, FS_Subset
<1>4. \A S \in SUBSET sessions : IsFiniteSet(S)
  BY <1>1, FS_Subset
<1>5. CASE ApplyPolicy(p)
  <2>1. CASE req' = [req EXCEPT ![p].pc = AfterPolicy(req[p].device)]
    BY <1>1, <2>1 DEF Request
  <2>2. ASSUME NEW del \in Overflows(On(req[p].user, req[p].device)),
               req' = [req EXCEPT ![p].todo = del,
                          ![p].pc = IF del = {} THEN AfterPolicy(req[p].device) ELSE "evict"]
        PROVE  IsFiniteSet(req'[p].todo) /\ IsFiniteSet(req'[p].seen)
    <3>1. IsFiniteSet(On(req[p].user, req[p].device))
      BY <1>4 DEF On
    <3>2. IsFiniteSet(del)
      BY <1>3, <3>1
    <3> QED BY <1>1, <2>2, <3>2 DEF Request
  <2> QED BY <1>5, <2>1, <2>2 DEF ApplyPolicy, Goto
<1>6. CASE EvictOldest(p)
  <2>1. PICK s \in req[p].todo :
             req' = [req EXCEPT
                  ![p].todo = @ \ {s},
                  ![p].pc = IF req[p].todo # {s} THEN @
                            ELSE IF @ = "evict" THEN AfterPolicy(req[p].device)
                            ELSE "generate"]
    BY <1>6 DEF EvictOldest
  <2>2. req'[p].todo = req[p].todo \ {s} /\ req'[p].seen = req[p].seen
    BY <1>1, <2>1 DEF Request
  <2> QED BY <1>1, <2>2, FS_RemoveElement
<1>7. CASE ListDevice(p)
  <2>1. IsFiniteSet(OnDevice(req[p].device))
    BY <1>4 DEF OnDevice
  <2>2. req'[p].todo = OnDevice(req[p].device) /\ req'[p].seen = req[p].seen
    BY <1>1, <1>7 DEF ListDevice, Request
  <2> QED BY <1>1, <2>1, <2>2
<1>8. CASE ScanSession(p)
  <2>1. PICK s \in req[p].todo :
            req' = [req EXCEPT ![p].todo = @ \ {s}, ![p].seen = @ \cup WithId(s.id)]
    BY <1>8 DEF ScanSession
  <2>2. req'[p].todo = req[p].todo \ {s} /\ req'[p].seen = req[p].seen \cup WithId(s.id)
    BY <1>1, <2>1 DEF Request
  <2>3. IsFiniteSet(WithId(s.id))
    BY <1>4 DEF WithId
  <2>4. IsFiniteSet(req[p].todo \ {s})
    BY <1>1, FS_RemoveElement
  <2>5. IsFiniteSet(req[p].seen \cup WithId(s.id))
    BY <1>1, <2>3, FS_Union
  <2> QED BY <2>2, <2>4, <2>5
<1>9. CASE DecideAccounts(p)
  <2>1. CASE req' = [req EXCEPT ![p].pc = "release"]
    BY <1>1, <2>1 DEF Request
  <2>2. ASSUME NEW own \in SUBSET req[p].seen, NEW del \in Overflows(own),
               req' = [req EXCEPT ![p].todo = del,
                          ![p].pc = IF del = {} THEN "generate" ELSE "evictOwn"]
        PROVE  IsFiniteSet(req'[p].todo) /\ IsFiniteSet(req'[p].seen)
    <3>1. IsFiniteSet(del)
      BY <1>1, <1>3, FS_Subset
    <3> QED BY <1>1, <2>2, <3>1 DEF Request
  <2> QED BY <1>9, <2>1, <2>2 DEF DecideAccounts, Goto
<1>10. CASE Acquire(p)
  <2>1. CASE req' = [req EXCEPT ![p] = Idle]
    BY <1>1, <1>2, <2>1 DEF Idle, New
  <2> QED BY <1>1, <1>10, <2>1 DEF Acquire, Goto, Finish, Request
<1> QED BY <1>5, <1>6, <1>7, <1>8, <1>9, <1>10

\* The other steps keep the lists or drop them.
LEMMA OtherStepsKeepLists ==
  ASSUME TypeInv, ListsAreFinite, NEW p \in Process,
         \/ Generate(p) \/ Store(p) \/ Release(p) \/ Verify(p) \/ Delete(p) \/ Kick(p)
         \/ Get(p) \/ DeleteOld(p) \/ Fail(p) \/ Crash(p) \/ Arrive(p)
  PROVE  IsFiniteSet(req'[p].todo) /\ IsFiniteSet(req'[p].seen)
<1>1. /\ req \in [Process -> Request] /\ req[p] \in Request
      /\ IsFiniteSet(req[p].todo) /\ IsFiniteSet(req[p].seen) /\ IsFiniteSet({})
  BY FS_EmptySet DEF TypeInv, TypeOK, ListsAreFinite
<1>2. ASSUME NEW r, req' = [req EXCEPT ![p] = r], r.todo = {} /\ r.seen = {}
      PROVE  IsFiniteSet(req'[p].todo) /\ IsFiniteSet(req'[p].seen)
  BY <1>1, <1>2
<1>3. Idle.todo = {} /\ Idle.seen = {}
  BY DEF Idle, New
<1>4. ASSUME NEW data, NEW pc, req' = [req EXCEPT ![p].pc = pc, ![p].data = data]
      PROVE  IsFiniteSet(req'[p].todo) /\ IsFiniteSet(req'[p].seen)
  BY <1>1, <1>4 DEF Request
<1>5. ASSUME NEW pc, req' = [req EXCEPT ![p].pc = pc]
      PROVE  IsFiniteSet(req'[p].todo) /\ IsFiniteSet(req'[p].seen)
  BY <1>1, <1>5 DEF Request
<1>6. CASE Generate(p)
  <2>1. \E data : req' = [req EXCEPT ![p].pc = "store", ![p].data = data]
    <3>1. CASE req[p].op = "rotate" BY <1>6, <3>1 DEF Generate
    <3>2. CASE req[p].op # "rotate" BY <1>6, <3>2 DEF Generate
    <3> QED BY <3>1, <3>2
  <2> QED BY <1>4, <2>1
<1>7. CASE Get(p)
  <2>1. CASE WithId(req[p].sid) = {}
    BY <1>2, <1>3, <1>7, <2>1 DEF Get, Finish
  <2>2. CASE WithId(req[p].sid) # {}
    <3>1. PICK data, pc : req' = [req EXCEPT ![p].data = data, ![p].pc = pc]
      BY <1>7, <2>2 DEF Get
    <3> QED BY <1>1, <3>1 DEF Request
  <2> QED BY <2>1, <2>2
<1>8. CASE Store(p) \/ Release(p) \/ Verify(p) \/ Delete(p) \/ Kick(p) \/ DeleteOld(p)
           \/ Fail(p) \/ Crash(p)
  <2>1. req' = [req EXCEPT ![p] = Idle] \/ \E pc : req' = [req EXCEPT ![p].pc = pc]
    BY <1>8 DEF Store, Release, Verify, Delete, Kick, DeleteOld, Fail, Crash, Finish, Goto
  <2> QED BY <1>2, <1>3, <1>5, <2>1
<1>9. CASE Arrive(p)
  <2>1. ASSUME NEW op, NEW pc, NEW u, NEW d, NEW i, Begin(p, New(op, pc, u, d, i))
        PROVE  IsFiniteSet(req'[p].todo) /\ IsFiniteSet(req'[p].seen)
    <3> PICK r : r = New(op, pc, u, d, i)
      OBVIOUS
    <3>1. r.todo = {} /\ r.seen = {}
      BY DEF New
    <3>2. req' = [req EXCEPT ![p] = r]
      BY <2>1 DEF Begin
    <3> QED BY <1>2, <3>1, <3>2
  <2> QED BY <1>9, <2>1 DEF Arrive, BeginLogin, BeginSwitchIdentity, BeginKick, BeginLogout,
         BeginForceLogout, BeginRotate, BeginSafeAuth, ForUser, ForSession
<1> QED BY <1>6, <1>7, <1>8, <1>9

\* A step stores one session at most.
LEMMA StoreStaysFinite ==
  ASSUME IsFiniteSet(sessions), [Next]_vars
  PROVE  IsFiniteSet(sessions')
<1>1. ASSUME NEW T \in SUBSET sessions, NEW x
      PROVE  IsFiniteSet(T) /\ IsFiniteSet(T \cup {x})
  BY FS_Subset, FS_AddElement
<1>2. ASSUME NEW p \in Process, Store(p)
      PROVE  IsFiniteSet(sessions')
  <2>1. PICK s : sessions' = {r \in sessions : r.id # s.id} \cup {s}
    BY <1>2 DEF Store
  <2> QED BY <1>1, <2>1
<1>3. ASSUME ~\E p \in Process : Store(p)
      PROVE  sessions' \in SUBSET sessions
  <2>1. ASSUME NEW p \in Process, Arrive(p)
        PROVE  sessions' = sessions
    BY <2>1 DEF Arrive, Begin, BeginLogin, BeginSwitchIdentity, BeginKick, BeginLogout,
       BeginForceLogout, BeginRotate, BeginSafeAuth
  <2>2. ASSUME NEW p \in Process, Step(p), ~Store(p)
        PROVE  sessions' \in SUBSET sessions
    BY <2>2 DEF Step, Acquire, ApplyPolicy, EvictOldest, ListDevice, ScanSession, DecideAccounts,
       Generate, Release, Verify, Delete, Kick, Get, DeleteOld, EndSessions
  <2>3. ASSUME NEW p \in Process, Fail(p) \/ Crash(p)
        PROVE  sessions' = sessions
    BY <2>3 DEF Fail, Crash
  <2>4. ASSUME NEW s, ExpireSession(s)
        PROVE  sessions' \in SUBSET sessions
    BY <2>4 DEF ExpireSession, EndSessions
  <2>5. ASSUME NEW k, ExpireLock(k)
        PROVE  sessions' = sessions
    BY <2>5 DEF ExpireLock
  <2>6. CASE UNCHANGED vars
    BY <2>6 DEF vars
  <2> QED BY <1>3, <2>1, <2>2, <2>3, <2>4, <2>5, <2>6 DEF Next
<1> QED BY <1>1, <1>2, <1>3

LEMMA ListsStayFinite == TypeInv /\ ListsAreFinite /\ [Next]_vars => ListsAreFinite'
<1> SUFFICES ASSUME TypeInv, ListsAreFinite, [Next]_vars PROVE ListsAreFinite'
  OBVIOUS
<1>1. IsFiniteSet(sessions')
  BY StoreStaysFinite DEF ListsAreFinite
<1>2. ASSUME NEW p \in Process, Arrive(p) \/ Step(p) \/ Fail(p) \/ Crash(p)
      PROVE  \A q \in Process : IsFiniteSet(req'[q].todo) /\ IsFiniteSet(req'[q].seen)
  <2>1. IsFiniteSet(req'[p].todo) /\ IsFiniteSet(req'[p].seen)
    BY <1>2, ListsComeFromTheStore, OtherStepsKeepLists DEF Step
  <2>2. \A q \in Process : q # p => req'[q] = req[q]
    BY <1>2, StepsAreOwn
  <2> QED BY <2>1, <2>2 DEF ListsAreFinite
<1>3. CASE req' = req
  <2>1. \A q \in Process : IsFiniteSet(req[q].todo) /\ IsFiniteSet(req[q].seen)
    BY DEF ListsAreFinite
  <2> QED BY <1>1, <1>3, <2>1 DEF ListsAreFinite
<1>4. (\E p \in Process : Arrive(p) \/ Step(p) \/ Fail(p) \/ Crash(p)) \/ req' = req
  BY DEF Next, ExpireSession, ExpireLock, vars
<1>5. \A q \in Process : IsFiniteSet(req'[q].todo) /\ IsFiniteSet(req'[q].seen)
  BY <1>2, <1>3, <1>4 DEF ListsAreFinite
<1> QED BY <1>1, <1>5 DEF ListsAreFinite

\* No request runs in a circle: each step takes it to a later step of its handler,
\* uses up one of its tries for the lock, or a session of a list that is finite.
\* This is what RequestsEnd needs besides fairness.
THEOREM RequestsDoNotLoop == Spec => RequestsGetOn /\ []ListsAreFinite
<1>1. Init => ListsAreFinite
  BY FS_EmptySet DEF Init, Idle, New, ListsAreFinite
<1>2. Spec => []ListsAreFinite
  BY <1>1, ListsStayFinite, TypeInitially, TypePreserved, PTL DEF Spec
<1>3. Spec => RequestsGetOn
  BY RequestsAdvance, TypeInvariance, PTL DEF Spec, RequestsGetOn
<1> QED BY <1>2, <1>3

===============================================================================
