--------------------------- MODULE RedisStoreProofs ---------------------------
(***************************************************************************)
(* Proofs about RedisStore: the state has its type; every live session     *)
(* that is no orphan is listed under its user and its device; and a delete *)
(* by user reaches every session that was alive when it was called and not *)
(* written since.                                                          *)
(*                                                                         *)
(* The state invariant behind the last two is about time as much as about  *)
(* ids: an index lists a session and expires no earlier than the session   *)
(* (Listed), so that a tick which takes the index took the session, too.   *)
(* A delete in flight has read, or will find, every session it must delete *)
(* (ReachesAll): a session can leave what the delete read only by being    *)
(* deleted, written again or orphaned.                                     *)
(*                                                                         *)
(* With one ttl for all, and deletes of single sessions only, there are no *)
(* orphans (NoOrphansInv): then every live session is listed.              *)
(***************************************************************************)
EXTENDS RedisStore, TLAPS

Entry == [ids : SUBSET SessionId, expireAt : Nat]

\* The keys of f, a value of index, at time now.
AreIndexes(f, now) ==
    /\ DOMAIN f \subseteq Name
    /\ \A n \in DOMAIN f : /\ f[n] \in Entry /\ f[n].ids # {}
                           /\ f[n].expireAt \in now + 1 .. Forever

\* The keys of f, a value of sessions, at time now.
AreSessions(f, now) ==
    /\ DOMAIN f \subseteq SessionId
    /\ \A s \in DOMAIN f : f[s] \in now + 1 .. Forever

TypeInv ==
    /\ clock \in Nat /\ clock <= MaxClock
    /\ AreSessions(sessions, clock)
    /\ AreIndexes(index, clock)
    /\ call \in [Process -> Call]
    /\ orphans \subseteq SessionId

\* A session that is no orphan is listed, and its indexes outlive it.
Listed ==
    \A s \in DOMAIN sessions \ orphans : \A n \in NamesOf(s) :
        n \in DOMAIN index /\ s \in index[n].ids /\ sessions[s] <= index[n].expireAt

\* delete takes out of the indexes only what it deletes.
FindsItsOwn(c) == c.pc = "remove" => c.found \subseteq c.ids

\* Of the sessions that were alive when the delete c was called, those still
\* alive and not orphaned are of the user and the device it was called for, are
\* among the ids it read, and among the sessions it found.
ReachesAll(c) ==
    \A s \in (c.before \cap DOMAIN sessions) \ orphans :
        /\ c.pc \in {"data", "purge"} /\ s \in c.ids
        /\ c.device \in {s[2], NoDevice}
        /\ c.pc = "purge" => s \in c.found

ListingInv ==
    /\ Listed
    /\ \A p \in Process : FindsItsOwn(call[p]) /\ ReachesAll(call[p])
------------------------------------------------------------------------------
(* The operators. *)

\* The names of a session are index keys, its user's among them.
LEMMA NamesAreNames ==
  ASSUME NEW s \in SessionId
  PROVE  /\ NamesOf(s) \subseteq Name
         /\ <<"user", s[1]>> \in NamesOf(s) /\ s[1] \in User /\ s[2] \in Device \cup {NoDevice}
BY DEF NamesOf, Name, SessionId

\* SREM leaves an index what is not removed, its expiry, and never empty.
LEMMA RemovedKeeps ==
  ASSUME NEW now \in Nat, AreIndexes(index, now), NEW S, NEW N
  PROVE  /\ AreIndexes(Removed(S, N), now)
         /\ DOMAIN Removed(S, N) \subseteq DOMAIN index
         /\ \A n \in DOMAIN index, s \in SessionId :
                s \in index[n].ids /\ (s \notin S \/ n \notin N) =>
                    /\ n \in DOMAIN Removed(S, N)
                    /\ s \in Removed(S, N)[n].ids
                    /\ Removed(S, N)[n].expireAt = index[n].expireAt
<1> DEFINE kept == {n \in DOMAIN index : ~(n \in N /\ index[n].ids \subseteq S)}
           R == Removed(S, N)
<1>1. /\ DOMAIN R = kept
      /\ \A n \in kept : R[n] = IF n \in N THEN [index[n] EXCEPT !.ids = @ \ S] ELSE index[n]
  BY DEF Removed
<1>2. ASSUME NEW n \in kept
      PROVE  /\ R[n] \in Entry /\ R[n].expireAt = index[n].expireAt /\ R[n].ids # {}
             /\ R[n].ids = IF n \in N THEN index[n].ids \ S ELSE index[n].ids
  <2>1. index[n] \in Entry /\ index[n].ids # {}
    BY DEF AreIndexes
  <2>2. CASE n \in N
    <3>1. R[n] = [index[n] EXCEPT !.ids = @ \ S]
      BY <1>1, <2>2
    <3>2. R[n].ids = index[n].ids \ S /\ R[n].expireAt = index[n].expireAt /\ R[n] \in Entry
      BY <2>1, <3>1 DEF Entry
    <3>3. ~(index[n].ids \subseteq S)
      BY <2>2
    <3> QED BY <2>2, <3>2, <3>3
  <2>3. CASE n \notin N
    BY <1>1, <2>1, <2>3
  <2> QED BY <2>2, <2>3
<1>3. AreIndexes(R, now)
  BY <1>1, <1>2 DEF AreIndexes
<1>4. ASSUME NEW n \in DOMAIN index, NEW s \in SessionId,
             s \in index[n].ids, s \notin S \/ n \notin N
      PROVE  n \in DOMAIN R /\ s \in R[n].ids /\ R[n].expireAt = index[n].expireAt
  <2>1. n \in kept
    BY <1>4
  <2> QED BY <1>1, <1>2, <1>4, <2>1
<1> QED BY <1>1, <1>3, <1>4

\* DEL of an index, after SREM.
LEMMA WithoutKeeps ==
  ASSUME NEW now \in Nat, NEW f, AreIndexes(f, now), NEW S
  PROVE  /\ AreIndexes(Without(f, S), now)
         /\ DOMAIN Without(f, S) = DOMAIN f \ S
         /\ \A n \in DOMAIN f \ S : Without(f, S)[n] = f[n]
BY DEF AreIndexes, Without

\* DEL of session keys.
LEMMA WithoutSessions ==
  ASSUME NEW S
  PROVE  /\ DOMAIN Without(sessions, S) = DOMAIN sessions \ S
         /\ \A s \in DOMAIN sessions \ S : Without(sessions, S)[s] = sessions[s]
         /\ AreSessions(sessions, clock) => AreSessions(Without(sessions, S), clock)
BY DEF Without, AreSessions

\* When a key set now expires.
LEMMA ExpiryFits ==
  ASSUME TypeInv, NEW ttl \in Ttls
  PROVE  /\ ttl \in Nat /\ Slack \in Nat /\ Forever \in Nat
         /\ Forever \in clock + 1 .. Forever
         /\ ttl # 0 => /\ clock + ttl \in clock + 1 .. Forever
                       /\ clock + ttl + Slack \in clock + 1 .. Forever
         /\ clock + ttl <= Forever
BY RedisAssumption DEF TypeInv

\* SADD and EXPIRE leave indexes as Redis has them.
LEMMA AddedKeepsIndexes ==
  ASSUME TypeInv, NEW s \in SessionId, NEW ttl \in Ttls, NEW N, N \subseteq NamesOf(s), NEW T
  PROVE  AreIndexes(Added(s, ttl, N, T), clock)
<1> DEFINE A == Added(s, ttl, N, T)
<1>1. /\ DOMAIN A = DOMAIN index \cup N
      /\ \A n \in DOMAIN A :
            A[n] = IF n \notin N THEN index[n]
                   ELSE [ids |-> Members(n) \cup {s},
                         expireAt |-> IF ttl = 0 \/ n \notin T THEN IndexTtl(n)
                                      ELSE clock + ttl + Slack]
  BY DEF Added
<1>2. ASSUME NEW n \in N
      PROVE  /\ A[n] \in Entry /\ A[n].ids # {}
             /\ A[n].expireAt \in clock + 1 .. Forever
  <2>1. Members(n) \subseteq SessionId
    BY DEF Members, TypeInv, AreIndexes, Entry
  <2>2. IndexTtl(n) \in clock + 1 .. Forever
    BY ExpiryFits DEF IndexTtl, TypeInv, AreIndexes
  <2> DEFINE e == IF ttl = 0 \/ n \notin T THEN IndexTtl(n) ELSE clock + ttl + Slack
  <2>3. e \in clock + 1 .. Forever
    BY <2>2, ExpiryFits
  <2>4. e \in Nat
    BY <2>3 DEF TypeInv
  <2>5. A[n] = [ids |-> Members(n) \cup {s}, expireAt |-> e]
    BY <1>1
  <2> HIDE DEF e
  <2> QED BY <2>1, <2>3, <2>4, <2>5 DEF Entry
<1>3. \A n \in DOMAIN index \ N : A[n] = index[n]
  BY <1>1
<1>4. AreIndexes(A, clock)
  <2>1. DOMAIN A \subseteq Name
    BY <1>1, NamesAreNames DEF TypeInv, AreIndexes
  <2>2. ASSUME NEW n \in DOMAIN A
        PROVE  A[n] \in Entry /\ A[n].ids # {} /\ A[n].expireAt \in clock + 1 .. Forever
    <3>1. CASE n \in N
      BY <1>2, <3>1
    <3>2. CASE n \notin N
      BY <1>1, <1>3, <3>2 DEF TypeInv, AreIndexes
    <3> QED BY <3>1, <3>2
  <2> QED BY <2>1, <2>2 DEF AreIndexes
<1> QED BY <1>4

\* What a set does, whether it breaks off or not.
Writes(s, ttl) == \E N, T \in SUBSET NamesOf(s) : Write(s, End(ttl), ttl, N, T)

LEMMA SetsWrite ==
  ASSUME NEW s, NEW ttl, Set(s, ttl) \/ SetPartly(s, ttl)
  PROVE  Writes(s, ttl)
BY DEF Set, SetPartly, Writes

------------------------------------------------------------------------------
(* Types. *)

LEMMA CallsKeepType ==
  ASSUME TypeInv
  PROVE  /\ NoCall \in Call
         /\ \A p \in Process : call[p] \in Call
BY RedisAssumption DEF TypeInv, NoCall, Call, AnyUser

LEMMA TypeInitially == Init => TypeInv
BY RedisAssumption DEF Init, TypeInv, AreSessions, AreIndexes, NoCall, Call, AnyUser

LEMMA SetKeepsType ==
  ASSUME TypeInv, NEW s \in SessionId, NEW ttl \in Ttls, Writes(s, ttl)
  PROVE  TypeInv'
<1> PICK N, T \in SUBSET NamesOf(s) : Write(s, End(ttl), ttl, N, T)
  BY DEF Writes
<1>1. clock' = clock /\ AreIndexes(index', clock)
  BY AddedKeepsIndexes DEF Write
<1>2. End(ttl) \in clock + 1 .. Forever
  BY ExpiryFits DEF End
<1>3. sessions' = With(sessions, s, End(ttl))
  BY DEF Write
<1>4. AreSessions(sessions', clock)
  BY <1>2, <1>3 DEF With, AreSessions, TypeInv
<1>5. call' \in [Process -> Call]
  <2>1. call' = [p \in Process |-> [call[p] EXCEPT !.before = @ \ {s}]]
    BY DEF Write
  <2>2. \A p \in Process : [call[p] EXCEPT !.before = @ \ {s}] \in Call
    BY CallsKeepType DEF Call
  <2> QED BY <2>1, <2>2
<1>6. orphans' \subseteq SessionId
  BY <1>4 DEF Write, TypeInv, Outliving, Unlisted, AreSessions
<1> QED BY <1>1, <1>4, <1>5, <1>6 DEF TypeInv

LEMMA RenewKeepsType ==
  ASSUME TypeInv, NEW s \in SessionId, NEW ttl \in Ttls, Renew(s, ttl)
  PROVE  TypeInv'
<1>1. UNCHANGED <<clock, index, call>> /\ sessions' = [sessions EXCEPT ![s] = clock + ttl]
  BY DEF Renew
<1>2. clock + ttl \in clock + 1 .. Forever
  BY ExpiryFits DEF Renew
<1>3. AreSessions(sessions', clock)
  BY <1>1, <1>2 DEF AreSessions, TypeInv
<1>4. orphans' \subseteq SessionId
  BY <1>3 DEF Renew, TypeInv, Outliving, AreSessions
<1> QED BY <1>1, <1>3, <1>4 DEF TypeInv

\* The calls that only look, and the call that fails.
LEMMA LooksKeepType ==
  ASSUME TypeInv, NEW p \in Process,
         \/ \E s \in SessionId : DeleteGet(p, s)
         \/ \E u \in User, d \in Device \cup {NoDevice} : ListUser(p, u, d)
         \/ GetListed(p) \/ Fail(p)
  PROVE  TypeInv'
<1>1. UNCHANGED <<clock, sessions, index, orphans>>
  BY DEF DeleteGet, ListUser, GetListed, Fail
<1>2. PICK c \in Call : call' = [call EXCEPT ![p] = c]
  <2>1. ASSUME NEW s \in SessionId, DeleteGet(p, s)
        PROVE  \E c \in Call : call' = [call EXCEPT ![p] = c]
    <3> DEFINE c == [NoCall EXCEPT !.pc = "remove", !.ids = {s}, !.found = {s} \cap DOMAIN sessions]
    <3>1. call' = [call EXCEPT ![p] = c]
      BY <2>1 DEF DeleteGet
    <3>2. c \in Call
      BY CallsKeepType DEF Call
    <3> QED BY <3>1, <3>2
  <2>2. ASSUME NEW u \in User, NEW d \in Device \cup {NoDevice}, ListUser(p, u, d)
        PROVE  \E c \in Call : call' = [call EXCEPT ![p] = c]
    <3> DEFINE c == [device |-> d, pc |-> "data", user |-> u, ids |-> Members(<<"user", u>>),
                     found |-> {},
                     before |-> {s \in DOMAIN sessions : s[1] = u /\ d \in {s[2], NoDevice}}]
    <3>1. call' = [call EXCEPT ![p] = c]
      BY <2>2 DEF ListUser
    <3>2. Members(<<"user", u>>) \subseteq SessionId
      BY DEF Members, TypeInv, AreIndexes, Entry
    <3>3. c \in Call
      BY <3>2 DEF Call, TypeInv, AreSessions
    <3> QED BY <3>1, <3>3
  <2>3. ASSUME GetListed(p) PROVE \E c \in Call : call' = [call EXCEPT ![p] = c]
    <3> DEFINE c == [call[p] EXCEPT !.pc = "purge", !.found = call[p].ids \cap DOMAIN sessions]
    <3>1. call' = [call EXCEPT ![p] = c]
      BY <2>3, CallsKeepType DEF GetListed, TypeInv
    <3>2. c \in Call
      BY CallsKeepType DEF Call
    <3> QED BY <3>1, <3>2
  <2>4. ASSUME Fail(p) PROVE \E c \in Call : call' = [call EXCEPT ![p] = c]
    BY <2>4, CallsKeepType DEF Fail, Return
  <2> QED BY <2>1, <2>2, <2>3, <2>4
<1>3. call' \in [Process -> Call]
  BY <1>2 DEF TypeInv
<1> QED BY <1>1, <1>3 DEF TypeInv

\* The commands that delete.
LEMMA PurgesKeepType ==
  ASSUME TypeInv, NEW p \in Process, DeleteRemove(p) \/ PurgeUser(p) \/ PurgeDevice(p)
  PROVE  TypeInv'
<1>1. clock' = clock /\ call' = [call EXCEPT ![p] = NoCall]
  BY DEF DeleteRemove, PurgeUser, PurgeDevice, Return
<1>2. AreSessions(sessions', clock)
  BY WithoutSessions DEF DeleteRemove, PurgeUser, PurgeDevice, TypeInv
<1>3. AreIndexes(index', clock)
  <2>1. clock \in Nat /\ AreIndexes(index, clock)
    BY DEF TypeInv
  <2>2. \A S, N : AreIndexes(Removed(S, N), clock)
    BY <2>1, RemovedKeeps
  <2>3. CASE DeleteRemove(p) \/ PurgeDevice(p)
    BY <2>2, <2>3 DEF DeleteRemove, PurgeDevice
  <2>4. CASE PurgeUser(p)
    <3>1. PICK S, N, U : index' = Without(Removed(S, N), U)
      BY <2>4 DEF PurgeUser
    <3> QED BY <2>1, <2>2, <3>1, WithoutKeeps
  <2> QED BY <2>3, <2>4
<1>4. orphans' \subseteq SessionId
  BY DEF DeleteRemove, PurgeUser, PurgeDevice, Orphaned, TypeInv, AreSessions
<1>5. call' \in [Process -> Call]
  BY <1>1, CallsKeepType DEF TypeInv
<1> QED BY <1>1, <1>2, <1>3, <1>4, <1>5 DEF TypeInv

LEMMA TickKeepsType ==
  ASSUME TypeInv, Tick
  PROVE  TypeInv'
<1>1. clock' \in Nat /\ clock' <= MaxClock /\ clock' = clock + 1 /\ UNCHANGED <<call, orphans>>
  BY RedisAssumption DEF Tick, TypeInv
<1>2. AreSessions(sessions', clock')
  BY <1>1 DEF Tick, TypeInv, AreSessions
<1>3. AreIndexes(index', clock')
  BY <1>1 DEF Tick, TypeInv, AreIndexes
<1> QED BY <1>1, <1>2, <1>3 DEF TypeInv

LEMMA TypePreserved == TypeInv /\ [Next]_vars => TypeInv'
<1> SUFFICES ASSUME TypeInv, [Next]_vars PROVE TypeInv'
  OBVIOUS
<1>1. CASE Next
  BY <1>1, SetsWrite, SetKeepsType, RenewKeepsType, LooksKeepType, PurgesKeepType, TickKeepsType DEF Next
<1>2. CASE UNCHANGED vars
  BY <1>2 DEF vars, TypeInv, AreSessions, AreIndexes
<1> QED BY <1>1, <1>2

\* The keys of Redis have their shapes: no key outlives its expiry, no index is
\* empty, and a delete in flight holds ids of sessions (redis-store.ts).
THEOREM TypeCorrect == Spec => []TypeOK
<1>1. TypeInv => TypeOK
  BY DEF TypeInv, TypeOK, AreSessions, AreIndexes, Entry
<1> QED BY <1>1, TypeInitially, TypePreserved, PTL DEF Spec
------------------------------------------------------------------------------
(* Sessions are listed. *)

\* What Listed says of the session s.
LEMMA ListedMeans ==
  ASSUME TypeInv, Listed, NEW s \in DOMAIN sessions \ orphans
  PROVE  /\ s \in SessionId
         /\ \A n \in NamesOf(s) : /\ n \in DOMAIN index /\ s \in index[n].ids /\ s \in Members(n)
                                  /\ sessions[s] <= index[n].expireAt
BY DEF Listed, Members, TypeInv, AreSessions

\* Who is written is no orphan unless an index of it expires first or does not list it.
LEMMA SetLists ==
  ASSUME TypeInv, Listed, NEW s \in SessionId, NEW ttl \in Ttls, Writes(s, ttl), TypeInv'
  PROVE  Listed'
<1> PICK N, T \in SUBSET NamesOf(s) : Write(s, End(ttl), ttl, N, T)
  BY DEF Writes
<1>1. /\ index' = Added(s, ttl, N, T)
      /\ orphans' = (orphans \ {s}) \cup Outliving(sessions', index') \cup Unlisted(s, index')
      /\ DOMAIN sessions' = DOMAIN sessions \cup {s}
  BY DEF Write, With
<1>4. \A n \in DOMAIN index : n \in DOMAIN index' /\ index[n].ids \subseteq index'[n].ids
  <2> SUFFICES ASSUME NEW n \in DOMAIN index
               PROVE  n \in DOMAIN index' /\ index[n].ids \subseteq index'[n].ids
    OBVIOUS
  <2>1. n \in DOMAIN index'
    BY <1>1 DEF Added
  <2>2. index'[n] = index[n] \/ index'[n].ids = Members(n) \cup {s}
    BY <1>1, <2>1 DEF Added
  <2> QED BY <2>1, <2>2 DEF Members
<1>2. ASSUME NEW r \in DOMAIN sessions' \ orphans', NEW n \in NamesOf(r)
      PROVE  n \in DOMAIN index' /\ r \in index'[n].ids
  <2>1. CASE r = s
    BY <1>1, <1>2, <2>1 DEF Unlisted
  <2>2. CASE r # s
    <3>1. r \in DOMAIN sessions \ orphans
      BY <1>1, <2>2
    <3>2. n \in DOMAIN index /\ r \in index[n].ids
      BY <1>2, <3>1, ListedMeans
    <3> QED BY <1>4, <3>2
  <2> QED BY <2>1, <2>2
<1>3. ASSUME NEW r \in DOMAIN sessions' \ orphans', NEW n \in NamesOf(r)
      PROVE  sessions'[r] <= index'[n].expireAt
  <2>1. n \in DOMAIN index' /\ ~(index'[n].expireAt < sessions'[r])
    BY <1>1, <1>2, <1>3 DEF Outliving
  <2>2. index'[n].expireAt \in Nat /\ sessions'[r] \in Nat
    BY <2>1, RedisAssumption DEF TypeInv, AreIndexes, AreSessions, Entry
  <2> QED BY <2>1, <2>2
<1> QED BY <1>2, <1>3 DEF Listed

LEMMA RenewLists ==
  ASSUME TypeInv, Listed, NEW s \in SessionId, NEW ttl \in Ttls, Renew(s, ttl), TypeInv'
  PROVE  Listed'
<1>1. /\ index' = index /\ orphans' = orphans \cup Outliving(sessions', index)
      /\ DOMAIN sessions' = DOMAIN sessions
  BY DEF Renew
<1>2. ASSUME NEW r \in DOMAIN sessions' \ orphans', NEW n \in NamesOf(r)
      PROVE  n \in DOMAIN index' /\ r \in index'[n].ids /\ sessions'[r] <= index'[n].expireAt
  <2>1. n \in DOMAIN index /\ r \in index[n].ids
    BY <1>1, <1>2, ListedMeans
  <2>2. ~(index[n].expireAt < sessions'[r])
    BY <1>1, <1>2, <2>1 DEF Outliving
  <2>3. index[n].expireAt \in Nat /\ sessions'[r] \in Nat
    BY <1>1, <2>1, RedisAssumption DEF TypeInv, AreIndexes, AreSessions, Entry
  <2> QED BY <1>1, <2>1, <2>2, <2>3
<1> QED BY <1>2 DEF Listed

\* The commands that delete: what stays and is no orphan was none before, and
\* keeps its date and its indexes.
LEMMA PurgeLists ==
  ASSUME TypeInv, Listed, NEW p \in Process, FindsItsOwn(call[p]),
         DeleteRemove(p) \/ PurgeUser(p) \/ PurgeDevice(p)
  PROVE  Listed'
<1>0. clock \in Nat /\ AreIndexes(index, clock)
  BY DEF TypeInv
<1>1. ASSUME NEW s \in DOMAIN sessions' \ orphans', NEW n \in NamesOf(s), DeleteRemove(p)
      PROVE  /\ s \in DOMAIN sessions \ orphans /\ sessions'[s] = sessions[s]
             /\ n \in DOMAIN index' /\ s \in index'[n].ids
             /\ index'[n].expireAt = index[n].expireAt
  <2> DEFINE N == UNION {NamesOf(r) : r \in call[p].found}
  <2>1. /\ sessions' = Without(sessions, call[p].ids) /\ orphans' = orphans \ call[p].ids
        /\ index' = Removed(call[p].found, N) /\ call[p].found \subseteq call[p].ids
    BY <1>1 DEF DeleteRemove, FindsItsOwn
  <2> HIDE DEF N
  <2>2. /\ s \in DOMAIN sessions \ orphans /\ sessions'[s] = sessions[s] /\ s \notin call[p].found
    BY <1>1, <2>1, WithoutSessions
  <2>3. n \in DOMAIN index /\ s \in index[n].ids /\ s \in SessionId
    BY <1>1, <2>2, ListedMeans
  <2> QED BY <1>0, <2>1, <2>2, <2>3, RemovedKeeps
<1>2. ASSUME NEW s \in DOMAIN sessions' \ orphans', NEW n \in NamesOf(s), PurgeUser(p)
      PROVE  /\ s \in DOMAIN sessions \ orphans /\ sessions'[s] = sessions[s]
             /\ n \in DOMAIN index' /\ s \in index'[n].ids
             /\ index'[n].expireAt = index[n].expireAt
  <2> DEFINE ids == call[p].ids
             user == <<"user", call[p].user>>
             N == UNION {NamesOf(r) : r \in call[p].found} \ {user}
  <2>1. /\ sessions' = Without(sessions, ids) /\ orphans' = Orphaned(Members(user), ids)
        /\ index' = Without(Removed(ids, N), {user})
    BY <1>2 DEF PurgeUser
  <2> HIDE DEF N, user, ids
  <2>2. s \in DOMAIN sessions /\ s \notin ids /\ sessions'[s] = sessions[s]
    BY <1>2, <2>1, WithoutSessions
  <2>3. s \notin orphans /\ s \notin Members(user)
    BY <1>2, <2>1, <2>2 DEF Orphaned
  <2>4. n \in DOMAIN index /\ s \in index[n].ids /\ s \in SessionId /\ n # user
    BY <1>2, <2>2, <2>3, ListedMeans
  <2>5. /\ AreIndexes(Removed(ids, N), clock)
        /\ n \in DOMAIN Removed(ids, N) /\ s \in Removed(ids, N)[n].ids
        /\ Removed(ids, N)[n].expireAt = index[n].expireAt
    BY <1>0, <2>2, <2>4, RemovedKeeps
  <2>6. n \in DOMAIN index' /\ index'[n] = Removed(ids, N)[n]
    BY <2>1, <2>4, <2>5 DEF Without
  <2> QED BY <2>2, <2>3, <2>5, <2>6
<1>3. ASSUME NEW s \in DOMAIN sessions' \ orphans', NEW n \in NamesOf(s), PurgeDevice(p)
      PROVE  /\ s \in DOMAIN sessions \ orphans /\ sessions'[s] = sessions[s]
             /\ n \in DOMAIN index' /\ s \in index'[n].ids
             /\ index'[n].expireAt = index[n].expireAt
  <2> DEFINE gone == {r \in call[p].found : r[2] = call[p].device}
             zombies == call[p].ids \ call[p].found
             N == {<<"user", call[p].user>>, <<"device", call[p].device>>}
  <2>1. /\ sessions' = Without(sessions, gone) /\ orphans' = Orphaned(zombies, gone)
        /\ index' = Removed(gone \cup zombies, N)
    BY <1>3 DEF PurgeDevice
  <2> HIDE DEF N, zombies, gone
  <2>2. s \in DOMAIN sessions /\ s \notin gone /\ sessions'[s] = sessions[s]
    BY <1>3, <2>1, WithoutSessions
  <2>3. s \notin orphans /\ s \notin zombies
    BY <1>3, <2>1, <2>2 DEF Orphaned
  <2>4. n \in DOMAIN index /\ s \in index[n].ids /\ s \in SessionId
    BY <1>3, <2>2, <2>3, ListedMeans
  <2> QED BY <1>0, <2>1, <2>2, <2>3, <2>4, RemovedKeeps
<1>4. ASSUME NEW s \in DOMAIN sessions' \ orphans', NEW n \in NamesOf(s)
      PROVE  n \in DOMAIN index' /\ s \in index'[n].ids /\ sessions'[s] <= index'[n].expireAt
  <2>1. /\ s \in DOMAIN sessions \ orphans /\ sessions'[s] = sessions[s]
        /\ n \in DOMAIN index' /\ s \in index'[n].ids
        /\ index'[n].expireAt = index[n].expireAt
    BY <1>1, <1>2, <1>3, <1>4
  <2> QED BY <1>4, <2>1, ListedMeans
<1> QED BY <1>4 DEF Listed

\* Time takes a session no later than its indexes.
LEMMA TickLists ==
  ASSUME TypeInv, Listed, Tick
  PROVE  Listed'
<1>1. ASSUME NEW s \in DOMAIN sessions' \ orphans', NEW n \in NamesOf(s)
      PROVE  n \in DOMAIN index' /\ s \in index'[n].ids /\ sessions'[s] <= index'[n].expireAt
  <2>1. s \in DOMAIN sessions \ orphans /\ clock + 1 < sessions[s] /\ sessions'[s] = sessions[s]
    BY <1>1 DEF Tick
  <2>2. n \in DOMAIN index /\ s \in index[n].ids /\ sessions[s] <= index[n].expireAt
    BY <1>1, <2>1, ListedMeans
  <2>3. index[n].expireAt \in Nat /\ sessions[s] \in Nat /\ clock \in Nat
    BY <2>1, <2>2, RedisAssumption DEF TypeInv, AreIndexes, AreSessions, Entry
  <2>4. clock + 1 < index[n].expireAt
    BY <2>1, <2>2, <2>3
  <2>5. n \in DOMAIN index' /\ index'[n] = index[n]
    BY <2>2, <2>4 DEF Tick
  <2> QED BY <2>1, <2>2, <2>5
<1> QED BY <1>1 DEF Listed

------------------------------------------------------------------------------
(* Deletes reach what they must. *)

\* NoCall promises nothing.
LEMMA NoCallIsDone ==
  NoCall.pc = "idle" /\ FindsItsOwn(NoCall) /\ ReachesAll(NoCall)
BY DEF NoCall, FindsItsOwn, ReachesAll

\* A call that a step leaves alone keeps its promise, if no session appears and
\* none stops being an orphan without being deleted.
LEMMA CallKeepsReaching ==
  ASSUME NEW c, ReachesAll(c), DOMAIN sessions' \ orphans' \subseteq DOMAIN sessions \ orphans
  PROVE  ReachesAll(c)'
BY DEF ReachesAll

\* The invariant of the calls, from a step of p that ends its call or looks.
LEMMA OneCallSteps ==
  ASSUME TypeInv, \A q \in Process : FindsItsOwn(call[q]) /\ ReachesAll(call[q]),
         NEW p \in Process, NEW c, call' = [call EXCEPT ![p] = c],
         FindsItsOwn(c), ReachesAll(c)',
         DOMAIN sessions' \ orphans' \subseteq DOMAIN sessions \ orphans
  PROVE  \A q \in Process : FindsItsOwn(call'[q]) /\ ReachesAll(call[q])'
<1> SUFFICES ASSUME NEW q \in Process
             PROVE  FindsItsOwn(call'[q]) /\ ReachesAll(call[q])'
  OBVIOUS
<1>1. CASE q = p
  <2>1. call'[q] = c
    BY <1>1 DEF TypeInv
  <2> QED BY <2>1 DEF ReachesAll
<1>2. CASE q # p
  <2>1. call'[q] = call[q]
    BY <1>2 DEF TypeInv
  <2> QED BY <2>1 DEF ReachesAll
<1> QED BY <1>1, <1>2

\* A set takes the session it writes off what the calls in flight owe.
LEMMA SetKeepsReaching ==
  ASSUME TypeInv, NEW s \in SessionId, NEW ttl \in Ttls, Writes(s, ttl),
         NEW p \in Process, FindsItsOwn(call[p]), ReachesAll(call[p])
  PROVE  FindsItsOwn(call[p])' /\ ReachesAll(call[p])'
<1>1. call'[p] = [call[p] EXCEPT !.before = @ \ {s}] /\ call[p] \in Call
  BY CallsKeepType DEF Writes, Write
<1>2. /\ call'[p].pc = call[p].pc /\ call'[p].ids = call[p].ids
      /\ call'[p].found = call[p].found /\ call'[p].device = call[p].device
      /\ call'[p].before = call[p].before \ {s}
  BY <1>1 DEF Call
<1>3. DOMAIN sessions' = DOMAIN sessions \cup {s} /\ orphans \ {s} \subseteq orphans'
  BY DEF Writes, Write, With
<1> QED BY <1>2, <1>3 DEF FindsItsOwn, ReachesAll

\* The steps of a call keep what all calls owe.
LEMMA LooksKeepReaching ==
  ASSUME TypeInv, ListingInv, NEW p \in Process,
         \/ \E s \in SessionId : DeleteGet(p, s)
         \/ \E u \in User, d \in Device \cup {NoDevice} : ListUser(p, u, d)
         \/ GetListed(p) \/ Fail(p)
  PROVE  \A q \in Process : FindsItsOwn(call'[q]) /\ ReachesAll(call[q])'
<1>1. UNCHANGED <<sessions, orphans>>
  BY DEF DeleteGet, ListUser, GetListed, Fail
<1>2. \A q \in Process : FindsItsOwn(call[q]) /\ ReachesAll(call[q])
  BY DEF ListingInv
<1>3. SUFFICES \E c : /\ call' = [call EXCEPT ![p] = c]
                      /\ FindsItsOwn(c) /\ ReachesAll(c)
  <2>1. PICK c : call' = [call EXCEPT ![p] = c] /\ FindsItsOwn(c) /\ ReachesAll(c)
    BY <1>3
  <2>2. ReachesAll(c)'
    BY <1>1, <2>1, CallKeepsReaching
  <2> QED BY <1>1, <1>2, <2>1, <2>2, OneCallSteps
<1>4. ASSUME NEW s \in SessionId, DeleteGet(p, s)
      PROVE  \E c : /\ call' = [call EXCEPT ![p] = c]
                    /\ FindsItsOwn(c) /\ ReachesAll(c)
  <2> DEFINE c == [NoCall EXCEPT !.pc = "remove", !.ids = {s}, !.found = {s} \cap DOMAIN sessions]
  <2>1. call' = [call EXCEPT ![p] = c]
    BY <1>4 DEF DeleteGet
  <2>2. c.before = {} /\ c.found \subseteq c.ids
    BY DEF NoCall
  <2> HIDE DEF c
  <2>3. FindsItsOwn(c) /\ ReachesAll(c)
    BY <2>2 DEF FindsItsOwn, ReachesAll
  <2> QED BY <2>1, <2>3
<1>5. ASSUME NEW u \in User, NEW d \in Device \cup {NoDevice}, ListUser(p, u, d)
      PROVE  \E c : /\ call' = [call EXCEPT ![p] = c]
                    /\ FindsItsOwn(c) /\ ReachesAll(c)
  <2> DEFINE c == [device |-> d, pc |-> "data", user |-> u, ids |-> Members(<<"user", u>>),
                   found |-> {},
                   before |-> {s \in DOMAIN sessions : s[1] = u /\ d \in {s[2], NoDevice}}]
  <2>1. call' = [call EXCEPT ![p] = c]
    BY <1>5 DEF ListUser
  <2>2. /\ c.pc = "data" /\ c.ids = Members(<<"user", u>>) /\ c.device = d
        /\ c.before = {s \in DOMAIN sessions : s[1] = u /\ d \in {s[2], NoDevice}}
    OBVIOUS
  <2> HIDE DEF c
  <2>3. ASSUME NEW s \in (c.before \cap DOMAIN sessions) \ orphans
        PROVE  s \in c.ids /\ c.device \in {s[2], NoDevice}
    <3>1. s \in DOMAIN sessions \ orphans /\ s[1] = u /\ d \in {s[2], NoDevice}
      BY <2>2, <2>3
    <3>2. s \in SessionId /\ \A n \in NamesOf(s) : s \in Members(n)
      BY <3>1, ListedMeans DEF ListingInv
    <3> QED BY <2>2, <3>1, <3>2, NamesAreNames
  <2>4. FindsItsOwn(c) /\ ReachesAll(c)
    BY <2>2, <2>3 DEF FindsItsOwn, ReachesAll
  <2> QED BY <2>1, <2>4
<1>6. ASSUME GetListed(p)
      PROVE  \E c : /\ call' = [call EXCEPT ![p] = c]
                    /\ FindsItsOwn(c) /\ ReachesAll(c)
  <2> DEFINE c == [call[p] EXCEPT !.pc = "purge", !.found = call[p].ids \cap DOMAIN sessions]
  <2>1. call' = [call EXCEPT ![p] = c]
    BY <1>6, CallsKeepType DEF GetListed, TypeInv
  <2>2. /\ c.pc = "purge" /\ c.ids = call[p].ids /\ c.device = call[p].device
        /\ c.before = call[p].before /\ c.found = call[p].ids \cap DOMAIN sessions
    BY CallsKeepType DEF Call
  <2> HIDE DEF c
  <2>3. FindsItsOwn(c) /\ ReachesAll(c)
    BY <1>2, <2>2 DEF FindsItsOwn, ReachesAll
  <2> QED BY <2>1, <2>3
<1>7. ASSUME Fail(p)
      PROVE  \E c : /\ call' = [call EXCEPT ![p] = c]
                    /\ FindsItsOwn(c) /\ ReachesAll(c)
  BY <1>7, NoCallIsDone DEF Fail, Return
<1> QED BY <1>4, <1>5, <1>6, <1>7

LEMMA PurgesKeepReaching ==
  ASSUME TypeInv, ListingInv, NEW p \in Process,
         DeleteRemove(p) \/ PurgeUser(p) \/ PurgeDevice(p)
  PROVE  \A q \in Process : FindsItsOwn(call'[q]) /\ ReachesAll(call[q])'
<1>1. call' = [call EXCEPT ![p] = NoCall]
  BY DEF DeleteRemove, PurgeUser, PurgeDevice, Return
<1>2. DOMAIN sessions' \ orphans' \subseteq DOMAIN sessions \ orphans
  BY WithoutSessions DEF DeleteRemove, PurgeUser, PurgeDevice, Orphaned
<1>3. ReachesAll(NoCall)'
  BY <1>2, NoCallIsDone, CallKeepsReaching
<1> QED BY <1>1, <1>2, <1>3, NoCallIsDone, OneCallSteps DEF ListingInv

------------------------------------------------------------------------------

LEMMA ListingInvInitially == Init => ListingInv
BY NoCallIsDone DEF Init, ListingInv, Listed

LEMMA ListingInvPreserved == TypeInv /\ TypeInv' /\ ListingInv /\ [Next]_vars => ListingInv'
<1> SUFFICES ASSUME TypeInv, TypeInv', ListingInv, [Next]_vars PROVE ListingInv'
  OBVIOUS
<1>1. Listed /\ \A p \in Process : FindsItsOwn(call[p]) /\ ReachesAll(call[p])
  BY DEF ListingInv
<1>2. ASSUME NEW s \in SessionId, NEW ttl \in Ttls, Set(s, ttl) \/ SetPartly(s, ttl)
      PROVE  ListingInv'
  BY <1>1, <1>2, SetsWrite, SetLists, SetKeepsReaching DEF ListingInv
<1>3. ASSUME UNCHANGED call, DOMAIN sessions' \ orphans' \subseteq DOMAIN sessions \ orphans
      PROVE  \A p \in Process : FindsItsOwn(call[p])' /\ ReachesAll(call[p])'
  BY <1>1, <1>3 DEF ReachesAll, FindsItsOwn
<1>4. ASSUME NEW s \in SessionId, NEW ttl \in Ttls, Renew(s, ttl) PROVE ListingInv'
  <2>1. UNCHANGED call /\ DOMAIN sessions' \ orphans' \subseteq DOMAIN sessions \ orphans
    BY <1>4 DEF Renew
  <2> QED BY <1>1, <1>3, <1>4, <2>1, RenewLists DEF ListingInv
<1>5. ASSUME NEW p \in Process,
             \/ \E s \in SessionId : DeleteGet(p, s)
             \/ \E u \in User, d \in Device \cup {NoDevice} : ListUser(p, u, d)
             \/ GetListed(p) \/ Fail(p)
      PROVE  ListingInv'
  <2>1. UNCHANGED <<sessions, index, orphans>>
    BY <1>5 DEF DeleteGet, ListUser, GetListed, Fail
  <2>2. Listed'
    BY <1>1, <2>1 DEF Listed
  <2> QED BY <1>5, <2>2, LooksKeepReaching DEF ListingInv
<1>6. ASSUME NEW p \in Process, DeleteRemove(p) \/ PurgeUser(p) \/ PurgeDevice(p)
      PROVE  ListingInv'
  BY <1>1, <1>6, PurgeLists, PurgesKeepReaching DEF ListingInv
<1>7. CASE Tick
  <2>1. UNCHANGED call /\ DOMAIN sessions' \ orphans' \subseteq DOMAIN sessions \ orphans
    BY <1>7 DEF Tick
  <2> QED BY <1>1, <1>3, <1>7, <2>1, TickLists DEF ListingInv
<1>8. CASE UNCHANGED vars
  BY <1>1, <1>8 DEF vars, ListingInv, Listed, FindsItsOwn, ReachesAll
<1> QED BY <1>2, <1>4, <1>5, <1>6, <1>7, <1>8 DEF Next

LEMMA InvHolds == Spec => [](TypeInv /\ ListingInv)
BY TypeInitially, TypePreserved, ListingInvInitially, ListingInvPreserved, PTL DEF Spec

\* A live session that no race, renewal, shorter ttl or broken set orphaned is listed under
\* its user and its device, where login and kickUser look for it, whatever
\* deletes overlap and fail and whatever expires (redis-store.ts).
THEOREM SessionsAreListed == Spec => []LiveSessionsAreListed
<1>1. TypeInv /\ ListingInv => LiveSessionsAreListed
  BY ListedMeans DEF ListingInv, LiveSessionsAreListed
<1> QED BY <1>1, InvHolds, PTL

\* However many deletes of a user run at once, the one that returns has deleted
\* every session that was alive and listed when it was called and was not
\* written since (redis-store.ts, deleteByUserId and deleteByUserIdAndDevice).
THEOREM DeletesDoTheirWork == Spec => DeletesReachAll
<1>1. ASSUME TypeInv, ListingInv, NEW p \in Process, PurgeUser(p) \/ PurgeDevice(p)
      PROVE  call[p].before \cap DOMAIN sessions' \subseteq orphans
  <2> SUFFICES ASSUME NEW s \in call[p].before \cap DOMAIN sessions', s \notin orphans
               PROVE  FALSE
    OBVIOUS
  <2>1. DOMAIN sessions' \subseteq DOMAIN sessions
    BY <1>1, WithoutSessions DEF PurgeUser, PurgeDevice
  <2>2. call[p].pc = "purge"
    BY <1>1 DEF PurgeUser, PurgeDevice
  <2>3. /\ s \in call[p].ids /\ s \in call[p].found
        /\ call[p].device \in {s[2], NoDevice}
    BY <1>1, <2>1, <2>2 DEF ListingInv, ReachesAll
  <2>4. CASE PurgeUser(p)
    BY <2>3, <2>4, WithoutSessions DEF PurgeUser
  <2>5. CASE PurgeDevice(p)
    <3>1. /\ sessions' = Without(sessions, {r \in call[p].found : r[2] = call[p].device})
          /\ call[p].device # NoDevice
      BY <2>5 DEF PurgeDevice
    <3>2. s[2] = call[p].device
      BY <2>3, <3>1
    <3>3. s \in DOMAIN sessions' /\ s \in {r \in call[p].found : r[2] = call[p].device}
      BY <2>3, <3>2
    <3> QED BY <3>1, <3>3, WithoutSessions
  <2> QED BY <1>1, <2>4, <2>5
<1>2. TypeInv /\ ListingInv /\ [Next]_vars =>
        [\A p \in Process :
            PurgeUser(p) \/ PurgeDevice(p) =>
                call[p].before \cap DOMAIN sessions' \subseteq orphans]_vars
  BY <1>1
<1> QED BY <1>2, InvHolds, PTL DEF Spec, DeletesReachAll

------------------------------------------------------------------------------
(* No way out of an index. *)

\* When all sessions are given the same ttl, none is renewed and none deleted by
\* its user, no session was orphaned, none has more than that ttl to live, and the
\* deletes in flight are of one session each.
NoOrphansInv(ttl) ==
    /\ orphans = {}
    /\ ttl # 0 => \A s \in DOMAIN sessions : sessions[s] <= clock + ttl
    /\ ttl = 0 => \A n \in DOMAIN index : index[n].expireAt = Forever
    /\ \A p \in Process : call[p].pc \in {"idle", "remove"}

\* A set leaves no index with less time than a session it lists.
LEMMA SetOrphansNone ==
  ASSUME TypeInv, TypeInv', Listed, NEW ttl \in Ttls, NoOrphansInv(ttl),
         NEW s \in SessionId, Set(s, ttl)
  PROVE  NoOrphansInv(ttl)'
<1> DEFINE e == IF ttl = 0 THEN Forever ELSE clock + ttl
           N == NamesOf(s)
<1>1. /\ sessions' = With(sessions, s, e) /\ index' = Added(s, ttl, N, N) /\ clock' = clock
      /\ orphans' = (orphans \ {s}) \cup Outliving(sessions', index') \cup Unlisted(s, index')
      /\ call' = [p \in Process |-> [call[p] EXCEPT !.before = @ \ {s}]]
  BY DEF Set, Write, End
<1>11. /\ DOMAIN index' = DOMAIN index \cup NamesOf(s)
      /\ \A n \in NamesOf(s) : s \in index'[n].ids
  <2>1. DOMAIN index' = DOMAIN index \cup NamesOf(s)
    BY <1>1 DEF Added
  <2>2. ASSUME NEW n \in NamesOf(s) PROVE s \in index'[n].ids
    <3>1. index'[n].ids = Members(n) \cup {s}
      BY <1>1, <2>2 DEF Added
    <3> QED BY <3>1
  <2> QED BY <2>1, <2>2
<1>2. /\ DOMAIN sessions' = DOMAIN sessions \cup {s}
      /\ \A r \in DOMAIN sessions' : sessions'[r] = IF r = s THEN e ELSE sessions[r]
  BY <1>1 DEF With
<1>3. /\ ttl \in Nat /\ Slack \in Nat /\ Forever \in Nat /\ clock \in Nat
      /\ \A r \in DOMAIN sessions : sessions[r] \in Nat /\ sessions[r] <= Forever
  BY ExpiryFits, RedisAssumption DEF TypeInv, AreSessions
<1>4. ttl # 0 => \A r \in DOMAIN sessions' : sessions'[r] <= clock' + ttl
  BY <1>1, <1>2, <1>3 DEF NoOrphansInv
<1>5. \A n \in DOMAIN index' : index'[n].expireAt =
          IF n \notin NamesOf(s) THEN index[n].expireAt
          ELSE IF ttl = 0 THEN IndexTtl(n) ELSE clock + ttl + Slack
  BY <1>1 DEF Added
<1>6. ttl = 0 => \A n \in DOMAIN index' : index'[n].expireAt = Forever
  <2> SUFFICES ASSUME ttl = 0, NEW n \in DOMAIN index' PROVE index'[n].expireAt = Forever
    OBVIOUS
  <2> QED BY <1>5, <1>11 DEF NoOrphansInv, IndexTtl
<1>7. \A r \in DOMAIN sessions' : sessions'[r] \in Nat /\ sessions'[r] <= Forever
  BY RedisAssumption DEF TypeInv, AreSessions
<1> HIDE DEF e
<1>8. ASSUME NEW r \in DOMAIN sessions', NEW n \in NamesOf(r) \cap DOMAIN index'
      PROVE  ~(index'[n].expireAt < sessions'[r])
  <2>1. CASE ttl = 0
    BY <1>3, <1>6, <1>7, <1>8, <2>1
  <2>2. CASE ttl # 0 /\ n \in NamesOf(s)
    <3>1. index'[n].expireAt = clock + ttl + Slack /\ sessions'[r] <= clock + ttl
      BY <1>1, <1>4, <1>5, <1>8, <2>2
    <3> QED BY <1>3, <1>7, <1>8, <3>1
  <2>3. CASE n \notin NamesOf(s)
    <3>1. r \in DOMAIN sessions \ orphans /\ r # s
      BY <1>2, <1>8, <2>3 DEF NoOrphansInv
    <3>2. n \in DOMAIN index /\ sessions[r] <= index[n].expireAt
      BY <1>8, <3>1, ListedMeans
    <3>3. index'[n].expireAt = index[n].expireAt /\ sessions'[r] = sessions[r]
      BY <1>2, <1>5, <1>8, <2>3, <3>1
    <3>4. index[n].expireAt \in Nat
      BY <3>2 DEF TypeInv, AreIndexes, Entry
    <3> QED BY <1>7, <1>8, <3>2, <3>3, <3>4
  <2> QED BY <2>1, <2>2, <2>3
<1>9. orphans' = {}
  <2>1. Unlisted(s, index') = {}
    BY <1>11 DEF Unlisted
  <2> QED BY <1>1, <1>8, <2>1 DEF Outliving, NoOrphansInv
<1>10. \A p \in Process : call'[p].pc \in {"idle", "remove"}
  BY <1>1, CallsKeepType DEF NoOrphansInv, Call
<1> QED BY <1>4, <1>6, <1>9, <1>10 DEF NoOrphansInv

\* A delete of one session orphans none, whatever overlaps with it.
LEMMA DeleteOrphansNone ==
  ASSUME TypeInv, TypeInv', NEW ttl \in Ttls, NoOrphansInv(ttl), NEW p \in Process,
         (\E s \in SessionId : DeleteGet(p, s)) \/ DeleteRemove(p) \/ Fail(p)
  PROVE  NoOrphansInv(ttl)'
<1>1. /\ clock' = clock /\ orphans' \subseteq orphans
      /\ DOMAIN sessions' \subseteq DOMAIN sessions
      /\ \A s \in DOMAIN sessions' : sessions'[s] = sessions[s]
  <2>1. clock' = clock /\ orphans' \subseteq orphans
    BY DEF DeleteGet, DeleteRemove, Fail
  <2>2. sessions' = sessions \/ sessions' = Without(sessions, call[p].ids)
    BY DEF DeleteGet, DeleteRemove, Fail
  <2>3. CASE sessions' = sessions
    BY <2>1, <2>3
  <2>4. CASE sessions' = Without(sessions, call[p].ids)
    <3> DEFINE W == Without(sessions, call[p].ids)
    <3>1. DOMAIN W \subseteq DOMAIN sessions /\ \A s \in DOMAIN W : W[s] = sessions[s]
      BY WithoutSessions
    <3>2. sessions' = W
      BY <2>4
    <3> HIDE DEF W
    <3> QED BY <2>1, <3>1, <3>2
  <2> QED BY <2>2, <2>3, <2>4
<1>2. \A n \in DOMAIN index' : n \in DOMAIN index /\ index'[n].expireAt = index[n].expireAt
  <2>1. CASE UNCHANGED index
    BY <2>1
  <2>2. CASE DeleteRemove(p)
    <3> DEFINE N == UNION {NamesOf(r) : r \in call[p].found}
    <3>1. index' = Removed(call[p].found, N)
      BY <2>2 DEF DeleteRemove
    <3> HIDE DEF N
    <3>2. ASSUME NEW n \in DOMAIN index'
          PROVE  n \in DOMAIN index /\ index'[n].expireAt = index[n].expireAt
      <4>1. n \in DOMAIN index /\ index[n] \in Entry
        BY <3>1, <3>2 DEF Removed, TypeInv, AreIndexes
      <4>2. index'[n] \in {index[n], [index[n] EXCEPT !.ids = @ \ call[p].found]}
        BY <3>1, <3>2 DEF Removed
      <4> QED BY <4>1, <4>2 DEF Entry
    <3> QED BY <3>2
  <2> QED BY <2>1, <2>2 DEF DeleteGet, Fail
<1>3. \A q \in Process : call'[q].pc \in {"idle", "remove"}
  <2>1. call \in [Process -> Call]
    BY DEF TypeInv
  <2>2. ASSUME NEW s \in SessionId, DeleteGet(p, s)
        PROVE  \A q \in Process : call'[q].pc \in {"idle", "remove"}
    <3> DEFINE c == [NoCall EXCEPT !.pc = "remove", !.ids = {s},
                                   !.found = {s} \cap DOMAIN sessions]
    <3>1. c.pc = "remove"
      BY DEF NoCall
    <3>2. call' = [call EXCEPT ![p] = c]
      BY <2>2 DEF DeleteGet
    <3> HIDE DEF c
    <3> QED BY <2>1, <3>1, <3>2 DEF NoOrphansInv
  <2>3. ASSUME Return(p)
        PROVE  \A q \in Process : call'[q].pc \in {"idle", "remove"}
    <3>1. NoCall.pc = "idle"
      BY DEF NoCall
    <3> QED BY <2>1, <2>3, <3>1 DEF NoOrphansInv, Return
  <2> QED BY <2>2, <2>3 DEF DeleteRemove, Fail
<1> QED BY <1>1, <1>2, <1>3 DEF NoOrphansInv

LEMMA TickOrphansNone ==
  ASSUME TypeInv, NEW ttl \in Ttls, NoOrphansInv(ttl), Tick
  PROVE  NoOrphansInv(ttl)'
<1>1. /\ UNCHANGED <<call, orphans>> /\ clock \in Nat /\ clock' = clock + 1 /\ ttl \in Nat
      /\ \A s \in DOMAIN sessions : sessions[s] \in Nat
  BY ExpiryFits, RedisAssumption DEF Tick, TypeInv, AreSessions
<1>2. \A s \in DOMAIN sessions' : s \in DOMAIN sessions /\ sessions'[s] = sessions[s]
  BY DEF Tick
<1>3. \A n \in DOMAIN index' : n \in DOMAIN index /\ index'[n] = index[n]
  BY DEF Tick
<1>4. ttl # 0 => \A s \in DOMAIN sessions' : sessions'[s] <= clock' + ttl
  BY <1>1, <1>2 DEF NoOrphansInv
<1> QED BY <1>1, <1>3, <1>4 DEF NoOrphansInv

\* The four ways out of an index are all there are: when sessions are set with one
\* ttl, no set breaks off and they are deleted one by one, as logins, logouts and evictions by token do,
\* every live session is listed, however the deletes overlap with one another and
\* with the sets (redis-store.ts, set and delete).
THEOREM UniformSessionsAreListed ==
  ASSUME Methods \subseteq {"set", "delete"}, Breaking = {}, NEW ttl, Ttls = {ttl}
  PROVE  Spec => [](orphans = {} /\ \A s \in DOMAIN sessions : \A n \in NamesOf(s) : s \in Members(n))
<1>1. Init => NoOrphansInv(ttl)
  BY DEF Init, NoOrphansInv, NoCall
<1>2. ASSUME TypeInv, TypeInv', ListingInv, NoOrphansInv(ttl), [Next]_vars
      PROVE  NoOrphansInv(ttl)'
  <2>1. ASSUME NEW s \in SessionId, NEW t \in Ttls,
               Set(s, t) \/ SetPartly(s, t) \/ Renew(s, t)
        PROVE  NoOrphansInv(ttl)'
    <3>1. t = ttl /\ Set(s, t)
      BY <2>1 DEF SetPartly, Renew
    <3> QED BY <1>2, <3>1, SetOrphansNone DEF ListingInv
  <2>2. ASSUME NEW p \in Process,
               \/ \E s \in SessionId : DeleteGet(p, s)
               \/ \E u \in User, d \in Device \cup {NoDevice} : ListUser(p, u, d)
               \/ DeleteRemove(p) \/ GetListed(p) \/ PurgeUser(p) \/ PurgeDevice(p)
               \/ Fail(p)
        PROVE  NoOrphansInv(ttl)'
    <3>1. ~ \E u \in User, d \in Device \cup {NoDevice} : ListUser(p, u, d)
      BY DEF ListUser
    <3>2. ~(GetListed(p) \/ PurgeUser(p) \/ PurgeDevice(p))
      BY <1>2 DEF NoOrphansInv, GetListed, PurgeUser, PurgeDevice
    <3> QED BY <1>2, <2>2, <3>1, <3>2, DeleteOrphansNone
  <2>3. CASE Tick
    BY <1>2, <2>3, TickOrphansNone
  <2>4. CASE UNCHANGED vars
    BY <1>2, <2>4 DEF vars, NoOrphansInv
  <2> QED BY <1>2, <2>1, <2>2, <2>3, <2>4 DEF Next
<1>3. TypeInv /\ ListingInv /\ NoOrphansInv(ttl) =>
        orphans = {} /\ \A s \in DOMAIN sessions : \A n \in NamesOf(s) : s \in Members(n)
  BY ListedMeans DEF ListingInv, NoOrphansInv
<1> QED BY <1>1, <1>2, <1>3, InvHolds, PTL DEF Spec

===============================================================================
