------------------------------ MODULE RedisStore ------------------------------
(***************************************************************************)
(* RedisStore: a key per session, and a set of session ids per user and    *)
(* per device, all with a ttl of their own.  set and renew send one        *)
(* pipeline or command; the deletes look first and delete afterwards, and  *)
(* calls overlap in between.  Redis runs the commands of a pipeline        *)
(* together: it turns to another connection when it has run all it read    *)
(* from one.                                                               *)
(*                                                                         *)
(* The id of a session is drawn for one user and one device, and whoever   *)
(* writes the session again keeps both: here they are part of the id.  The *)
(* blacklist, three commands of their own on other keys, is left out.      *)
(***************************************************************************)
EXTENDS Naturals

CONSTANTS
    Process,    \* concurrent calls that take several commands
    User, Device,
    NoDevice,   \* the device of a session stored without one
    Serial,     \* BOUND: tells apart the sessions of one user and device
    Methods,    \* the methods called in this instance
    Breaking,   \* BOUND: the sets that may break off, as sessions and ttls
    Ttls,       \* the ttl arguments used, in ticks; 0 stands for none
    Slack,      \* how much longer than its session an index is to live (60 s)
    Forever,    \* the expiry of a key without ttl
    MaxClock    \* BOUND: how long the model runs

AllMethods == {"set", "renew", "delete", "deleteByUserId", "deleteByUserIdAndDevice"}

ASSUME RedisAssumption ==
    /\ User # {} /\ NoDevice \notin Device
    /\ Methods \subseteq AllMethods
    /\ Ttls \subseteq Nat /\ {Slack, Forever, MaxClock} \subseteq Nat
    /\ \A ttl \in Ttls : MaxClock + ttl + Slack < Forever

VARIABLES
    clock,     \* the server's clock
    sessions,  \* the session keys: id -> expireAt
    index,     \* the index keys: name -> [ids, expireAt]
    call,      \* call[p]: the delete p is in the middle of
    orphans    \* history: the live sessions that a delete took out of an index,
               \* a set did not list, or whose index has less time than they have

vars == <<clock, sessions, index, call, orphans>>

SessionId == User \X (Device \cup {NoDevice}) \X Serial
Name == ({"user"} \X User) \cup ({"device"} \X Device)

\* The index keys that list session s.
NamesOf(s) == {<<"user", s[1]>>} \cup
              (IF s[2] = NoDevice THEN {} ELSE {<<"device", s[2]>>})

\* A delete between its commands: what it was called for, the ids it read from
\* the index, and those whose data it found.  before is history: the sessions
\* alive when it was called and not written since.
Call == [device : Device \cup {NoDevice}, pc : {"idle", "remove", "data", "purge"},
         user : User, ids : SUBSET SessionId, found : SUBSET SessionId,
         before : SUBSET SessionId]

AnyUser == CHOOSE u \in User : TRUE
NoCall == [device |-> NoDevice, pc |-> "idle", user |-> AnyUser, ids |-> {},
           found |-> {}, before |-> {}]

TypeOK ==
    /\ clock \in Nat
    /\ DOMAIN sessions \subseteq SessionId
    /\ \A s \in DOMAIN sessions : sessions[s] \in clock + 1 .. Forever
    /\ DOMAIN index \subseteq Name
    /\ \A n \in DOMAIN index :
           /\ index[n].ids \subseteq SessionId /\ index[n].ids # {}
           /\ index[n].expireAt \in clock + 1 .. Forever
    /\ call \in [Process -> Call]
    /\ orphans \subseteq SessionId

Init ==
    /\ clock = 0
    /\ sessions = <<>>
    /\ index = <<>>
    /\ call = [p \in Process |-> NoCall]
    /\ orphans = {}

------------------------------------------------------------------------------

Without(f, S) == [x \in DOMAIN f \ S |-> f[x]]
With(f, x, v) == [y \in DOMAIN f \cup {x} |-> IF y = x THEN v ELSE f[y]]

Members(n) == IF n \in DOMAIN index THEN index[n].ids ELSE {}
IndexTtl(n) == IF n \in DOMAIN index THEN index[n].expireAt ELSE Forever

\* SREM of the ids of S from the names of N; an empty set is no key.
Removed(S, N) ==
    LET kept == {n \in DOMAIN index : ~(n \in N /\ index[n].ids \subseteq S)}
    IN  [n \in kept |-> IF n \in N THEN [index[n] EXCEPT !.ids = @ \ S] ELSE index[n]]

\* SADD of s to the names of N, EXPIRE of those of T; EXPIRE comes with a ttl,
\* otherwise the old one stays.
Added(s, ttl, N, T) ==
    [n \in DOMAIN index \cup N |->
        IF n \notin N THEN index[n]
        ELSE [ids |-> Members(n) \cup {s},
              expireAt |-> IF ttl = 0 \/ n \notin T THEN IndexTtl(n) ELSE clock + ttl + Slack]]

\* Sessions of alive that will outlive an index of theirs.
Outliving(alive, names) ==
    {s \in DOMAIN alive : \E n \in NamesOf(s) \cap DOMAIN names :
                              names[n].expireAt < alive[s]}

Unlisted(s, names) ==
    {r \in {s} : \E n \in NamesOf(r) : n \notin DOMAIN names \/ r \notin names[n].ids}

\* The pipeline of set, of which the commands on the indexes of N and T ran.
Write(s, at, ttl, N, T) ==
    /\ sessions' = With(sessions, s, at)
    /\ index' = Added(s, ttl, N, T)
    /\ call' = [p \in Process |-> [call[p] EXCEPT !.before = @ \ {s}]]
    /\ orphans' = (orphans \ {s}) \cup Outliving(sessions', index') \cup Unlisted(s, index')
    /\ UNCHANGED clock

End(ttl) == IF ttl = 0 THEN Forever ELSE clock + ttl

\* MUTANT of Set: the ttl is rounded down to seconds.
SetRoundedDown(s, ttl) ==
    /\ "set" \in Methods
    /\ Write(s, End(ttl) - 1, ttl, NamesOf(s), NamesOf(s))

Set(s, ttl) ==
    /\ "set" \in Methods
    /\ Write(s, End(ttl), ttl, NamesOf(s), NamesOf(s))

\* The pipeline breaks off after SET and the call throws: the index of the user
\* comes first, and SADD before EXPIRE.
SetPartly(s, ttl) ==
    /\ "set" \in Methods /\ <<s, ttl>> \in Breaking
    /\ \E N \in SUBSET NamesOf(s) : \E T \in SUBSET N :
        /\ N \ T = {} => <<"device", s[2]>> \notin N
        /\ <<"device", s[2]>> \in N => <<"user", s[1]>> \in T
        /\ Write(s, End(ttl), ttl, N, T)

\* renew: EXPIRE of the session key, nothing without a ttl.
Renew(s, ttl) ==
    /\ "renew" \in Methods
    /\ s \in DOMAIN sessions /\ ttl # 0
    /\ sessions' = [sessions EXCEPT ![s] = clock + ttl]
    /\ orphans' = orphans \cup Outliving(sessions', index)
    /\ UNCHANGED <<clock, index, call>>

------------------------------------------------------------------------------
\* The deletes.

Return(p) == call' = [call EXCEPT ![p] = NoCall]

\* delete looks for the session to learn its indexes.
DeleteGet(p, s) ==
    /\ "delete" \in Methods
    /\ call[p].pc = "idle"
    /\ call' = [call EXCEPT ![p] =
           [NoCall EXCEPT !.pc = "remove", !.ids = {s}, !.found = {s} \cap DOMAIN sessions]]
    /\ UNCHANGED <<clock, sessions, index, orphans>>

\* Found or not, the key is deleted; the indexes only if it was found.
DeleteRemove(p) ==
    /\ call[p].pc = "remove"
    /\ sessions' = Without(sessions, call[p].ids)
    /\ index' = Removed(call[p].found, UNION {NamesOf(s) : s \in call[p].found})
    /\ orphans' = orphans \ call[p].ids
    /\ Return(p)
    /\ UNCHANGED clock

\* SMEMBERS of the user index; an empty one is no call at all.
ListUser(p, u, d) ==
    /\ IF d = NoDevice THEN "deleteByUserId" \in Methods
                       ELSE "deleteByUserIdAndDevice" \in Methods
    /\ call[p].pc = "idle"
    /\ Members(<<"user", u>>) # {}
    /\ call' = [call EXCEPT ![p] =
           [device |-> d, pc |-> "data", user |-> u, ids |-> Members(<<"user", u>>),
            found |-> {},
            before |-> {s \in DOMAIN sessions : s[1] = u /\ d \in {s[2], NoDevice}}]]
    /\ UNCHANGED <<clock, sessions, index, orphans>>

\* GET of every session listed.
GetListed(p) ==
    /\ call[p].pc = "data"
    /\ call' = [call EXCEPT ![p].pc = "purge", ![p].found = call[p].ids \cap DOMAIN sessions]
    /\ UNCHANGED <<clock, sessions, index, orphans>>

\* Ids taken out of indexes though their sessions live on.
Orphaned(cut, gone) == (orphans \cup (cut \cap DOMAIN sessions)) \ gone

\* MUTANT of PurgeUser: only sessions with a device are deleted.
PurgeUserOnDevices(p) ==
    LET ids == {s \in call[p].ids : s[2] # NoDevice}
        user == <<"user", call[p].user>>
        devices == UNION {NamesOf(s) : s \in call[p].found} \ {user}
    IN  /\ call[p].pc = "purge" /\ call[p].device = NoDevice
        /\ sessions' = Without(sessions, ids)
        /\ index' = Without(Removed(ids, devices), {user})
        /\ orphans' = orphans \ ids
        /\ Return(p)
        /\ UNCHANGED clock

\* deleteByUserId: all the keys listed, the user index with whatever it lists
\* by now, and the ids in the indexes of the devices that were found.
PurgeUser(p) ==
    LET ids == call[p].ids
        user == <<"user", call[p].user>>
        devices == UNION {NamesOf(s) : s \in call[p].found} \ {user}
    IN  /\ call[p].pc = "purge" /\ call[p].device = NoDevice
        /\ sessions' = Without(sessions, ids)
        /\ index' = Without(Removed(ids, devices), {user})
        /\ orphans' = Orphaned(Members(user), ids)
        /\ Return(p)
        /\ UNCHANGED clock

\* MUTANT of PurgeDevice: DEL of the user index for SREM.
PurgeDeviceAndIndex(p) ==
    LET c == call[p]
        gone == {s \in c.found : s[2] = c.device}
    IN  /\ c.pc = "purge" /\ c.device # NoDevice
        /\ sessions' = Without(sessions, gone)
        /\ index' = Without(Removed(gone, {<<"device", c.device>>}), {<<"user", c.user>>})
        /\ orphans' = orphans \ gone
        /\ Return(p)
        /\ UNCHANGED clock

\* deleteByUserIdAndDevice: the keys found with the device; they, and the ids
\* whose session was not found, leave the index of the user and of the device.
PurgeDevice(p) ==
    LET c == call[p]
        gone == {s \in c.found : s[2] = c.device}
        zombies == c.ids \ c.found
    IN  /\ c.pc = "purge" /\ c.device # NoDevice
        /\ sessions' = Without(sessions, gone)
        /\ index' = Removed(gone \cup zombies, {<<"user", c.user>>, <<"device", c.device>>})
        /\ orphans' = Orphaned(zombies, gone)
        /\ Return(p)
        /\ UNCHANGED clock

\* A command fails and the call throws.
Fail(p) ==
    /\ call[p].pc # "idle"
    /\ Return(p)
    /\ UNCHANGED <<clock, sessions, index, orphans>>

\* Time passes, and Redis forgets the keys whose ttl is over.
Tick ==
    /\ clock < MaxClock
    /\ clock' = clock + 1
    /\ sessions' = [s \in {r \in DOMAIN sessions : clock + 1 < sessions[r]} |-> sessions[s]]
    /\ index' = [n \in {m \in DOMAIN index : clock + 1 < index[m].expireAt} |-> index[n]]
    /\ UNCHANGED <<call, orphans>>

Next ==
    \/ \E s \in SessionId, ttl \in Ttls : Set(s, ttl) \/ SetPartly(s, ttl) \/ Renew(s, ttl)
    \/ \E p \in Process :
           \/ \E s \in SessionId : DeleteGet(p, s)
           \/ \E u \in User, d \in Device \cup {NoDevice} : ListUser(p, u, d)
           \/ DeleteRemove(p) \/ GetListed(p) \/ PurgeUser(p) \/ PurgeDevice(p)
           \/ Fail(p)
    \/ Tick

Spec == Init /\ [][Next]_vars

------------------------------------------------------------------------------

\* A live session is listed under its user and its device, where login and
\* kickUser look for it, whatever deletes overlap and fail and whatever
\* expires.  There are four ways out of it: a delete races the set that stored
\* the session, a renewal reaches beyond the indexes, a set with a shorter ttl
\* takes time from the indexes of others, and a set breaks off before it lists.
LiveSessionsAreListed ==
    \A s \in DOMAIN sessions \ orphans : \A n \in NamesOf(s) : s \in Members(n)

\* deleteByUserId and deleteByUserIdAndDevice do their work: when one returns,
\* no session is alive that was alive when it was called and not written since,
\* but for those out of their index (orphans), however many deletes of the same
\* user run at once.
DeletesReachAll ==
    [][\A p \in Process :
           PurgeUser(p) \/ PurgeDevice(p) =>
               call[p].before \cap DOMAIN sessions' \subseteq orphans]_vars

==============================================================================
