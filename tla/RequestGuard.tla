---------------------------- MODULE RequestGuard ----------------------------
(***************************************************************************)
(* The checks a request passes before its handler runs: AuthGuard for http *)
(* and (forMicroservice) rpc, WsAuthGuard, requireAdmin of the admin       *)
(* console and handleCallback of SsoService.  A request is cut at its      *)
(* awaits and interleaves with others, with the end of sessions, bans and  *)
(* openSafeAuth/closeSafeAuth, each of which is get, then set.             *)
(*                                                                         *)
(* Sessions are kept by id.  With random tokens the token is the id; a JWT *)
(* carries it.  One browser keeps the cookie; other clients keep whatever  *)
(* token they were given, old ones included.                               *)
(***************************************************************************)
EXTENDS Permissions, FiniteSets

CONSTANTS
    User, Role,
    Client,        \* where a login or a request comes from: [ip, agent]
    Unknown,       \* an ip or a user agent nobody named
    Process,       \* requests in flight
    Configs,       \* the configurations of a run
    Whitelist,     \* rpcIpWhitelist: ips
    Routes,        \* what @RequireRoles and its like demand of a handler
    AdminRoles, AdminGrants,  \* what requireAdmin accepts
    RolesOf,       \* per user
    GrantsOf,      \* per user: permissions, wildcards included
    MaxIds,        \* BOUND: session ids drawn
    MaxSafe        \* BOUND: calls of openSafeAuth

Ids == 1..MaxIds
NoId == 0

Entries == {"http", "rpc", "ws", "admin", "sso"}

\* relogin: the browser may log in more than once.
Calls == Entries \cup {"open", "close", "kick", "ban", "relogin"}

\* random: RandomTokenStrategy or JwtStrategy; strict: fingerprint.enabled and
\* .strict; autoRenew; what the application makes use of, who and from where.
\* Cookie mode is on.
Config == [random : BOOLEAN, strict : BOOLEAN, autoRenew : BOOLEAN,
           calls : SUBSET Calls, users : SUBSET User, clients : SUBSET Client]

ASSUME GuardAssumption ==
    /\ Configs \subseteq Config
    /\ Client # {} /\ \A c \in Client : DOMAIN c = {"ip", "agent"}
    /\ Unknown \notin Whitelist
    /\ RolesOf \in [User -> SUBSET Role]
    /\ AdminRoles \subseteq Role /\ AdminGrants \subseteq Permission
    /\ \A u \in User : GrantsOf[u] \subseteq Permission
    /\ \A r \in Routes : r.roles \subseteq Role /\ r.permissions \subseteq Permission
    /\ MaxIds \in Nat /\ MaxSafe \in Nat

VARIABLES
    config,
    sessions,   \* the store, by id
    issued,     \* session ids drawn
    tokens,     \* per id drawn: its user, and the login it descends from
    banned,     \* the blacklist
    cookie,     \* the token the browser holds
    disturbed,  \* the browser had two requests under way, or an answer was lost
    touched,    \* logins of which a session was ended
    opened,     \* calls of openSafeAuth
    lapsed,     \* those whose ttl is over
    shut,       \* those that a closeSafeAuth took back
    req         \* per process: the request it serves

vars == <<config, sessions, issued, tokens, banned, cookie, disturbed, touched,
          opened, lapsed, shut, req>>

\* safe: the openSafeAuth the session carries the time of, or 0.
None == [none |-> TRUE]
Session == [user : User, from : Client, safe : 0..MaxSafe]

PC == {"idle", "verify", "get", "ban", "rotGet", "rotSet", "rotDelete", "renew",
       "authorize", "admitted", "refused", "open", "close", "set"}

\* sid and from are of the token and its carrier, copy the session validated, data
\* the one to be written back, new the token of a Set-Cookie, route what the
\* handler that runs demands.  The rest is history: the ban that has lasted since
\* the request arrived, and what was over when it did.
Request == [pc : PC, entry : Entries \cup {"open", "close", "none"}, byCookie : BOOLEAN,
            sid : 0..MaxIds, from : Client,
            copy : Session \cup {None}, data : Session \cup {None},
            new : 0..MaxIds, route : Routes \cup {None},
            ban : BOOLEAN, over : BOOLEAN, closed : SUBSET (1..MaxSafe)]

Idle == [pc |-> "idle", entry |-> "none", byCookie |-> FALSE, sid |-> NoId,
         from |-> CHOOSE c \in Client : TRUE, copy |-> None, data |-> None, new |-> NoId,
         route |-> None, ban |-> FALSE, over |-> FALSE, closed |-> {}]

TypeOK ==
    /\ config \in Configs
    /\ sessions \in [Ids -> Session \cup {None}]
    /\ issued \in 0..MaxIds
    /\ tokens \in [Ids -> [user : User, login : Ids] \cup {None}]
    /\ banned \subseteq User
    /\ cookie \in 0..MaxIds
    /\ disturbed \in BOOLEAN
    /\ touched \subseteq Ids
    /\ opened \in 0..MaxSafe
    /\ lapsed \subseteq 1..MaxSafe /\ shut \subseteq 1..MaxSafe
    /\ req \in [Process -> Request]

Init ==
    /\ config \in Configs
    /\ sessions = [i \in Ids |-> None]
    /\ issued = 0
    /\ tokens = [i \in Ids |-> None]
    /\ banned = {}
    /\ cookie = NoId
    /\ disturbed = FALSE
    /\ touched = {}
    /\ opened = 0
    /\ lapsed = {} /\ shut = {}
    /\ req = [p \in Process |-> Idle]

------------------------------------------------------------------------------

Live(i) == sessions[i] # None

\* The requests that are about to write a copy of a session back.
Writers == {p \in Process : req[p].pc \in {"rotSet", "set"}}

\* A login is over when no session of it is left and no copy under way.
Over(l) ==
    /\ \A i \in 1..issued : tokens[i].login = l => ~Live(i)
    /\ \A p \in Writers : tokens[req[p].sid].login # l

\* The openings a call of p takes back for good: no other session and no other
\* copy under way carries them.
Removed(p) ==
    {n \in 1..opened :
        /\ n = req[p].data.safe \/ (Live(req[p].sid) /\ n = sessions[req[p].sid].safe)
        /\ \A i \in Ids \ {req[p].sid} : Live(i) => sessions[i].safe # n
        /\ \A q \in Writers \ {p} : req[q].data.safe # n}

CookieRequest(p) == req[p].pc # "idle" /\ req[p].byCookie
Goto(p, pc) == req' = [req EXCEPT ![p].pc = pc]

\* The request is refused: what is left of it is the cookie of the response.
Refused(r) == IF r.new = NoId THEN Idle
              ELSE [Idle EXCEPT !.pc = "refused", !.byCookie = TRUE, !.new = r.new]
Refuse(p) == req' = [req EXCEPT ![p] = Refused(req[p])]

world == <<config, banned, cookie, disturbed, touched, opened, lapsed, shut>>
store == <<sessions, issued, tokens>>

------------------------------------------------------------------------------

(* A request and its awaits *)

\* JwtStrategy verifies without an await, RandomTokenStrategy asks the store.
FirstAwait == IF config.random THEN "verify" ELSE "get"

\* A token that was issued arrives at one of the guards.
Received(p, entry, byCookie, i, c) ==
    /\ req[p].pc = "idle"
    /\ entry \in config.calls
    /\ req' = [req EXCEPT ![p] =
           [pc |-> FirstAwait,
            entry |-> entry, byCookie |-> byCookie, sid |-> i, from |-> c,
            copy |-> None, data |-> None, new |-> NoId, route |-> None,
            ban |-> tokens[i].user \in banned, over |-> Over(tokens[i].login),
            closed |-> lapsed \cup shut]]
    /\ UNCHANGED <<store, config, banned, cookie, touched, opened, lapsed, shut>>

\* AuthGuard of a handler that demands anything, with a token in the header.
ArriveByHeader(p, i, c) == Received(p, "http", FALSE, i, c) /\ UNCHANGED disturbed

\* Without one AuthGuard reads the cookie.
ArriveByCookie(p, c) ==
    /\ cookie # NoId
    /\ Received(p, "http", TRUE, cookie, c)
    /\ disturbed' = (disturbed \/ \E q \in Process : CookieRequest(q))

\* The whitelist of validateRpcToken, which comes before the token.
Whitelisted(c) == Whitelist = {} \/ c.ip \in Whitelist

\* The guard of forMicroservice.
ArriveByRpc(p, i, c) == Whitelisted(c) /\ Received(p, "rpc", FALSE, i, c) /\ UNCHANGED disturbed

\* WsAuthGuard: wherever the handshake carries the token, cookie included, no
\* cookie is written back.
ArriveBySocket(p, i, c) == Received(p, "ws", FALSE, i, c) /\ UNCHANGED disturbed

\* requireAdmin
ArriveAtConsole(p, i, c) == Received(p, "admin", FALSE, i, c) /\ UNCHANGED disturbed

\* handleCallback, whose code is a token when there is no codeExchangeHandler.
ArriveByCallback(p, i, c) == Received(p, "sso", FALSE, i, c) /\ UNCHANGED disturbed

\* RandomTokenStrategy.verify looks the token up in the store.
Verify(p) ==
    /\ req[p].pc = "verify"
    /\ IF Live(req[p].sid) THEN Goto(p, "get") ELSE Refuse(p)
    /\ UNCHANGED <<store, world>>

\* MUTANT of AsksBan: only microservices ask the blacklist.
AsksBanRpcOnly(entry) == entry = "rpc"

\* AuthGuard asks the blacklist when jwt.decode finds a user, the microservice
\* guard always, the others never.
AsksBan(entry) == entry = "rpc" \/ (entry = "http" /\ ~config.random)

\* What follows the checks of the token: a Set-Cookie, the renewal of a JWT.
AfterBan(p) ==
    IF req[p].entry # "http" THEN "authorize"
    ELSE IF req[p].byCookie /\ config.random THEN "rotGet"
    ELSE IF config.autoRenew /\ ~config.random THEN "renew" ELSE "authorize"

Differ(x, y) == Unknown \notin {x, y} /\ x # y

\* checkFingerprint: what both the login and the request named has to be the
\* same.  handleCallback names nothing, the microservice guard no user agent.
FingerprintFits(p, s) ==
    \/ ~config.strict \/ req[p].entry = "sso"
    \/ /\ ~Differ(s.from.ip, req[p].from.ip)
       /\ req[p].entry = "rpc" \/ ~Differ(s.from.agent, req[p].from.agent)

\* validateToken and validateRpcToken read the session and check the client.
Get(p) ==
    /\ req[p].pc = "get"
    /\ LET s == sessions[req[p].sid] IN
       IF Live(req[p].sid) /\ FingerprintFits(p, s)
       THEN req' = [req EXCEPT
                ![p].copy = s,
                ![p].pc = IF AsksBan(req[p].entry) THEN "ban" ELSE AfterBan(p)]
       ELSE Refuse(p)
    /\ UNCHANGED <<store, world>>

\* isBanned; the cookie is written after it.
CheckBan(p) ==
    /\ req[p].pc = "ban"
    /\ IF tokens[req[p].sid].user \in banned
       THEN Refuse(p)
       ELSE req' = [req EXCEPT
                ![p].pc = AfterBan(p),
                ![p].new = IF req[p].byCookie /\ ~config.random THEN req[p].sid ELSE NoId]
    /\ UNCHANGED <<store, world>>

\* rotate: get; without a session it answers undefined and the old token is
\* written again.
RotateGet(p) ==
    /\ req[p].pc = "rotGet"
    /\ IF Live(req[p].sid)
       THEN req' = [req EXCEPT ![p].pc = "rotSet", ![p].data = sessions[req[p].sid]]
       ELSE req' = [req EXCEPT ![p].pc = "authorize", ![p].new = req[p].sid]
    /\ UNCHANGED <<store, world>>

\* MUTANT of RotateSet: the cookie is renewed with the token that was read.
RotateSetOldCookie(p) ==
    /\ req[p].pc = "rotSet"
    /\ issued < MaxIds
    /\ issued' = issued + 1
    /\ sessions' = [sessions EXCEPT ![issued + 1] = req[p].data]
    /\ tokens' = [tokens EXCEPT ![issued + 1] = tokens[req[p].sid]]
    /\ req' = [req EXCEPT ![p].pc = "rotDelete", ![p].data = None, ![p].new = req[p].sid]
    /\ UNCHANGED world

\* rotate: set the copy under a new token.
RotateSet(p) ==
    /\ req[p].pc = "rotSet"
    /\ issued < MaxIds
    /\ issued' = issued + 1
    /\ sessions' = [sessions EXCEPT ![issued + 1] = req[p].data]
    /\ tokens' = [tokens EXCEPT ![issued + 1] = tokens[req[p].sid]]
    /\ req' = [req EXCEPT ![p].pc = "rotDelete", ![p].data = None, ![p].new = issued + 1]
    /\ UNCHANGED world

\* rotate: delete the old token.
RotateDelete(p) ==
    /\ req[p].pc = "rotDelete"
    /\ sessions' = [sessions EXCEPT ![req[p].sid] = None]
    /\ Goto(p, "authorize")
    /\ UNCHANGED <<issued, tokens, world>>

\* MUTANT of Renew: the session is written back, as openSafeAuth does.
RenewByWriting(p) ==
    /\ req[p].pc = "renew"
    /\ sessions' = [sessions EXCEPT ![req[p].sid] = req[p].copy]
    /\ Goto(p, "authorize")
    /\ UNCHANGED <<issued, tokens, world>>

\* tryAutoRenew: renew moves the end of a session that exists, or does nothing.
Renew(p) ==
    /\ req[p].pc = "renew"
    /\ Goto(p, "authorize")
    /\ UNCHANGED <<store, world>>

\* isSafeAuth, on the copy.
SafeAuth(s) == s.safe # 0 /\ s.safe \notin lapsed

\* The checks of a handler's metadata, all on the copy.
Allows(p, route) ==
    LET s == req[p].copy IN
    /\ hasRole(RolesOf[s.user], route.roles)
    /\ hasPermission(GrantsOf[s.user], route.permissions)
    /\ route.safe => SafeAuth(s)

\* An http or rpc handler runs, or the request ends with a 403.
Authorize(p) ==
    /\ req[p].pc = "authorize" /\ req[p].entry \in {"http", "rpc"}
    /\ \E route \in Routes :
        IF Allows(p, route)
        THEN req' = [req EXCEPT ![p].pc = "admitted", ![p].route = route]
        ELSE Refuse(p)
    /\ UNCHANGED <<store, world>>

\* A socket or a callback needs no more than its session.
Admit(p) ==
    /\ req[p].pc = "authorize" /\ req[p].entry \in {"ws", "sso"}
    /\ Goto(p, "admitted")
    /\ UNCHANGED <<store, world>>

IsAdmin(u) == RolesOf[u] \cap AdminRoles # {} \/ GrantsOf[u] \cap AdminGrants # {}

\* The rest of requireAdmin.
AuthorizeAdmin(p) ==
    /\ req[p].pc = "authorize" /\ req[p].entry = "admin"
    /\ IF IsAdmin(req[p].copy.user) THEN Goto(p, "admitted") ELSE Refuse(p)
    /\ UNCHANGED <<store, world>>

\* The response reaches the client, with its cookie.
Respond(p) ==
    /\ req[p].pc \in {"admitted", "refused"}
    /\ cookie' = IF req[p].new # NoId THEN req[p].new ELSE cookie
    /\ req' = [req EXCEPT ![p] = Idle]
    /\ UNCHANGED <<store, config, banned, disturbed, touched, opened, lapsed, shut>>

\* The response is lost on its way.
LoseResponse(p) ==
    /\ req[p].pc \in {"admitted", "refused"} /\ req[p].new # NoId
    /\ disturbed' = TRUE
    /\ req' = [req EXCEPT ![p] = Idle]
    /\ UNCHANGED <<store, config, banned, cookie, touched, opened, lapsed, shut>>

\* A call of the store throws, without effect: a 401 or 500 without a cookie.
Fail(p) ==
    /\ req[p].pc \notin {"idle", "authorize", "admitted", "refused"}
    /\ req' = [req EXCEPT ![p] = Idle]
    /\ UNCHANGED <<store, world>>

\* rotate's delete throws after its effect: the store's answer was lost.  Where
\* another write does, SetSafeAuth has ended and RotateSet is followed by Fail.
LoseDelete(p) ==
    /\ req[p].pc = "rotDelete"
    /\ sessions' = [sessions EXCEPT ![req[p].sid] = None]
    /\ disturbed' = TRUE
    /\ req' = [req EXCEPT ![p] = Idle]
    /\ UNCHANGED <<issued, tokens, config, banned, cookie, touched, opened, lapsed, shut>>

------------------------------------------------------------------------------

(* openSafeAuth and closeSafeAuth *)

BeginSafeAuth(p, call, i) ==
    /\ req[p].pc = "idle"
    /\ call \in config.calls
    /\ call = "open" => opened < MaxSafe
    /\ req' = [req EXCEPT ![p].pc = call, ![p].entry = call, ![p].sid = i]
    /\ UNCHANGED <<store, world>>

\* get; without a session the call throws.
GetForSafeAuth(p) ==
    /\ req[p].pc \in {"open", "close"}
    /\ req' = IF Live(req[p].sid)
              THEN [req EXCEPT ![p].pc = "set", ![p].data = sessions[req[p].sid]]
              ELSE [req EXCEPT ![p] = Idle]
    /\ UNCHANGED <<store, world>>

\* MUTANT of Marked: closeSafeAuth forgets to remove the mark.
MarkedForEver(p) == [req[p].data EXCEPT !.safe = IF req[p].entry = "open" THEN opened + 1 ELSE @]

\* MUTANT of Marked: the mark is of an opening that never was.
MarkedTwice(p) == [req[p].data EXCEPT !.safe = IF req[p].entry = "open" THEN opened + 2 ELSE 0]

\* safeAuth and safeAuthTime of the session that is written back.
Marked(p) == [req[p].data EXCEPT !.safe = IF req[p].entry = "open" THEN opened + 1 ELSE 0]

\* set, whether the session is still there or not.
SetSafeAuth(p) ==
    /\ req[p].pc = "set"
    /\ req[p].entry = "open" => opened < MaxSafe
    /\ sessions' = [sessions EXCEPT ![req[p].sid] = Marked(p)]
    /\ opened' = IF req[p].entry = "open" THEN opened + 1 ELSE opened
    /\ shut' = IF req[p].entry = "close" THEN shut \cup Removed(p) ELSE shut
    /\ req' = [req EXCEPT ![p] = Idle]
    /\ UNCHANGED <<issued, tokens, config, banned, cookie, disturbed, touched, lapsed>>

------------------------------------------------------------------------------

(* Around the requests *)

\* login, in cookie mode: the browser gets the token.
LogIn(u, c) ==
    /\ issued < MaxIds
    /\ issued = 0 \/ "relogin" \in config.calls
    /\ issued' = issued + 1
    /\ sessions' = [sessions EXCEPT ![issued + 1] = [user |-> u, from |-> c, safe |-> 0]]
    /\ tokens' = [tokens EXCEPT ![issued + 1] = [user |-> u, login |-> issued + 1]]
    /\ cookie' = issued + 1
    /\ disturbed' = (disturbed \/ \E p \in Process : CookieRequest(p))
    /\ UNCHANGED <<config, banned, touched, opened, lapsed, shut, req>>

\* logout, forceLogout, the eviction by another login, or the end of the ttl.
EndSession(i) ==
    /\ Live(i)
    /\ sessions' = [sessions EXCEPT ![i] = None]
    /\ touched' = touched \cup {tokens[i].login}
    /\ UNCHANGED <<issued, tokens, config, banned, cookie, disturbed, opened, lapsed, shut, req>>

\* kickUser
KickUser(u) ==
    /\ "kick" \in config.calls
    /\ \E i \in Ids : Live(i) /\ sessions[i].user = u
    /\ sessions' = [i \in Ids |-> IF Live(i) /\ sessions[i].user = u THEN None ELSE sessions[i]]
    /\ touched' = touched \cup {tokens[i].login : i \in {j \in Ids : Live(j) /\ sessions[j].user = u}}
    /\ UNCHANGED <<issued, tokens, config, banned, cookie, disturbed, opened, lapsed, shut, req>>

\* banUser
BanUser(u) ==
    /\ "ban" \in config.calls
    /\ u \notin banned
    /\ banned' = banned \cup {u}
    /\ UNCHANGED <<store, config, cookie, disturbed, touched, opened, lapsed, shut, req>>

\* unbanUser, or the end of the ban; no ban has lasted any longer.
UnbanUser(u) ==
    /\ u \in banned
    /\ banned' = banned \ {u}
    /\ req' = [p \in Process |->
           IF req[p].sid # NoId /\ tokens[req[p].sid].user = u
           THEN [req[p] EXCEPT !.ban = FALSE] ELSE req[p]]
    /\ UNCHANGED <<store, config, cookie, disturbed, touched, opened, lapsed, shut>>

\* safeAuthTtl goes by.
LapseSafeAuth(n) ==
    /\ n \in 1..opened \ lapsed
    /\ lapsed' = lapsed \cup {n}
    /\ UNCHANGED <<store, config, banned, cookie, disturbed, touched, opened, shut, req>>

------------------------------------------------------------------------------

Step(p) ==
    \/ Verify(p) \/ Get(p) \/ CheckBan(p)
    \/ RotateGet(p) \/ RotateSet(p) \/ RotateDelete(p) \/ Renew(p)
    \/ Authorize(p) \/ Admit(p) \/ AuthorizeAdmin(p)
    \/ Respond(p) \/ LoseResponse(p) \/ Fail(p) \/ LoseDelete(p)
    \/ GetForSafeAuth(p) \/ SetSafeAuth(p)

Environment ==
    \/ \E u \in config.users :
        \/ \E c \in config.clients : LogIn(u, c)
        \/ KickUser(u) \/ BanUser(u) \/ UnbanUser(u)
    \/ \E i \in Ids : EndSession(i)
    \/ \E n \in 1..MaxSafe : LapseSafeAuth(n)

Next ==
    \/ \E p \in Process :
        \/ Step(p)
        \/ \E c \in config.clients : ArriveByCookie(p, c)
        \/ \E i \in 1..issued :
            \/ \E c \in config.clients :
                \/ ArriveByHeader(p, i, c) \/ ArriveByRpc(p, i, c) \/ ArriveBySocket(p, i, c)
                \/ ArriveAtConsole(p, i, c) \/ ArriveByCallback(p, i, c)
            \/ \E call \in {"open", "close"} : BeginSafeAuth(p, call, i)
    \/ Environment

Spec == Init /\ [][Next]_vars

------------------------------------------------------------------------------

Admitted == {p \in Process : req[p].pc = "admitted"}

\* A request of an entry that asks the blacklist never reaches its handler when
\* a ban of its user was in force from its arrival on (auth.guard.ts:142-148,
\* 301-305).
BanIsEnforced ==
    \A p \in Admitted :
        req[p].entry = "rpc" \/ (req[p].entry = "http" /\ ~config.random) => ~req[p].ban

\* auth.service.ts:459-461: banUser forbids the user to log in or to have access.
BannedUsersAreRefused == \A p \in Admitted : ~req[p].ban

\* No request that arrives after a login is over is admitted at any entry: no
\* renewal, rotation or safe auth of another request brings the session back
\* when none was at work on it (auth.service.ts:378-393).
EndedLoginsStayOut == \A p \in Admitted : ~req[p].over

\* A handler that demands safe auth runs only on one that was still open when
\* the request arrived, or was opened since: neither closed nor past its ttl, and
\* brought back by no other request (auth.guard.ts:192-206, auth.service.ts:608-672).
SafeRoutesNeedSafeAuth ==
    \A p \in Admitted :
        req[p].route # None /\ req[p].route.safe => req[p].copy.safe \notin req[p].closed \cup {0}

\* Everything that the permissions of a handler stand for, wildcards included, is
\* covered by the grants of the user it runs for (auth.guard.ts:185-190,
\* permission.engine.ts:73-95).
HandlersAreGranted ==
    \A p \in Admitted : req[p].route # None =>
        \A r \in req[p].route.permissions : \A name \in Name :
            StandsFor(r, name) => \E g \in GrantsOf[req[p].copy.user] : StandsFor(g, name)

\* The browser's cookie is good for as long as its login is, whatever call fails
\* in between, as long as no answer is lost: rotation stores the new token before
\* it deletes the old one, and the old one comes back to the browser when there is
\* no new one
\* (random-token.strategy.ts:150-169, auth.guard.ts:154-158).
CookieStaysUsable ==
    cookie # NoId /\ ~disturbed /\ tokens[cookie].login \notin touched
        /\ (\A p \in Process : ~CookieRequest(p))
    => Live(cookie)

=============================================================================
