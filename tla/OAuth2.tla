-------------------------------- MODULE OAuth2 --------------------------------
(***************************************************************************)
(* The OAuth2 server: the endpoints of OAuth2Controller over a client      *)
(* store, InMemoryOAuth2ClientStore or RedisOAuth2ClientStore.  A request  *)
(* to the token endpoint is cut at its awaits; a method of the memory      *)
(* store is one step, one of the Redis store is one step per command sent  *)
(* (a script or a pipeline is one command: one connection sends them all). *)
(*                                                                         *)
(* generateToken draws an access token and a refresh token together: a     *)
(* pair, named by a number.  A family is named by its first pair.  The     *)
(* seven-day ttl of the Redis keys is beyond the horizon of the model, and *)
(* so are clients, scopes and id tokens; PKCE and the other checks of a    *)
(* request are a choice between passing and failing.                       *)
(***************************************************************************)
EXTENDS Naturals, FiniteSets

CONSTANTS
    Process,    \* concurrent requests to the token endpoint
    Code,       \* BOUND: the authorization codes and the device codes drawn
    CodeTtl,    \* life of a code of either kind
    AccessTtl,  \* expiresIn of an access token, in the same unit
    MaxPairs,   \* BOUND: token pairs drawn
    MaxClock    \* BOUND: how long the model runs

ASSUME OAuth2Assumption ==
    /\ {CodeTtl, AccessTtl, MaxPairs, MaxClock} \subseteq Nat

VARIABLES
    store,          \* "memory" or "redis", chosen when the module is registered
    clock,          \* Date.now()
    codes,          \* authorization codes: code -> expiresAt
    devices,        \* deviceCodes: code -> [authorized, expiresAt]
    tokens,         \* access tokens: pair -> expiresAt
    refreshTokens,  \* pair -> [family, used]
    tokenFamilies,  \* the index: family -> set of pairs
    req,            \* req[p]: the token request p is serving
    drawn,          \* pairs drawn so far
    issued,         \* history: the pairs saved, with the grant they came from
    revoked         \* history: the families revoked

grants == <<codes, devices>>
pairs == <<tokens, refreshTokens, tokenFamilies>>
history == <<issued, revoked>>
vars == <<store, clock, grants, pairs, req, drawn, history>>

Pair == 1..MaxPairs
NoPair == 0
Grant == {"code", "device"} \X Code \cup {"refresh"} \X Pair \cup {<<"direct", NoPair>>}
Direct == <<"direct", NoPair>>

PC == {"idle", "deleteCode", "getToken", "revoke", "revokeExec", "generate", "save"}

Request == [pc : PC, from : Grant, family : Pair \cup {NoPair},
            pair : Pair \cup {NoPair}, todo : SUBSET Pair]

New(pc, from) == [pc |-> pc, from |-> from, family |-> NoPair, pair |-> NoPair, todo |-> {}]

TypeOK ==
    /\ store \in {"memory", "redis"}
    /\ clock \in Nat
    /\ DOMAIN codes \subseteq Code /\ \A c \in DOMAIN codes : codes[c] \in Nat
    /\ DOMAIN devices \subseteq Code
    /\ \A c \in DOMAIN devices : devices[c] \in [authorized : BOOLEAN, expiresAt : Nat]
    /\ DOMAIN tokens \subseteq Pair /\ \A n \in DOMAIN tokens : tokens[n] \in Nat
    /\ DOMAIN refreshTokens \subseteq Pair
    /\ \A n \in DOMAIN refreshTokens : refreshTokens[n] \in [family : Pair, used : BOOLEAN]
    /\ DOMAIN tokenFamilies \subseteq Pair
    /\ \A f \in DOMAIN tokenFamilies : tokenFamilies[f] \subseteq Pair
    /\ req \in [Process -> Request]
    /\ drawn \in 0..MaxPairs
    /\ issued \subseteq [pair : Pair, from : Grant]
    /\ revoked \subseteq Pair

Init ==
    /\ store \in {"memory", "redis"}
    /\ clock = 0
    /\ codes = <<>> /\ devices = <<>>
    /\ tokens = <<>> /\ refreshTokens = <<>> /\ tokenFamilies = <<>>
    /\ req = [p \in Process |-> New("idle", Direct)]
    /\ drawn = 0
    /\ issued = {} /\ revoked = {}

------------------------------------------------------------------------------

Without(f, S) == [x \in DOMAIN f \ S |-> f[x]]
With(f, x, v) == [y \in DOMAIN f \cup {x} |-> IF y = x THEN v ELSE f[y]]

\* The index without the pairs of S; a family without members has no entry.
Unindexed(index, S) ==
    [f \in {g \in DOMAIN index : ~(index[g] \subseteq S)} |-> index[f] \ S]

Expired(n) == clock > tokens[n]

Goto(p, pc) == req' = [req EXCEPT ![p].pc = pc]
Finish(p) == req' = [req EXCEPT ![p] = New("idle", Direct)]

------------------------------------------------------------------------------
\* The endpoints that hand out codes.

\* randomUUID() draws a code nothing refers to.
Fresh(from) ==
    /\ \A p \in Process : req[p].from # from
    /\ \A i \in issued : i.from # from

\* authorize, for a logged-in user and a valid request.
Authorize(c) ==
    /\ c \notin DOMAIN codes /\ Fresh(<<"code", c>>)
    /\ codes' = With(codes, c, clock + CodeTtl)
    /\ UNCHANGED <<store, clock, devices, pairs, req, drawn, history>>

DeviceAuthorize(c) ==
    /\ c \notin DOMAIN devices /\ Fresh(<<"device", c>>)
    /\ devices' = With(devices, c, [authorized |-> FALSE, expiresAt |-> clock + CodeTtl])
    /\ UNCHANGED <<store, clock, codes, pairs, req, drawn, history>>

\* The user enters the user code of c; an expired entry is dropped.
DeviceVerify(c) ==
    /\ c \in DOMAIN devices
    /\ ~devices[c].authorized
    /\ devices' = IF clock > devices[c].expiresAt
                  THEN Without(devices, {c})
                  ELSE [devices EXCEPT ![c].authorized = TRUE]
    /\ UNCHANGED <<store, clock, codes, pairs, req, drawn, history>>

------------------------------------------------------------------------------
\* The token endpoint.

\* A request starts here with its first look at a grant: what token does before
\* that, to find the client and check its secret, changes nothing.
Serve(p, pc, from) == req' = [req EXCEPT ![p] = New(pc, from)]

\* password and client_credentials: no grant to consume.
BeginDirect(p) ==
    /\ req[p].pc = "idle"
    /\ Serve(p, "generate", Direct)
    /\ UNCHANGED <<store, clock, grants, pairs, drawn, history>>

\* The client id, redirect uri and PKCE checks on a consumed code may fail.
CheckCode(p, c) == Serve(p, "generate", <<"code", c>>) \/ Finish(p)

\* consumeAuthorizationCode: the memory store's, or the first half of the Redis
\* store's.  An absent code changes nothing.
ConsumeCode(p, c) ==
    /\ req[p].pc = "idle"
    /\ c \in DOMAIN codes
    /\ \/ /\ clock > codes[c]
          /\ codes' = Without(codes, {c}) /\ UNCHANGED req
       \/ /\ clock <= codes[c] /\ store = "memory"
          /\ codes' = Without(codes, {c}) /\ CheckCode(p, c)
       \/ /\ clock <= codes[c] /\ store = "redis"
          /\ Serve(p, "deleteCode", <<"code", c>>) /\ UNCHANGED codes
    /\ UNCHANGED <<store, clock, devices, pairs, drawn, history>>

DeleteCode(p) ==
    LET c == req[p].from[2] IN
    /\ req[p].pc = "deleteCode"
    /\ codes' = Without(codes, {c}) /\ CheckCode(p, c)
    /\ UNCHANGED <<store, clock, devices, pairs, drawn, history>>

\* MUTANT of Poll: the device code is kept.
PollKeepsCode(p, c) ==
    /\ req[p].pc = "idle"
    /\ c \in DOMAIN devices
    /\ clock <= devices[c].expiresAt /\ devices[c].authorized
    /\ Serve(p, "generate", <<"device", c>>)
    /\ UNCHANGED <<store, clock, grants, pairs, drawn, history>>

\* handleDeviceCodeToken: an expired entry is dropped, an authorized one taken.
Poll(p, c) ==
    /\ req[p].pc = "idle"
    /\ c \in DOMAIN devices
    /\ \/ clock > devices[c].expiresAt /\ UNCHANGED req
       \/ /\ clock <= devices[c].expiresAt /\ devices[c].authorized
          /\ Serve(p, "generate", <<"device", c>>)
    /\ devices' = Without(devices, {c})
    /\ UNCHANGED <<store, clock, codes, pairs, drawn, history>>

\* consumeRefreshToken on an entry that is there: it is marked, or its reuse is
\* detected and its family is to be revoked.
MarkOrDetect(p, n, pc) ==
    /\ req' = [req EXCEPT ![p] =
           [New(IF refreshTokens[n].used THEN "revoke" ELSE pc, <<"refresh", n>>)
               EXCEPT !.family = refreshTokens[n].family]]
    /\ refreshTokens' = [refreshTokens EXCEPT ![n].used = TRUE]
    /\ UNCHANGED <<tokens, tokenFamilies>>

\* The memory store looks at the access token first: without one the answer is
\* undefined, and an expired one is dropped with its refresh token.
ConsumeRefreshMemory(p, n) ==
    /\ store = "memory" /\ n \in DOMAIN tokens
    /\ \/ ~Expired(n) /\ MarkOrDetect(p, n, "generate")
       \/ /\ Expired(n)
          /\ tokens' = Without(tokens, {n})
          /\ refreshTokens' = Without(refreshTokens, {n})
          /\ tokenFamilies' = Unindexed(tokenFamilies, {n})
          /\ UNCHANGED req

\* MUTANT of ConsumeRefreshRedis: the script does not write the entry back.
ConsumeRefreshRedisUnmarked(p, n) ==
    /\ store = "redis" /\ ~refreshTokens[n].used
    /\ req' = [req EXCEPT ![p] =
           [New("getToken", <<"refresh", n>>) EXCEPT !.family = refreshTokens[n].family]]
    /\ UNCHANGED pairs

\* The script of the Redis store looks at the refresh token only.
ConsumeRefreshRedis(p, n) == store = "redis" /\ MarkOrDetect(p, n, "getToken")

ConsumeRefresh(p, n) ==
    /\ req[p].pc = "idle"
    /\ n \in DOMAIN refreshTokens
    /\ ConsumeRefreshMemory(p, n) \/ ConsumeRefreshRedis(p, n)
    /\ UNCHANGED <<store, clock, grants, drawn, history>>

\* After the script, the access token.
GetToken(p) ==
    /\ req[p].pc = "getToken"
    /\ IF req[p].from[2] \in DOMAIN tokens THEN Goto(p, "generate") ELSE Finish(p)
    /\ UNCHANGED <<store, clock, grants, pairs, drawn, history>>

\* The pairs of S leave the store, and family f leaves the index.
DropFamily(f, S) ==
    /\ tokens' = Without(tokens, S \cap DOMAIN refreshTokens)
    /\ refreshTokens' = Without(refreshTokens, S)
    /\ tokenFamilies' = Without(tokenFamilies, {f})
    /\ revoked' = revoked \cup {f}

Members(f) == IF f \in DOMAIN tokenFamilies THEN tokenFamilies[f] ELSE {}

\* revokeTokenFamily: at once in memory; in Redis the members are read first.
Revoke(p) ==
    LET f == req[p].family IN
    /\ req[p].pc = "revoke"
    /\ \/ store = "memory" /\ DropFamily(f, Members(f)) /\ Finish(p)
       \/ /\ store = "redis"
          /\ req' = [req EXCEPT ![p].todo = Members(f), ![p].pc = "revokeExec"]
          /\ UNCHANGED <<pairs, revoked>>
    /\ UNCHANGED <<store, clock, grants, drawn, issued>>

\* The pipeline of deletes.  The entries are looked up one by one before it,
\* but what a lookup finds does not change until it is deleted.
RevokeExec(p) ==
    /\ req[p].pc = "revokeExec"
    /\ DropFamily(req[p].family, req[p].todo)
    /\ Finish(p)
    /\ UNCHANGED <<store, clock, grants, drawn, issued>>

\* generateToken, login included.
Generate(p) ==
    /\ req[p].pc = "generate"
    /\ drawn < MaxPairs
    /\ drawn' = drawn + 1
    /\ req' = [req EXCEPT ![p].pair = drawn + 1, ![p].pc = "save"]
    /\ UNCHANGED <<store, clock, grants, pairs, history>>

\* evictExpiredTokens removes these; the Redis store leaves it to key expiry.
Evictable == {m \in DOMAIN tokens : store = "memory" /\ Expired(m)}

\* MUTANT of Save: no family is drawn for a new pair.
SaveWithoutFamily(p) ==
    LET n == req[p].pair
        f == req[p].family
    IN  /\ req[p].pc = "save"
        /\ tokens' = With(tokens, n, clock + AccessTtl)
        /\ refreshTokens' = With(refreshTokens, n, [family |-> f, used |-> FALSE])
        /\ tokenFamilies' = With(tokenFamilies, f, Members(f) \cup {n})
        /\ issued' = issued \cup {[pair |-> n, from |-> req[p].from]}
        /\ Finish(p)
        /\ UNCHANGED <<store, clock, grants, drawn, revoked>>

\* saveToken: the pair enters its family, a new one unless it is refreshed; the
\* memory store then removes all pairs whose access token has expired.
Save(p) ==
    LET n == req[p].pair
        f == IF req[p].family = NoPair THEN n ELSE req[p].family
        gone == Evictable
    IN  /\ req[p].pc = "save"
        /\ tokens' = Without(With(tokens, n, clock + AccessTtl), gone)
        /\ refreshTokens' = Without(With(refreshTokens, n, [family |-> f, used |-> FALSE]), gone)
        /\ tokenFamilies' = Unindexed(With(tokenFamilies, f, Members(f) \cup {n}), gone)
        /\ issued' = issued \cup {[pair |-> n, from |-> req[p].from]}
        /\ Finish(p)
        /\ UNCHANGED <<store, clock, grants, drawn, revoked>>

\* login refuses or a command to Redis fails: the request ends where it is.
Fail(p) ==
    /\ req[p].pc # "idle"
    /\ store = "memory" => req[p].pc = "generate"
    /\ Finish(p)
    /\ UNCHANGED <<store, clock, grants, pairs, drawn, history>>

------------------------------------------------------------------------------
\* The other uses of the store.  The application may call the last two; in
\* Redis each is a lookup and a pipeline, and nothing that can happen between
\* them changes what the pipeline has to delete.

\* userinfo: getToken of the memory store drops an expired access token, alone.
Userinfo(n) ==
    /\ store = "memory"
    /\ n \in DOMAIN tokens /\ Expired(n)
    /\ tokens' = Without(tokens, {n})
    /\ UNCHANGED <<store, clock, grants, refreshTokens, tokenFamilies, req, drawn, history>>

\* MUTANT of RevokeRefreshToken: the access token stays.
RevokeRefreshTokenAlone(n) ==
    /\ n \in DOMAIN refreshTokens
    /\ refreshTokens' = Without(refreshTokens, {n})
    /\ tokenFamilies' = Unindexed(tokenFamilies, {n})
    /\ UNCHANGED <<store, clock, grants, tokens, req, drawn, history>>

RevokeRefreshToken(n) ==
    /\ n \in DOMAIN refreshTokens
    /\ tokens' = Without(tokens, {n})
    /\ refreshTokens' = Without(refreshTokens, {n})
    /\ tokenFamilies' = Unindexed(tokenFamilies, {n})
    /\ UNCHANGED <<store, clock, grants, req, drawn, history>>

RemoveToken(n) ==
    /\ n \in DOMAIN tokens
    /\ tokens' = Without(tokens, {n})
    /\ refreshTokens' = Without(refreshTokens, {n})
    /\ tokenFamilies' = Unindexed(tokenFamilies, {n} \cap DOMAIN refreshTokens)
    /\ UNCHANGED <<store, clock, grants, req, drawn, history>>

Tick ==
    /\ clock < MaxClock
    /\ clock' = clock + 1
    /\ UNCHANGED <<store, grants, pairs, req, drawn, history>>

Next ==
    \/ \E c \in Code : Authorize(c) \/ DeviceAuthorize(c) \/ DeviceVerify(c)
    \/ \E p \in Process :
           \/ \E c \in Code : ConsumeCode(p, c) \/ Poll(p, c)
           \/ \E n \in 1..drawn : ConsumeRefresh(p, n)
           \/ BeginDirect(p) \/ DeleteCode(p) \/ GetToken(p)
           \/ Revoke(p) \/ RevokeExec(p) \/ Generate(p) \/ Save(p) \/ Fail(p)
    \/ \E n \in 1..drawn : Userinfo(n) \/ RevokeRefreshToken(n) \/ RemoveToken(n)
    \/ Tick

Spec == Init /\ [][Next]_vars

------------------------------------------------------------------------------
\* Whatever the requests that race for it, a device code and a refresh token
\* give one pair of tokens at most, and so does an authorization code of the
\* memory store.  (The Redis store reads a code and deletes it in two commands:
\* two requests may both redeem it.)
GrantsRedeemedOnce ==
    \A i, j \in issued :
        i.from = j.from /\ i.from # Direct /\ (store = "redis" => i.from[1] # "code")
            => i.pair = j.pair

\* A family is a chain: of the refresh tokens alive in it, at most one has not
\* been used, whatever was rotated, replayed, revoked or evicted meanwhile.
OneUnusedPerFamily ==
    \A m, n \in DOMAIN refreshTokens :
        /\ refreshTokens[m].family = refreshTokens[n].family
        /\ ~refreshTokens[m].used /\ ~refreshTokens[n].used
        => m = n

\* revokeTokenFamily reaches every access token: its refresh token is there and
\* indexed under its family.  (In Redis a pair saved while its family was being
\* revoked loses its index.)
LiveTokensAreRevocable ==
    \A n \in DOMAIN tokens :
        /\ n \in DOMAIN refreshTokens
        /\ LET f == refreshTokens[n].family IN
           n \in Members(f) \/ (store = "redis" /\ f \in revoked)

\* The usage guide: "若检测到已使用的 refresh token 被再次使用，立即吊销整个
\* Token Family" (docs/usage.md:430).  Once a family is revoked, none of its
\* tokens is alive.
RevokedFamiliesStayDead ==
    \A n \in DOMAIN refreshTokens : refreshTokens[n].family \notin revoked

==============================================================================
