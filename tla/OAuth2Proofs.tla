----------------------------- MODULE OAuth2Proofs -----------------------------
(***************************************************************************)
(* The OAuth2 server over either store, for any number of requests, codes  *)
(* and pairs: its types, that a grant is redeemed once, that a family is a *)
(* chain with one usable refresh token, that whatever is alive can be      *)
(* revoked, and that a revoked family is dead if requests do not overlap.  *)
(***************************************************************************)
EXTENDS OAuth2, TLAPS

GrantsTyped ==
    /\ DOMAIN codes \subseteq Code /\ \A c \in DOMAIN codes : codes[c] \in Nat
    /\ DOMAIN devices \subseteq Code
    /\ \A c \in DOMAIN devices : devices[c] \in [authorized : BOOLEAN, expiresAt : Nat]

PairsTyped ==
    /\ DOMAIN tokens \subseteq Pair /\ \A n \in DOMAIN tokens : tokens[n] \in Nat
    /\ DOMAIN refreshTokens \subseteq Pair
    /\ \A n \in DOMAIN refreshTokens : refreshTokens[n] \in [family : Pair, used : BOOLEAN]
    /\ DOMAIN tokenFamilies \subseteq Pair
    /\ \A f \in DOMAIN tokenFamilies : tokenFamilies[f] \subseteq Pair

CountsTyped ==
    /\ store \in {"memory", "redis"} /\ clock \in Nat
    /\ drawn \in 0..MaxPairs
    /\ issued \subseteq [pair : Pair, from : Grant]
    /\ revoked \subseteq Pair

\* A request has what its next step needs; it has a family if it came with a
\* refresh token.
WellFormed(r) ==
    /\ r.pc = "deleteCode" => r.from \in {"code"} \X Code
    /\ r.pc \in {"getToken", "revoke", "revokeExec"} => r.from \in {"refresh"} \X Pair
    /\ r.from[1] = "refresh" <=> r.family # NoPair
    /\ r.pc = "save" => r.pair # NoPair

RequestsTyped ==
    /\ req \in [Process -> Request]
    /\ \A p \in Process : WellFormed(req[p])

TypeInv == GrantsTyped /\ PairsTyped /\ CountsTyped /\ RequestsTyped

------------------------------------------------------------------------------
\* Facts about the constants and the helpers

LEMMA BoundsAreNaturals ==
    /\ CodeTtl \in Nat /\ AccessTtl \in Nat /\ MaxPairs \in Nat /\ MaxClock \in Nat
BY OAuth2Assumption

LEMMA GrantForms ==
    ASSUME NEW from \in Grant
    PROVE  \/ \E c \in Code : from = <<"code", c>>
           \/ \E c \in Code : from = <<"device", c>>
           \/ \E n \in Pair : from = <<"refresh", n>>
           \/ from = Direct
BY DEF Grant, Direct

LEMMA GrantTypes ==
    /\ \A c \in Code : <<"code", c>> \in Grant /\ <<"device", c>> \in Grant
    /\ \A n \in Pair : <<"refresh", n>> \in Grant
    /\ Direct \in Grant
BY DEF Grant, Direct

LEMMA PairNumbers ==
    ASSUME NEW n \in Pair
    PROVE  n \in Nat /\ n # NoPair /\ n <= MaxPairs
BY BoundsAreNaturals DEF Pair, NoPair

LEMMA NewRequest ==
    ASSUME NEW pc \in PC, NEW from \in Grant
    PROVE  /\ New(pc, from) \in Request
           /\ New(pc, from).pc = pc /\ New(pc, from).from = from
           /\ New(pc, from).family = NoPair
BY DEF New, Request

------------------------------------------------------------------------------
\* Types

LEMMA RequestStep ==
    ASSUME RequestsTyped, NEW p \in Process, NEW r \in Request, WellFormed(r),
           req' = [req EXCEPT ![p] = r]
    PROVE  RequestsTyped'
<1>1. req' \in [Process -> Request]
    BY DEF RequestsTyped
<1>2. ASSUME NEW q \in Process PROVE WellFormed(req'[q])
    BY DEF RequestsTyped
<1> QED
    BY <1>1, <1>2 DEF RequestsTyped, WellFormed

\* A request without a refresh token, at the start of its way or at its end.
LEMMA ServeTypes ==
    ASSUME RequestsTyped, NEW p \in Process, NEW from \in Grant,
           from[1] # "refresh",
           NEW pc \in {"idle", "deleteCode", "generate"},
           pc = "deleteCode" => from \in {"code"} \X Code,
           Serve(p, pc, from)
    PROVE  RequestsTyped'
<1>1. pc \in PC
    BY DEF PC
<1> PICK r : r = New(pc, from)
    OBVIOUS
<1>2. r \in Request /\ r.pc = pc /\ r.from = from /\ r.family = NoPair
    BY <1>1, NewRequest
<1>3. WellFormed(r)
    BY <1>2 DEF WellFormed
<1>4. req' = [req EXCEPT ![p] = r]
    BY DEF Serve
<1> QED
    BY <1>2, <1>3, <1>4, RequestStep

LEMMA FinishTypes ==
    ASSUME RequestsTyped, NEW p \in Process, Finish(p)
    PROVE  RequestsTyped'
<1>1. Serve(p, "idle", Direct)
    BY DEF Finish, Serve
<1>2. Direct \in Grant /\ Direct[1] # "refresh"
    BY GrantTypes DEF Direct
<1> QED
    BY <1>1, <1>2, ServeTypes

LEMMA CheckCodeTypes ==
    ASSUME RequestsTyped, NEW p \in Process, NEW c \in Code, CheckCode(p, c)
    PROVE  RequestsTyped'
<1>1. <<"code", c>> \in Grant /\ <<"code", c>>[1] # "refresh"
    BY GrantTypes
<1>2. CASE Serve(p, "generate", <<"code", c>>)
    BY <1>1, <1>2, ServeTypes
<1>3. CASE Finish(p)
    BY <1>3, FinishTypes
<1> QED
    BY <1>2, <1>3 DEF CheckCode

LEMMA ShrinkTypes ==
    ASSUME PairsTyped, NEW S, NEW R, NEW U,
           tokens' = Without(tokens, S), refreshTokens' = Without(refreshTokens, R),
           \/ tokenFamilies' = Without(tokenFamilies, U)
           \/ tokenFamilies' = Unindexed(tokenFamilies, U)
    PROVE  PairsTyped'
<1>1. DOMAIN tokens' \subseteq Pair /\ \A n \in DOMAIN tokens' : tokens'[n] \in Nat
    BY DEF PairsTyped, Without
<1>2. /\ DOMAIN refreshTokens' \subseteq Pair
      /\ \A n \in DOMAIN refreshTokens' : refreshTokens'[n] \in [family : Pair, used : BOOLEAN]
    BY DEF PairsTyped, Without
<1>3. /\ DOMAIN tokenFamilies' \subseteq Pair
      /\ \A f \in DOMAIN tokenFamilies' : tokenFamilies'[f] \subseteq Pair
    BY DEF PairsTyped, Without, Unindexed
<1> QED
    BY <1>1, <1>2, <1>3 DEF PairsTyped

LEMMA DropFamilyTypes ==
    ASSUME PairsTyped, CountsTyped, NEW f \in Pair, NEW S, DropFamily(f, S),
           UNCHANGED <<store, clock, drawn, issued>>
    PROVE  PairsTyped' /\ CountsTyped'
<1>1. PairsTyped'
    BY ShrinkTypes DEF DropFamily
<1>2. CountsTyped'
    BY DEF DropFamily, CountsTyped
<1> QED
    BY <1>1, <1>2

LEMMA CodesTypes ==
    ASSUME TypeInv, NEW c \in Code,
           Authorize(c) \/ DeviceAuthorize(c) \/ DeviceVerify(c)
    PROVE  TypeInv'
<1>1. clock + CodeTtl \in Nat
    BY BoundsAreNaturals DEF TypeInv, CountsTyped
<1>2. PairsTyped' /\ CountsTyped' /\ RequestsTyped'
    BY DEF TypeInv, PairsTyped, CountsTyped, RequestsTyped, WellFormed,
       Authorize, DeviceAuthorize, DeviceVerify, pairs, history
<1>3. CASE Authorize(c)
    BY <1>1, <1>2, <1>3 DEF TypeInv, GrantsTyped, Authorize, With
<1>4. CASE DeviceAuthorize(c)
    BY <1>1, <1>2, <1>4 DEF TypeInv, GrantsTyped, DeviceAuthorize, With
<1>5. CASE DeviceVerify(c)
    BY <1>2, <1>5 DEF TypeInv, GrantsTyped, DeviceVerify, Without
<1> QED
    BY <1>2, <1>3, <1>4, <1>5 DEF TypeInv

LEMMA BeginTypes ==
    ASSUME TypeInv, NEW p \in Process, BeginDirect(p)
    PROVE  TypeInv'
<1>1. RequestsTyped'
    <2>1. Direct \in Grant /\ Direct[1] # "refresh"
        BY GrantTypes DEF Direct
    <2> QED
        BY <2>1, ServeTypes DEF BeginDirect, TypeInv
<1> QED
    BY <1>1 DEF TypeInv, BeginDirect, GrantsTyped, PairsTyped, CountsTyped, grants, pairs, history

LEMMA ConsumeCodeTypes ==
    ASSUME TypeInv, NEW p \in Process, NEW c \in Code, ConsumeCode(p, c)
    PROVE  TypeInv'
<1>1. GrantsTyped'
    BY DEF TypeInv, GrantsTyped, ConsumeCode, Without
<1>2. PairsTyped' /\ CountsTyped'
    BY DEF TypeInv, ConsumeCode, PairsTyped, CountsTyped, pairs, history
<1>3. RequestsTyped'
    <2>1. CASE UNCHANGED req
        BY <2>1 DEF TypeInv, RequestsTyped, WellFormed
    <2>2. CASE CheckCode(p, c)
        BY <2>2, CheckCodeTypes DEF TypeInv
    <2>3. CASE Serve(p, "deleteCode", <<"code", c>>)
        <3>1. <<"code", c>> \in Grant /\ <<"code", c>>[1] # "refresh"
            BY GrantTypes
        <3> QED
            BY <2>3, <3>1, ServeTypes DEF TypeInv
    <2> QED
        BY <2>1, <2>2, <2>3 DEF ConsumeCode
<1> QED
    BY <1>1, <1>2, <1>3 DEF TypeInv

LEMMA DeleteCodeTypes ==
    ASSUME TypeInv, NEW p \in Process, DeleteCode(p)
    PROVE  TypeInv'
<1>1. GrantsTyped' /\ PairsTyped' /\ CountsTyped'
    BY DEF TypeInv, GrantsTyped, PairsTyped, CountsTyped, DeleteCode, Without, pairs, history
<1>2. req[p].from[2] \in Code /\ CheckCode(p, req[p].from[2])
    BY DEF TypeInv, RequestsTyped, WellFormed, DeleteCode
<1>3. RequestsTyped'
    BY <1>2, CheckCodeTypes DEF TypeInv
<1> QED
    BY <1>1, <1>3 DEF TypeInv

LEMMA PollTypes ==
    ASSUME TypeInv, NEW p \in Process, NEW c \in Code, Poll(p, c)
    PROVE  TypeInv'
<1>1. GrantsTyped' /\ PairsTyped' /\ CountsTyped'
    BY DEF TypeInv, GrantsTyped, PairsTyped, CountsTyped, Poll, Without, pairs, history
<1>2. RequestsTyped'
    <2>1. CASE UNCHANGED req
        BY <2>1 DEF TypeInv, RequestsTyped, WellFormed
    <2>2. CASE Serve(p, "generate", <<"device", c>>)
        <3>1. <<"device", c>> \in Grant /\ <<"device", c>>[1] # "refresh"
            BY GrantTypes
        <3> QED
            BY <2>2, <3>1, ServeTypes DEF TypeInv
    <2> QED
        BY <2>1, <2>2 DEF Poll
<1> QED
    BY <1>1, <1>2 DEF TypeInv

\* The request that a refresh token is marked for, or found used by.
LEMMA RefreshRequest ==
    ASSUME NEW n \in Pair, NEW f \in Pair, NEW pc \in {"generate", "getToken", "revoke"}, NEW r,
           r = [pc |-> pc, from |-> <<"refresh", n>>, family |-> f, pair |-> NoPair, todo |-> {}]
    PROVE  /\ r \in Request /\ WellFormed(r)
           /\ r.pc = pc /\ r.from = <<"refresh", n>> /\ r.family = f
<1> PICK from : from = <<"refresh", n>>
    OBVIOUS
<1>1. pc \in PC /\ from \in Grant
    BY GrantTypes DEF PC
<1>2. r \in Request
    BY <1>1 DEF Request
<1>3. r.pc = pc /\ r.from = from /\ r.family = f
    OBVIOUS
<1>4. from[1] = "refresh" /\ from \in {"refresh"} \X Pair
    OBVIOUS
<1>5. WellFormed(r)
    BY <1>3, <1>4, PairNumbers DEF WellFormed
<1> QED
    BY <1>2, <1>3, <1>5

\* MarkOrDetect, spelled out.
LEMMA MarkOrDetectIs ==
    ASSUME TypeInv, NEW p \in Process, NEW n \in DOMAIN refreshTokens,
           NEW pc \in {"generate", "getToken"}, MarkOrDetect(p, n, pc)
    PROVE  \E r \in Request :
               /\ WellFormed(r) /\ req' = [req EXCEPT ![p] = r]
               /\ r.pc = IF refreshTokens[n].used THEN "revoke" ELSE pc
               /\ r.from = <<"refresh", n>> /\ r.family = refreshTokens[n].family
               /\ r.family \in Pair
<1> PICK to : to = IF refreshTokens[n].used THEN "revoke" ELSE pc
    OBVIOUS
<1> PICK f : f = refreshTokens[n].family
    OBVIOUS
<1> PICK r : r = [pc |-> to, from |-> <<"refresh", n>>, family |-> f, pair |-> NoPair, todo |-> {}]
    OBVIOUS
<1>1. to \in {"generate", "getToken", "revoke"} /\ n \in Pair /\ f \in Pair
    BY DEF TypeInv, PairsTyped
<1>2. /\ r \in Request /\ WellFormed(r)
      /\ r.pc = to /\ r.from = <<"refresh", n>> /\ r.family = f
    BY <1>1, RefreshRequest
<1>3. req' = [req EXCEPT ![p] = r]
    <2>1. r = [New(to, <<"refresh", n>>) EXCEPT !.family = f]
        BY DEF New
    <2>2. req' = [req EXCEPT ![p] = [New(to, <<"refresh", n>>) EXCEPT !.family = f]]
        BY DEF MarkOrDetect
    <2> QED
        BY <2>1, <2>2
<1> QED
    BY <1>1, <1>2, <1>3

LEMMA MarkOrDetectTypes ==
    ASSUME TypeInv, NEW p \in Process, NEW n \in DOMAIN refreshTokens,
           NEW pc \in {"generate", "getToken"}, MarkOrDetect(p, n, pc)
    PROVE  RequestsTyped' /\ PairsTyped'
<1>1. RequestsTyped'
    BY MarkOrDetectIs, RequestStep DEF TypeInv
<1>2. PairsTyped'
    BY DEF TypeInv, PairsTyped, MarkOrDetect
<1> QED
    BY <1>1, <1>2

LEMMA ConsumeRefreshTypes ==
    ASSUME TypeInv, NEW p \in Process, NEW n, ConsumeRefresh(p, n)
    PROVE  TypeInv'
<1>1. GrantsTyped' /\ CountsTyped'
    BY DEF TypeInv, GrantsTyped, CountsTyped, ConsumeRefresh, grants, history
<1>2. n \in DOMAIN refreshTokens
    BY DEF ConsumeRefresh
<1>3. CASE \E pc \in {"generate", "getToken"} : MarkOrDetect(p, n, pc)
    BY <1>1, <1>2, <1>3, MarkOrDetectTypes DEF TypeInv
<1>4. CASE ConsumeRefreshMemory(p, n) /\ ~MarkOrDetect(p, n, "generate")
    <2>1. RequestsTyped'
        BY <1>4 DEF ConsumeRefreshMemory, TypeInv, RequestsTyped, WellFormed
    <2>2. PairsTyped'
        BY <1>4, ShrinkTypes DEF ConsumeRefreshMemory, TypeInv
    <2> QED
        BY <1>1, <2>1, <2>2 DEF TypeInv
<1> QED
    BY <1>3, <1>4 DEF ConsumeRefresh, ConsumeRefreshMemory, ConsumeRefreshRedis

LEMMA GetTokenTypes ==
    ASSUME TypeInv, NEW p \in Process, GetToken(p)
    PROVE  TypeInv'
<1>1. GrantsTyped' /\ PairsTyped' /\ CountsTyped'
    BY DEF TypeInv, GrantsTyped, PairsTyped, CountsTyped, GetToken, grants, pairs, history
<1>2. CASE Finish(p)
    BY <1>1, <1>2, FinishTypes DEF TypeInv
<1>3. CASE Goto(p, "generate")
    <2> PICK r : r = [req[p] EXCEPT !.pc = "generate"]
        OBVIOUS
    <2>1. req[p] \in Request /\ WellFormed(req[p])
        BY DEF TypeInv, RequestsTyped
    <2>2. r \in Request /\ r.pc = "generate" /\ r.from = req[p].from /\ r.family = req[p].family
        BY <2>1 DEF Request, PC
    <2>3. WellFormed(r)
        BY <2>1, <2>2 DEF WellFormed
    <2>4. req' = [req EXCEPT ![p] = r]
        BY <1>3 DEF Goto, TypeInv, RequestsTyped
    <2> QED
        BY <1>1, <2>2, <2>3, <2>4, RequestStep DEF TypeInv
<1> QED
    BY <1>2, <1>3 DEF GetToken

\* Who revokes a family has one.
LEMMA RevokersFamily ==
    ASSUME RequestsTyped, NEW p \in Process, req[p].pc \in {"revoke", "revokeExec"}
    PROVE  req[p].family \in Pair
BY DEF RequestsTyped, WellFormed, Request

LEMMA MembersTypes ==
    ASSUME PairsTyped, NEW f
    PROVE  Members(f) \subseteq Pair
BY DEF PairsTyped, Members

LEMMA RevokeTypes ==
    ASSUME TypeInv, NEW p \in Process, Revoke(p)
    PROVE  TypeInv'
<1>1. GrantsTyped'
    BY DEF TypeInv, GrantsTyped, Revoke, grants
<1>2. req[p].family \in Pair /\ req[p].pc = "revoke"
    BY RevokersFamily DEF TypeInv, Revoke
<1>3. CASE DropFamily(req[p].family, Members(req[p].family)) /\ Finish(p)
    <2>1. PairsTyped' /\ CountsTyped'
        BY <1>2, <1>3, DropFamilyTypes DEF TypeInv, Revoke
    <2> QED
        BY <1>1, <1>3, <2>1, FinishTypes DEF TypeInv
<1>4. CASE /\ req' = [req EXCEPT ![p].todo = Members(req[p].family), ![p].pc = "revokeExec"]
           /\ UNCHANGED <<pairs, revoked>>
    <2>1. PairsTyped' /\ CountsTyped'
        BY <1>4 DEF TypeInv, PairsTyped, CountsTyped, Revoke, pairs
    <2> PICK r : r = [req[p] EXCEPT !.todo = Members(req[p].family), !.pc = "revokeExec"]
        OBVIOUS
    <2>2. req[p] \in Request /\ WellFormed(req[p])
        BY DEF TypeInv, RequestsTyped
    <2>3. r \in Request /\ r.pc = "revokeExec" /\ r.from = req[p].from /\ r.family = req[p].family
        BY <2>2, MembersTypes DEF TypeInv, Request, PC
    <2>4. WellFormed(r)
        BY <1>2, <2>2, <2>3 DEF WellFormed
    <2>5. req' = [req EXCEPT ![p] = r]
        BY <1>4 DEF TypeInv, RequestsTyped
    <2> QED
        BY <1>1, <2>1, <2>3, <2>4, <2>5, RequestStep DEF TypeInv
<1> QED
    BY <1>3, <1>4 DEF Revoke

LEMMA RevokeExecTypes ==
    ASSUME TypeInv, NEW p \in Process, RevokeExec(p)
    PROVE  TypeInv'
<1>1. GrantsTyped'
    BY DEF TypeInv, GrantsTyped, RevokeExec, grants
<1>2. req[p].family \in Pair
    BY RevokersFamily DEF TypeInv, RevokeExec
<1>3. PairsTyped' /\ CountsTyped'
    BY <1>2, DropFamilyTypes DEF TypeInv, RevokeExec
<1> QED
    BY <1>1, <1>3, FinishTypes DEF TypeInv, RevokeExec

LEMMA GenerateIs ==
    ASSUME TypeInv, NEW p \in Process, Generate(p)
    PROVE  /\ drawn + 1 \in Pair
           /\ \E r \in Request :
                  /\ WellFormed(r) /\ req' = [req EXCEPT ![p] = r]
                  /\ r.pc = "save" /\ r.from = req[p].from /\ r.family = req[p].family
                  /\ r.pair = drawn + 1
<1>1. drawn + 1 \in Pair
    BY BoundsAreNaturals DEF TypeInv, CountsTyped, Generate, Pair
<1> PICK r : r = [req[p] EXCEPT !.pair = drawn + 1, !.pc = "save"]
    OBVIOUS
<1>2. req[p] \in Request /\ WellFormed(req[p])
    BY DEF TypeInv, RequestsTyped
<1>3. /\ r \in Request /\ r.pc = "save" /\ r.from = req[p].from
      /\ r.family = req[p].family /\ r.pair = drawn + 1
    BY <1>1, <1>2 DEF Request, PC
<1>4. WellFormed(r)
    BY <1>1, <1>2, <1>3, PairNumbers DEF WellFormed
<1>5. req' = [req EXCEPT ![p] = r]
    BY DEF Generate, TypeInv, RequestsTyped
<1> QED
    BY <1>1, <1>3, <1>4, <1>5

LEMMA GenerateTypes ==
    ASSUME TypeInv, NEW p \in Process, Generate(p)
    PROVE  TypeInv'
<1>1. GrantsTyped' /\ PairsTyped'
    BY DEF TypeInv, GrantsTyped, PairsTyped, Generate, grants, pairs
<1>2. CountsTyped'
    BY BoundsAreNaturals DEF TypeInv, CountsTyped, Generate, history
<1>3. RequestsTyped'
    BY GenerateIs, RequestStep DEF TypeInv
<1> QED
    BY <1>1, <1>2, <1>3 DEF TypeInv

\* The pair that is saved, and the family it is saved under.
LEMMA SavedPairTypes ==
    ASSUME TypeInv, NEW p \in Process, req[p].pc = "save"
    PROVE  /\ req[p].pair \in Pair /\ req[p].from \in Grant
           /\ req[p].family \in Pair \cup {NoPair}
BY DEF TypeInv, RequestsTyped, WellFormed, Request

LEMMA SaveTypes ==
    ASSUME TypeInv, NEW p \in Process, Save(p)
    PROVE  TypeInv'
<1> PICK n : n = req[p].pair
    OBVIOUS
<1> PICK f : f = IF req[p].family = NoPair THEN n ELSE req[p].family
    OBVIOUS
<1>1. n \in Pair /\ f \in Pair /\ req[p].from \in Grant
    BY SavedPairTypes DEF Save
<1>2. clock + AccessTtl \in Nat
    BY BoundsAreNaturals DEF TypeInv, CountsTyped
<1>3. DOMAIN tokens' \subseteq Pair /\ \A m \in DOMAIN tokens' : tokens'[m] \in Nat
    BY <1>1, <1>2 DEF Save, TypeInv, PairsTyped, With, Without
<1>4. /\ DOMAIN refreshTokens' \subseteq Pair
      /\ \A m \in DOMAIN refreshTokens' : refreshTokens'[m] \in [family : Pair, used : BOOLEAN]
    BY <1>1 DEF Save, TypeInv, PairsTyped, With, Without
<1>5. /\ DOMAIN tokenFamilies' \subseteq Pair
      /\ \A g \in DOMAIN tokenFamilies' : tokenFamilies'[g] \subseteq Pair
    <2>1. tokenFamilies' = Unindexed(With(tokenFamilies, f, Members(f) \cup {n}), Evictable)
        BY DEF Save
    <2>2. Members(f) \subseteq Pair
        BY MembersTypes DEF TypeInv
    <2> QED
        BY <1>1, <2>1, <2>2 DEF TypeInv, PairsTyped, With, Unindexed
<1>6. CountsTyped'
    BY <1>1 DEF Save, TypeInv, CountsTyped
<1>7. GrantsTyped'
    BY DEF Save, TypeInv, GrantsTyped, grants
<1>8. RequestsTyped'
    BY FinishTypes DEF Save, TypeInv
<1> QED
    BY <1>3, <1>4, <1>5, <1>6, <1>7, <1>8 DEF TypeInv, PairsTyped

LEMMA FailTypes ==
    ASSUME TypeInv, NEW p \in Process, Fail(p)
    PROVE  TypeInv'
BY FinishTypes DEF TypeInv, Fail, GrantsTyped, PairsTyped, CountsTyped, grants, pairs, history

LEMMA RemovalTypes ==
    ASSUME TypeInv, NEW n, Userinfo(n) \/ RevokeRefreshToken(n) \/ RemoveToken(n)
    PROVE  TypeInv'
<1>1. GrantsTyped' /\ CountsTyped' /\ RequestsTyped'
    BY DEF TypeInv, GrantsTyped, CountsTyped, RequestsTyped, WellFormed,
       Userinfo, RevokeRefreshToken, RemoveToken, grants, history
<1>2. CASE Userinfo(n)
    BY <1>1, <1>2 DEF TypeInv, PairsTyped, Userinfo, Without
<1>3. CASE RevokeRefreshToken(n) \/ RemoveToken(n)
    BY <1>1, <1>3, ShrinkTypes DEF TypeInv, RevokeRefreshToken, RemoveToken
<1> QED
    BY <1>2, <1>3

LEMMA TickTypes ==
    ASSUME TypeInv, Tick
    PROVE  TypeInv'
BY BoundsAreNaturals DEF TypeInv, Tick, GrantsTyped, PairsTyped, CountsTyped, RequestsTyped, WellFormed,
   grants, pairs, history

LEMMA TypeInit == Init => TypeInv
<1> SUFFICES ASSUME Init PROVE TypeInv
    OBVIOUS
<1>1. GrantsTyped /\ PairsTyped /\ CountsTyped
    BY BoundsAreNaturals DEF Init, GrantsTyped, PairsTyped, CountsTyped
<1>2. "idle" \in PC /\ Direct \in Grant
    BY GrantTypes DEF PC
<1> PICK r : r = New("idle", Direct)
    OBVIOUS
<1>3. r \in Request /\ r.pc = "idle" /\ r.from = Direct /\ r.family = NoPair
    BY <1>2, NewRequest
<1>4. WellFormed(r)
    BY <1>3 DEF WellFormed, Direct
<1>5. req = [p \in Process |-> r]
    BY DEF Init
<1>6. RequestsTyped
    BY <1>3, <1>4, <1>5 DEF RequestsTyped
<1> QED
    BY <1>1, <1>6 DEF TypeInv

LEMMA TypeNext == TypeInv /\ [Next]_vars => TypeInv'
<1> SUFFICES ASSUME TypeInv, [Next]_vars PROVE TypeInv'
    OBVIOUS
<1>1. ASSUME NEW c \in Code, Authorize(c) \/ DeviceAuthorize(c) \/ DeviceVerify(c) PROVE TypeInv'
    BY <1>1, CodesTypes
<1>2. ASSUME NEW p \in Process, NEW c \in Code, ConsumeCode(p, c) \/ Poll(p, c) PROVE TypeInv'
    BY <1>2, ConsumeCodeTypes, PollTypes
<1>3. ASSUME NEW p \in Process, NEW n, ConsumeRefresh(p, n) PROVE TypeInv'
    BY <1>3, ConsumeRefreshTypes
<1>4. ASSUME NEW p \in Process, BeginDirect(p) \/ DeleteCode(p) \/ GetToken(p) PROVE TypeInv'
    BY <1>4, BeginTypes, DeleteCodeTypes, GetTokenTypes
<1>5. ASSUME NEW p \in Process, Revoke(p) \/ RevokeExec(p) PROVE TypeInv'
    BY <1>5, RevokeTypes, RevokeExecTypes
<1>6. ASSUME NEW p \in Process, Generate(p) \/ Save(p) \/ Fail(p) PROVE TypeInv'
    BY <1>6, GenerateTypes, SaveTypes, FailTypes
<1>7. ASSUME NEW n, Userinfo(n) \/ RevokeRefreshToken(n) \/ RemoveToken(n) PROVE TypeInv'
    BY <1>7, RemovalTypes
<1>8. CASE Tick
    BY <1>8, TickTypes
<1>9. CASE UNCHANGED vars
    BY <1>9 DEF vars, grants, pairs, history, TypeInv, GrantsTyped, PairsTyped, CountsTyped,
       RequestsTyped, WellFormed
<1> QED
    BY <1>1, <1>2, <1>3, <1>4, <1>5, <1>6, <1>7, <1>8, <1>9 DEF Next

LEMMA TypeInvariance == Spec => []TypeInv
BY TypeInit, TypeNext, PTL DEF Spec

\* Everything the controller and the stores keep has its type, for any requests,
\* codes and bounds; above all, whoever revokes a family has one to revoke.
THEOREM TypeCorrect == Spec => []TypeOK
<1>1. TypeInv => TypeOK
    BY DEF TypeInv, TypeOK, GrantsTyped, PairsTyped, CountsTyped, RequestsTyped
<1> QED
    BY <1>1, TypeInvariance, PTL

------------------------------------------------------------------------------
\* LiveTokensAreRevocable

\* What LiveTokensAreRevocable says of a pair, with Members spelled out.
Revocable(n) ==
    /\ n \in DOMAIN refreshTokens
    /\ \/ /\ refreshTokens[n].family \in DOMAIN tokenFamilies
          /\ n \in tokenFamilies[refreshTokens[n].family]
       \/ store = "redis" /\ refreshTokens[n].family \in revoked

LEMMA RevocablePairs ==
    LiveTokensAreRevocable <=> \A n \in DOMAIN tokens : Revocable(n)
BY DEF LiveTokensAreRevocable, Revocable, Members

\* Pairs that leave refreshTokens or the index leave tokens as well.
LEMMA RevocableShrink ==
    ASSUME LiveTokensAreRevocable, NEW S, NEW R, NEW U,
           tokens' = Without(tokens, S), refreshTokens' = Without(refreshTokens, R),
           tokenFamilies' = Unindexed(tokenFamilies, U),
           R \cap DOMAIN tokens \subseteq S, U \cap DOMAIN tokens \subseteq S,
           UNCHANGED <<store, revoked>>
    PROVE  LiveTokensAreRevocable'
<1> SUFFICES ASSUME NEW n \in DOMAIN tokens' PROVE Revocable(n)'
    BY RevocablePairs DEF LiveTokensAreRevocable, Revocable, Members
<1>1. n \in DOMAIN tokens \ S /\ n \notin R /\ n \notin U
    BY DEF Without
<1>2. Revocable(n)
    BY <1>1, RevocablePairs
<1>3. n \in DOMAIN refreshTokens' /\ refreshTokens'[n] = refreshTokens[n]
    BY <1>1, <1>2 DEF Revocable, Without
<1>4. ASSUME NEW f \in DOMAIN tokenFamilies, n \in tokenFamilies[f]
      PROVE  f \in DOMAIN tokenFamilies' /\ n \in tokenFamilies'[f]
    BY <1>1, <1>4 DEF Unindexed
<1> QED
    BY <1>2, <1>3, <1>4 DEF Revocable

\* Only the Redis store reads a code before it deletes it, and the members of a
\* family before it drops them.
RedisPC == {"deleteCode", "revokeExec"}
RedisStepsAreRedis == \A p \in Process : req[p].pc \in RedisPC => store = "redis"

LEMMA RedisServe ==
    ASSUME TypeInv, RedisStepsAreRedis, NEW p \in Process, NEW r,
           req' = [req EXCEPT ![p] = r], UNCHANGED store,
           r.pc \in RedisPC => store = "redis"
    PROVE  RedisStepsAreRedis'
BY DEF TypeInv, RequestsTyped, RedisStepsAreRedis

LEMMA RedisFinish ==
    ASSUME TypeInv, RedisStepsAreRedis, NEW p \in Process, UNCHANGED store,
           \/ Finish(p)
           \/ \E pc \in PC \ RedisPC, from \in Grant : Serve(p, pc, from)
           \/ \E pc \in PC \ RedisPC : Goto(p, pc)
    PROVE  RedisStepsAreRedis'
BY DEF TypeInv, RequestsTyped, RedisStepsAreRedis, RedisPC, Finish, Serve, Goto, New, Request

LEMMA RedisStep == TypeInv /\ RedisStepsAreRedis /\ [Next]_vars => RedisStepsAreRedis'
<1> SUFFICES ASSUME TypeInv, RedisStepsAreRedis, [Next]_vars PROVE RedisStepsAreRedis'
    OBVIOUS
<1>1. CASE UNCHANGED <<store, req>>
    BY <1>1 DEF RedisStepsAreRedis
<1>2. /\ "generate" \in PC \ RedisPC
      /\ Direct \in Grant
      /\ \A c \in Code : <<"code", c>> \in Grant /\ <<"device", c>> \in Grant
    BY GrantTypes DEF PC, RedisPC
<1>3. ASSUME NEW p \in Process, NEW c \in Code, ConsumeCode(p, c) \/ Poll(p, c)
      PROVE  RedisStepsAreRedis'
    <2>1. UNCHANGED store
        BY <1>3 DEF ConsumeCode, Poll
    <2>2. \/ UNCHANGED req
          \/ Finish(p)
          \/ store = "redis"
          \/ \E pc \in PC \ RedisPC, from \in Grant : Serve(p, pc, from)
        BY <1>2, <1>3 DEF ConsumeCode, CheckCode, Poll
    <2>3. CASE store = "redis"
        BY <2>1, <2>3 DEF RedisStepsAreRedis
    <2> QED
        BY <1>1, <2>1, <2>2, <2>3, RedisFinish
<1>4. ASSUME NEW p \in Process, BeginDirect(p) \/ DeleteCode(p) \/ GetToken(p) \/ Fail(p)
      PROVE  RedisStepsAreRedis'
    <2>1. UNCHANGED store
        BY <1>4 DEF BeginDirect, DeleteCode, GetToken, Fail
    <2>2. DeleteCode(p) => req[p].from[2] \in Code
        BY DEF TypeInv, RequestsTyped, WellFormed, DeleteCode
    <2>3. \/ Finish(p)
          \/ \E pc \in PC \ RedisPC, from \in Grant : Serve(p, pc, from)
          \/ \E pc \in PC \ RedisPC : Goto(p, pc)
        BY <1>2, <1>4, <2>2 DEF BeginDirect, DeleteCode, CheckCode, GetToken, Fail
    <2> QED
        BY <2>1, <2>3, RedisFinish
<1>5. ASSUME NEW p \in Process, NEW n, ConsumeRefresh(p, n) PROVE RedisStepsAreRedis'
    <2>1. UNCHANGED store /\ n \in DOMAIN refreshTokens
        BY <1>5 DEF ConsumeRefresh
    <2>2. CASE UNCHANGED req
        BY <1>1, <2>1, <2>2
    <2>3. ASSUME NEW pc \in {"generate", "getToken"}, MarkOrDetect(p, n, pc)
          PROVE  RedisStepsAreRedis'
        <3>1. PICK r \in Request : /\ req' = [req EXCEPT ![p] = r]
                                   /\ r.pc = IF refreshTokens[n].used THEN "revoke" ELSE pc
            BY <2>1, <2>3, MarkOrDetectIs
        <3> QED
            BY <2>1, <3>1, RedisServe DEF RedisPC
    <2> QED
        BY <1>5, <2>2, <2>3 DEF ConsumeRefresh, ConsumeRefreshMemory, ConsumeRefreshRedis
<1>6. ASSUME NEW p \in Process, Revoke(p) PROVE RedisStepsAreRedis'
    <2>1. CASE Finish(p)
        BY <1>6, <2>1, RedisFinish DEF Revoke
    <2>2. CASE store = "redis" /\ UNCHANGED store
        BY <2>2 DEF RedisStepsAreRedis
    <2> QED
        BY <1>6, <2>1, <2>2 DEF Revoke
<1>7. ASSUME NEW p \in Process, RevokeExec(p) \/ Save(p) PROVE RedisStepsAreRedis'
    BY <1>7, RedisFinish DEF RevokeExec, Save
<1>8. ASSUME NEW p \in Process, Generate(p) PROVE RedisStepsAreRedis'
    BY <1>8, GenerateIs, RedisServe DEF Generate, RedisPC
<1>9. ASSUME NEW c \in Code, Authorize(c) \/ DeviceAuthorize(c) \/ DeviceVerify(c)
      PROVE  RedisStepsAreRedis'
    BY <1>1, <1>9 DEF Authorize, DeviceAuthorize, DeviceVerify
<1>10. ASSUME NEW n, Userinfo(n) \/ RevokeRefreshToken(n) \/ RemoveToken(n)
       PROVE  RedisStepsAreRedis'
    BY <1>1, <1>10 DEF Userinfo, RevokeRefreshToken, RemoveToken
<1>11. CASE Tick \/ UNCHANGED vars
    BY <1>1, <1>11 DEF Tick, vars
<1> QED
    BY <1>3, <1>4, <1>5, <1>6, <1>7, <1>8, <1>9, <1>10, <1>11 DEF Next

\* A family that is dropped takes its members along, or is noted as revoked.
LEMMA RevocableDrop ==
    ASSUME TypeInv, LiveTokensAreRevocable, NEW f, NEW S, DropFamily(f, S), UNCHANGED store,
           store = "memory" => S = Members(f)
    PROVE  LiveTokensAreRevocable'
<1> SUFFICES ASSUME NEW n \in DOMAIN tokens' PROVE Revocable(n)'
    BY RevocablePairs DEF LiveTokensAreRevocable, Revocable, Members
<1>1. n \in DOMAIN tokens /\ n \notin S \cap DOMAIN refreshTokens
    BY DEF DropFamily, Without
<1>2. Revocable(n)
    BY <1>1, RevocablePairs
<1>3. /\ n \notin S /\ n \in DOMAIN refreshTokens'
      /\ refreshTokens'[n] = refreshTokens[n]
    BY <1>1, <1>2 DEF Revocable, DropFamily, Without
<1>4. CASE refreshTokens[n].family # f
    BY <1>2, <1>3, <1>4 DEF Revocable, DropFamily, Without
<1>5. CASE refreshTokens[n].family = f /\ f \in revoked /\ store = "redis"
    BY <1>3, <1>5 DEF Revocable, DropFamily
<1>6. CASE /\ refreshTokens[n].family = f
           /\ f \in DOMAIN tokenFamilies /\ n \in tokenFamilies[f]
    <2>1. store # "memory"
        BY <1>3, <1>6 DEF Members
    <2>2. CASE store = "redis"
        BY <1>3, <1>6, <2>2 DEF Revocable, DropFamily
    <2> QED
        BY <1>2, <2>1, <2>2 DEF TypeInv, CountsTyped
<1> QED
    BY <1>2, <1>4, <1>5, <1>6 DEF Revocable

LEMMA RevocableSave ==
    ASSUME LiveTokensAreRevocable, NEW p \in Process, Save(p)
    PROVE  LiveTokensAreRevocable'
<1> PICK n : n = req[p].pair
    OBVIOUS
<1> PICK f : f = IF req[p].family = NoPair THEN n ELSE req[p].family
    OBVIOUS
<1> PICK gone : gone = Evictable
    OBVIOUS
<1>1. /\ tokens' = Without(With(tokens, n, clock + AccessTtl), gone)
      /\ refreshTokens' = Without(With(refreshTokens, n, [family |-> f, used |-> FALSE]), gone)
      /\ tokenFamilies' = Unindexed(With(tokenFamilies, f, Members(f) \cup {n}), gone)
      /\ UNCHANGED <<store, revoked>>
    BY DEF Save
<1> SUFFICES ASSUME NEW m \in DOMAIN tokens' PROVE Revocable(m)'
    BY RevocablePairs DEF LiveTokensAreRevocable, Revocable, Members
<1>2. m \in DOMAIN tokens \cup {n} /\ m \notin gone
    BY <1>1 DEF With, Without
<1>3. CASE m = n
    <2>1. n \in DOMAIN refreshTokens' /\ refreshTokens'[n].family = f
        BY <1>1, <1>2, <1>3 DEF With, Without
    <2>2. f \in DOMAIN tokenFamilies' /\ n \in tokenFamilies'[f]
        BY <1>1, <1>2, <1>3 DEF With, Unindexed
    <2> QED
        BY <1>3, <2>1, <2>2 DEF Revocable
<1>4. CASE m # n
    <2>1. Revocable(m)
        BY <1>2, <1>4, RevocablePairs
    <2>2. m \in DOMAIN refreshTokens' /\ refreshTokens'[m] = refreshTokens[m]
        BY <1>1, <1>2, <1>4, <2>1 DEF Revocable, With, Without
    <2>3. ASSUME NEW g \in DOMAIN tokenFamilies, m \in tokenFamilies[g]
          PROVE  g \in DOMAIN tokenFamilies' /\ m \in tokenFamilies'[g]
        <3> PICK index : index = With(tokenFamilies, f, Members(f) \cup {n})
            OBVIOUS
        <3>1. g \in DOMAIN index /\ m \in index[g]
            BY <2>3 DEF With, Members
        <3>2. tokenFamilies' = Unindexed(index, gone)
            BY <1>1
        <3> QED
            BY <1>2, <3>1, <3>2 DEF Unindexed
    <2> QED
        BY <1>1, <2>1, <2>2, <2>3 DEF Revocable
<1> QED
    BY <1>2, <1>3, <1>4

\* The index under another family's name may gain or lose nothing else: all the
\* other steps leave the three maps alone, or only mark a refresh token.
LEMMA RevocableElse ==
    ASSUME LiveTokensAreRevocable, UNCHANGED <<store, tokenFamilies, revoked>>,
           DOMAIN tokens' \subseteq DOMAIN tokens,
           DOMAIN refreshTokens' = DOMAIN refreshTokens,
           \A n \in DOMAIN refreshTokens : refreshTokens'[n].family = refreshTokens[n].family
    PROVE  LiveTokensAreRevocable'
BY DEF LiveTokensAreRevocable, Members

LEMMA RevocableStep ==
    TypeInv /\ RedisStepsAreRedis /\ LiveTokensAreRevocable /\ [Next]_vars => LiveTokensAreRevocable'
<1> SUFFICES ASSUME TypeInv, RedisStepsAreRedis, LiveTokensAreRevocable, [Next]_vars
             PROVE  LiveTokensAreRevocable'
    OBVIOUS
<1>1. CASE UNCHANGED <<store, pairs, revoked>>
    BY <1>1 DEF pairs, LiveTokensAreRevocable, Members
<1>2. ASSUME NEW p \in Process, NEW n, ConsumeRefresh(p, n) PROVE LiveTokensAreRevocable'
    <2>1. UNCHANGED <<store, revoked>> /\ n \in DOMAIN refreshTokens
        BY <1>2 DEF ConsumeRefresh, history
    <2>2. CASE \E pc \in {"generate", "getToken"} : MarkOrDetect(p, n, pc)
        <3>1. /\ DOMAIN refreshTokens' = DOMAIN refreshTokens /\ UNCHANGED <<tokens, tokenFamilies>>
              /\ \A m \in DOMAIN refreshTokens : refreshTokens'[m].family = refreshTokens[m].family
            BY <2>1, <2>2 DEF MarkOrDetect, TypeInv, PairsTyped
        <3> QED
            BY <2>1, <3>1, RevocableElse
    <2>3. CASE ConsumeRefreshMemory(p, n) /\ ~MarkOrDetect(p, n, "generate")
        <3>1. /\ tokens' = Without(tokens, {n}) /\ refreshTokens' = Without(refreshTokens, {n})
              /\ tokenFamilies' = Unindexed(tokenFamilies, {n})
            BY <2>3 DEF ConsumeRefreshMemory
        <3> QED
            BY <2>1, <3>1, RevocableShrink
    <2> QED
        BY <1>2, <2>2, <2>3 DEF ConsumeRefresh, ConsumeRefreshMemory, ConsumeRefreshRedis
<1>3. ASSUME NEW p \in Process, Revoke(p) PROVE LiveTokensAreRevocable'
    <2>1. CASE DropFamily(req[p].family, Members(req[p].family))
        BY <1>3, <2>1, RevocableDrop DEF Revoke
    <2>2. CASE UNCHANGED <<pairs, revoked>>
        BY <1>1, <1>3, <2>2 DEF Revoke
    <2> QED
        BY <1>3, <2>1, <2>2 DEF Revoke
<1>4. ASSUME NEW p \in Process, RevokeExec(p) PROVE LiveTokensAreRevocable'
    BY <1>4, RevocableDrop DEF RevokeExec, RedisStepsAreRedis, RedisPC
<1>5. ASSUME NEW p \in Process, Save(p) PROVE LiveTokensAreRevocable'
    BY <1>5, RevocableSave
<1>6. ASSUME NEW n, Userinfo(n) PROVE LiveTokensAreRevocable'
    <2>1. /\ UNCHANGED <<store, refreshTokens, tokenFamilies, revoked>>
          /\ DOMAIN tokens' \subseteq DOMAIN tokens
        BY <1>6 DEF Userinfo, Without, history
    <2> QED
        BY <2>1, RevocableElse
<1>7. ASSUME NEW n, RevokeRefreshToken(n) PROVE LiveTokensAreRevocable'
    BY <1>7, RevocableShrink DEF RevokeRefreshToken, history
<1>8. ASSUME NEW n, RemoveToken(n) PROVE LiveTokensAreRevocable'
    BY <1>8, RevocableShrink DEF RemoveToken, history
<1>9. ASSUME NEW c \in Code, Authorize(c) \/ DeviceAuthorize(c) \/ DeviceVerify(c)
      PROVE  LiveTokensAreRevocable'
    BY <1>1, <1>9 DEF Authorize, DeviceAuthorize, DeviceVerify, history
<1>10. ASSUME NEW p \in Process, NEW c \in Code, ConsumeCode(p, c) \/ Poll(p, c)
       PROVE  LiveTokensAreRevocable'
    BY <1>1, <1>10 DEF ConsumeCode, Poll, history
<1>11. ASSUME NEW p \in Process,
              BeginDirect(p) \/ DeleteCode(p) \/ GetToken(p) \/ Generate(p) \/ Fail(p)
       PROVE  LiveTokensAreRevocable'
    BY <1>1, <1>11 DEF BeginDirect, DeleteCode, GetToken, Generate, Fail, history
<1>12. CASE Tick \/ UNCHANGED vars
    BY <1>1, <1>12 DEF Tick, vars, history
<1> QED
    BY <1>2, <1>3, <1>4, <1>5, <1>6, <1>7, <1>8, <1>9, <1>10, <1>11, <1>12 DEF Next

\* Whatever access token is alive, revoking its family, or having revoked it,
\* reaches it, in any order of saves, refreshes, revocations and evictions.
THEOREM LiveTokensCanBeRevoked == Spec => []LiveTokensAreRevocable
<1>1. Init => LiveTokensAreRevocable /\ RedisStepsAreRedis
    BY DEF Init, LiveTokensAreRevocable, RedisStepsAreRedis, RedisPC, New
<1> QED
    BY <1>1, RevocableStep, RedisStep, TypeInvariance, PTL DEF Spec

------------------------------------------------------------------------------
\* GrantsRedeemedOnce and OneUnusedPerFamily

\* A request with a grant in its hands, between the step that took the grant and
\* the step that saves the pair; it rotates if the grant is a refresh token.
Redeems(r) == r.pc \in {"getToken", "generate", "save"}
Rotates(r) == Redeems(r) /\ r.family # NoPair

Saved == {i.pair : i \in issued}

PairsAreDrawn == \A i \in issued : i.pair \in 1..drawn

\* A pair about to be saved is in no map yet, and nobody else will save it.
SavesAreNew ==
    /\ \A p \in Process : req[p].pc = "save" => req[p].pair \in 1..drawn \ Saved
    /\ \A p, q \in Process :
           p # q /\ req[p].pc = "save" /\ req[q].pc = "save" => req[p].pair # req[q].pair

\* Only saved pairs are refreshed and name families.
RefreshedWereSaved ==
    /\ \A n \in DOMAIN refreshTokens : n \in Saved /\ refreshTokens[n].family \in Saved
    /\ \A p \in Process :
           Rotates(req[p]) => req[p].from[2] \in Saved /\ req[p].family \in Saved
    /\ \A i \in issued : i.from[1] = "refresh" => i.from[2] \in Saved

\* Nobody can take the grant g from its map now.
Spent(g) ==
    /\ g[1] = "code" => g[2] \notin DOMAIN codes
    /\ g[1] = "device" => g[2] \notin DOMAIN devices
    /\ g[1] = "refresh" /\ g[2] \in DOMAIN refreshTokens => refreshTokens[g[2]].used

OnceOnly(g) == g # Direct /\ (store = "redis" => g[1] # "code")

TakenIsSpent ==
    /\ \A p \in Process : Redeems(req[p]) /\ OnceOnly(req[p].from) => Spent(req[p].from)
    /\ \A i \in issued : OnceOnly(i.from) => Spent(i.from)

TakenByOne ==
    /\ \A p, q \in Process :
           p # q /\ Redeems(req[p]) /\ Redeems(req[q]) /\ req[p].from = req[q].from
               => ~OnceOnly(req[p].from)
    /\ \A p \in Process : \A i \in issued :
           Redeems(req[p]) /\ i.from = req[p].from => ~OnceOnly(i.from)
    /\ \A i, j \in issued : i.from = j.from /\ OnceOnly(i.from) => i.pair = j.pair

\* The one who may continue a family is an unused token or a request that took
\* it, and there is one of these at most.
FamiliesAreChains ==
    /\ OneUnusedPerFamily
    /\ \A p, q \in Process :
           p # q /\ Rotates(req[p]) /\ Rotates(req[q]) => req[p].family # req[q].family
    /\ \A p \in Process : \A n \in DOMAIN refreshTokens :
           Rotates(req[p]) /\ ~refreshTokens[n].used => refreshTokens[n].family # req[p].family

PairInv == PairsAreDrawn /\ SavesAreNew /\ RefreshedWereSaved
GrantInv == PairInv /\ TakenIsSpent /\ TakenByOne /\ FamiliesAreChains

\* The maps only lose entries, or see a refresh token marked.
MapsShrink ==
    /\ UNCHANGED <<store, issued>>
    /\ DOMAIN codes' \subseteq DOMAIN codes /\ DOMAIN devices' \subseteq DOMAIN devices
    /\ DOMAIN refreshTokens' \subseteq DOMAIN refreshTokens
    /\ \A n \in DOMAIN refreshTokens' :
           /\ refreshTokens'[n].family = refreshTokens[n].family
           /\ refreshTokens[n].used => refreshTokens'[n].used

\* The request of q goes on with the grant it has, or ends, or had none.
KeepsGrant(q) ==
    Redeems(req'[q]) =>
        Redeems(req[q]) /\ req'[q].from = req[q].from /\ req'[q].family = req[q].family

KeepsPair(q) == req'[q].pc = "save" => req[q].pc = "save" /\ req'[q].pair = req[q].pair

GoesOn(q) == KeepsGrant(q) /\ KeepsPair(q)

LEMMA SpentStays ==
    ASSUME MapsShrink, NEW g
    PROVE  (Spent(g) => Spent(g)') /\ (OnceOnly(g)' <=> OnceOnly(g))
BY DEF MapsShrink, Spent, OnceOnly

LEMMA KeptGrants ==
    ASSUME GrantInv, MapsShrink, \A q \in Process : KeepsGrant(q)
    PROVE  RefreshedWereSaved' /\ TakenIsSpent' /\ TakenByOne' /\ FamiliesAreChains'
<1>1. UNCHANGED <<store, issued>> /\ Saved' = Saved
    BY DEF MapsShrink, Saved
<1>2. RefreshedWereSaved'
    BY <1>1 DEF GrantInv, PairInv, RefreshedWereSaved, MapsShrink, KeepsGrant, Rotates
<1>3. TakenIsSpent'
    <2>1. ASSUME NEW p \in Process, Redeems(req'[p]), OnceOnly(req[p].from)'
          PROVE  Spent(req[p].from)'
        <3> PICK g : g = req'[p].from
            OBVIOUS
        <3>1. Redeems(req[p]) /\ req[p].from = g
            BY <2>1 DEF KeepsGrant
        <3>2. OnceOnly(g)
            BY <2>1 DEF OnceOnly, MapsShrink
        <3>3. Spent(g)
            BY <3>1, <3>2 DEF GrantInv, TakenIsSpent
        <3>4. Spent(g)'
            BY <3>3, SpentStays
        <3> QED
            BY <3>4 DEF Spent
    <2>2. ASSUME NEW i \in issued, OnceOnly(i.from)'
          PROVE  Spent(i.from)'
        <3>1. OnceOnly(i.from)
            BY <2>2, SpentStays
        <3>2. Spent(i.from)
            BY <3>1 DEF GrantInv, TakenIsSpent
        <3> QED
            BY <3>2, SpentStays
    <2> QED
        BY <1>1, <2>1, <2>2 DEF TakenIsSpent, Redeems
<1>4. TakenByOne'
    BY <1>1, SpentStays DEF GrantInv, TakenByOne, KeepsGrant, OnceOnly, Redeems
<1>5. FamiliesAreChains'
    BY DEF GrantInv, FamiliesAreChains, OneUnusedPerFamily, MapsShrink, KeepsGrant, Rotates
<1> QED
    BY <1>2, <1>3, <1>4, <1>5

LEMMA QuietStep ==
    ASSUME GrantInv, MapsShrink, UNCHANGED drawn, \A q \in Process : GoesOn(q)
    PROVE  GrantInv'
<1>1. PairsAreDrawn'
    BY DEF GrantInv, PairInv, PairsAreDrawn, MapsShrink
<1>2. SavesAreNew'
    BY DEF GrantInv, PairInv, SavesAreNew, GoesOn, KeepsPair, MapsShrink, Saved
<1> QED
    BY <1>1, <1>2, KeptGrants DEF GrantInv, PairInv, GoesOn

\* One request takes a grant that could still be taken and now no longer can.
LEMMA TakingStep ==
    ASSUME TypeInv, GrantInv, MapsShrink, UNCHANGED drawn, NEW p \in Process, NEW g \in Grant,
           \A q \in Process \ {p} : GoesOn(q),
           ~Redeems(req[p]), req'[p].from = g, req'[p].pc # "save",
           OnceOnly(g) => ~Spent(g) /\ Spent(g)',
           \/ req'[p].family = NoPair
           \/ \E n \in DOMAIN refreshTokens :
                  /\ g = <<"refresh", n>> /\ ~refreshTokens[n].used
                  /\ req'[p].family = refreshTokens[n].family
                  /\ n \in DOMAIN refreshTokens' => refreshTokens'[n].used
    PROVE  GrantInv'
<1>1. UNCHANGED <<store, drawn, issued>> /\ Saved' = Saved
    BY DEF MapsShrink, Saved
<1>2. PairsAreDrawn'
    BY <1>1 DEF GrantInv, PairInv, PairsAreDrawn
<1>3. SavesAreNew'
    BY <1>1 DEF GrantInv, PairInv, SavesAreNew, GoesOn, KeepsPair, Redeems
<1>4. RefreshedWereSaved'
    <2>1. \A n \in DOMAIN refreshTokens' : n \in Saved /\ refreshTokens'[n].family \in Saved
        BY DEF GrantInv, PairInv, RefreshedWereSaved, MapsShrink
    <2>2. ASSUME NEW q \in Process, Rotates(req'[q])
          PROVE  req'[q].from[2] \in Saved /\ req'[q].family \in Saved
        <3>1. CASE q = p
            <4>1. PICK n \in DOMAIN refreshTokens :
                      g = <<"refresh", n>> /\ req'[p].family = refreshTokens[n].family
                BY <2>2, <3>1 DEF Rotates
            <4>2. n \in Saved /\ refreshTokens[n].family \in Saved
                BY DEF GrantInv, PairInv, RefreshedWereSaved
            <4>3. req'[q].from[2] = n
                BY <3>1, <4>1
            <4> QED
                BY <3>1, <4>1, <4>2, <4>3
        <3>2. CASE q # p
            BY <2>2, <3>2 DEF GrantInv, PairInv, RefreshedWereSaved, GoesOn, KeepsGrant, Rotates
        <3> QED
            BY <3>1, <3>2
    <2> QED
        BY <1>1, <2>1, <2>2 DEF GrantInv, PairInv, RefreshedWereSaved, Rotates, Redeems
<1>5. TakenIsSpent'
    <2>1. ASSUME NEW q \in Process, Redeems(req'[q]), OnceOnly(req[q].from)'
          PROVE  Spent(req[q].from)'
        <3> PICK h : h = req'[q].from
            OBVIOUS
        <3>1. OnceOnly(h)
            BY <2>1 DEF OnceOnly, MapsShrink
        <3>2. CASE q = p
            <4>1. h = g /\ Spent(g)'
                BY <3>1, <3>2
            <4> QED
                BY <4>1 DEF Spent
        <3>3. CASE q # p
            <4>1. Redeems(req[q]) /\ req[q].from = h
                BY <2>1, <3>3 DEF GoesOn, KeepsGrant
            <4>2. Spent(h)
                BY <3>1, <4>1 DEF GrantInv, TakenIsSpent
            <4>3. Spent(h)'
                BY <4>2, SpentStays
            <4> QED
                BY <4>3 DEF Spent
        <3> QED
            BY <3>2, <3>3
    <2>2. ASSUME NEW i \in issued, OnceOnly(i.from)'
          PROVE  Spent(i.from)'
        <3>1. OnceOnly(i.from)
            BY <2>2, SpentStays
        <3>2. Spent(i.from)
            BY <3>1 DEF GrantInv, TakenIsSpent
        <3> QED
            BY <3>2, SpentStays
    <2> QED
        BY <1>1, <2>1, <2>2 DEF TakenIsSpent, Redeems
<1>6. TakenByOne'
    <2>1. OnceOnly(g) => /\ \A q \in Process : Redeems(req[q]) => req[q].from # g
                         /\ \A i \in issued : i.from # g
        BY DEF GrantInv, TakenIsSpent
    <2>2. ASSUME NEW q \in Process \ {p}, Redeems(req'[q]), req'[q].from = g
          PROVE  ~OnceOnly(g)
        BY <2>1, <2>2 DEF GoesOn, KeepsGrant
    <2>3. ASSUME NEW q \in Process, NEW r \in Process, q # r, Redeems(req'[q]), Redeems(req'[r]),
                 req'[q].from = req'[r].from
          PROVE  ~OnceOnly(req[q].from)'
        <3> PICK h : h = req'[q].from
            OBVIOUS
        <3> SUFFICES ~OnceOnly(h)
            BY DEF OnceOnly, MapsShrink
        <3>1. CASE q = p \/ r = p
            BY <2>2, <2>3, <3>1
        <3>2. CASE q # p /\ r # p
            BY <2>3, <3>2 DEF GrantInv, TakenByOne, GoesOn, KeepsGrant
        <3> QED
            BY <3>1, <3>2
    <2>4. ASSUME NEW q \in Process, NEW i \in issued, Redeems(req'[q]), i.from = req'[q].from
          PROVE  ~OnceOnly(i.from)'
        <3> PICK h : h = i.from
            OBVIOUS
        <3>1. CASE q = p
            BY <2>1, <2>4, <3>1, SpentStays
        <3>2. CASE q # p
            BY <2>4, <3>2, SpentStays DEF GrantInv, TakenByOne, GoesOn, KeepsGrant
        <3> QED
            BY <3>1, <3>2
    <2>5. ASSUME NEW i \in issued, NEW j \in issued, i.from = j.from, OnceOnly(i.from)'
          PROVE  i.pair = j.pair
        <3> PICK h : h = i.from
            OBVIOUS
        <3> QED
            BY <2>5, SpentStays DEF GrantInv, TakenByOne
    <2> QED
        BY <1>1, <2>3, <2>4, <2>5 DEF TakenByOne, Redeems
<1>7. FamiliesAreChains'
    <2>1. OneUnusedPerFamily'
        BY DEF GrantInv, FamiliesAreChains, OneUnusedPerFamily, MapsShrink
    <2>2. ASSUME Rotates(req'[p])
          PROVE  /\ \A q \in Process \ {p} : Rotates(req'[q]) => req'[q].family # req'[p].family
                 /\ \A m \in DOMAIN refreshTokens' :
                        ~refreshTokens'[m].used => refreshTokens'[m].family # req'[p].family
        <3>1. PICK n \in DOMAIN refreshTokens :
                  /\ ~refreshTokens[n].used
                  /\ req'[p].family = refreshTokens[n].family
                  /\ n \in DOMAIN refreshTokens' => refreshTokens'[n].used
            BY <2>2 DEF Rotates
        <3>2. ASSUME NEW q \in Process \ {p}, Rotates(req'[q])
              PROVE  req'[q].family # refreshTokens[n].family
            BY <3>1, <3>2 DEF GrantInv, FamiliesAreChains, GoesOn, KeepsGrant, Rotates
        <3>3. ASSUME NEW m \in DOMAIN refreshTokens', ~refreshTokens'[m].used
              PROVE  refreshTokens'[m].family # refreshTokens[n].family
            BY <3>1, <3>3 DEF GrantInv, FamiliesAreChains, OneUnusedPerFamily, MapsShrink
        <3> QED
            BY <3>1, <3>2, <3>3
    <2>3. ASSUME NEW q \in Process \ {p}, Rotates(req'[q])
          PROVE  /\ \A r \in Process \ {p, q} : Rotates(req'[r]) => req'[r].family # req'[q].family
                 /\ \A m \in DOMAIN refreshTokens' :
                        ~refreshTokens'[m].used => refreshTokens'[m].family # req'[q].family
        BY <2>3 DEF GrantInv, FamiliesAreChains, MapsShrink, GoesOn, KeepsGrant, Rotates
    <2>4. \A q, r \in Process :
              q # r /\ Rotates(req'[q]) /\ Rotates(req'[r]) => req'[q].family # req'[r].family
        BY <2>2, <2>3
    <2>5. \A q \in Process : \A m \in DOMAIN refreshTokens' :
              Rotates(req'[q]) /\ ~refreshTokens'[m].used => refreshTokens'[m].family # req'[q].family
        BY <2>2, <2>3
    <2> QED
        BY <2>1, <2>4, <2>5 DEF FamiliesAreChains, Rotates, Redeems
<1> QED
    BY <1>2, <1>3, <1>4, <1>5, <1>6, <1>7 DEF GrantInv, PairInv
LEMMA OthersGoOn ==
    ASSUME TypeInv, NEW p \in Process, NEW r, req' = [req EXCEPT ![p] = r]
    PROVE  req'[p] = r /\ \A q \in Process \ {p} : GoesOn(q)
BY DEF TypeInv, RequestsTyped, GoesOn, KeepsGrant, KeepsPair

LEMMA FinishGoesOn ==
    ASSUME TypeInv, NEW p \in Process, Finish(p)
    PROVE  \A q \in Process : GoesOn(q)
<1> PICK r : r = New("idle", Direct)
    OBVIOUS
<1>1. r.pc = "idle"
    BY DEF New
<1>2. req' = [req EXCEPT ![p] = r]
    BY DEF Finish
<1> QED
    BY <1>1, <1>2, OthersGoOn DEF GoesOn, KeepsGrant, KeepsPair, Redeems

LEMMA RequestsStay ==
    ASSUME UNCHANGED req
    PROVE  \A q \in Process : GoesOn(q)
BY DEF GoesOn, KeepsGrant, KeepsPair, Redeems

\* A request without a refresh token that starts, or goes on from "deleteCode".
LEMMA ServeStep ==
    ASSUME TypeInv, GrantInv, MapsShrink, UNCHANGED drawn, NEW p \in Process, NEW from \in Grant,
           ~Redeems(req[p]), Serve(p, "generate", from),
           OnceOnly(from) => ~Spent(from) /\ Spent(from)'
    PROVE  GrantInv'
<1> PICK r : r = New("generate", from)
    OBVIOUS
<1>1. r.pc = "generate" /\ r.from = from /\ r.family = NoPair
    BY DEF New
<1>2. req' = [req EXCEPT ![p] = r]
    BY DEF Serve
<1>3. req'[p] = r /\ \A q \in Process \ {p} : GoesOn(q)
    BY <1>2, OthersGoOn
<1> QED
    BY <1>1, <1>3, TakingStep

LEMMA MapsStay ==
    ASSUME UNCHANGED <<store, codes, devices, refreshTokens, issued>>
    PROVE  MapsShrink
BY DEF MapsShrink

\* A code that is drawn is new to everyone.
LEMMA FreshStep ==
    ASSUME TypeInv, GrantInv, NEW c \in Code, Authorize(c) \/ DeviceAuthorize(c)
    PROVE  GrantInv'
<1> PICK g : g = IF Authorize(c) THEN <<"code", c>> ELSE <<"device", c>>
    OBVIOUS
<1>1. /\ \A p \in Process : req[p].from # g
      /\ \A i \in issued : i.from # g
    BY DEF Authorize, DeviceAuthorize, Fresh
<1>2. /\ UNCHANGED <<store, refreshTokens, req, drawn, issued>> /\ Saved' = Saved
    BY DEF Authorize, DeviceAuthorize, pairs, history, Saved
<1>3. ASSUME NEW h \in Grant, h # g, Spent(h) PROVE Spent(h)'
    <2>1. CASE \E d \in Code : h = <<"code", d>>
        <3> PICK d \in Code : h = <<"code", d>>
            BY <2>1
        <3>1. CASE Authorize(c)
            <4>1. d # c
                BY <1>3, <3>1
            <4> QED
                BY <1>3, <3>1, <4>1 DEF Authorize, With, Spent
        <3>2. CASE DeviceAuthorize(c)
            BY <1>3, <3>2 DEF DeviceAuthorize, Spent
        <3> QED
            BY <3>1, <3>2
    <2>2. CASE \E d \in Code : h = <<"device", d>>
        <3> PICK d \in Code : h = <<"device", d>>
            BY <2>2
        <3>1. CASE DeviceAuthorize(c) /\ ~Authorize(c)
            <4>1. d # c
                BY <1>3, <3>1
            <4> QED
                BY <1>3, <3>1, <4>1 DEF DeviceAuthorize, With, Spent
        <3>2. CASE Authorize(c)
            BY <1>3, <3>2 DEF Authorize, Spent
        <3> QED
            BY <3>1, <3>2
    <2>3. CASE (\E n \in Pair : h = <<"refresh", n>>) \/ h = Direct
        BY <1>2, <1>3, <2>3 DEF Spent, Direct
    <2> QED
        BY <1>3, <2>1, <2>2, <2>3, GrantForms
<1>4. TakenIsSpent'
    <2>1. ASSUME NEW p \in Process, Redeems(req[p]), OnceOnly(req[p].from)
          PROVE  Spent(req[p].from)'
        <3> PICK h : h = req[p].from
            OBVIOUS
        <3>1. h \in Grant /\ h # g /\ Spent(h)
            BY <1>1, <2>1 DEF TypeInv, RequestsTyped, Request, GrantInv, TakenIsSpent
        <3>2. Spent(h)'
            BY <1>3, <3>1
        <3> QED
            BY <1>2, <3>2 DEF Spent
    <2>2. ASSUME NEW i \in issued, OnceOnly(i.from)
          PROVE  Spent(i.from)'
        <3>1. i.from \in Grant /\ i.from # g /\ Spent(i.from)
            BY <1>1, <2>2 DEF TypeInv, CountsTyped, GrantInv, TakenIsSpent
        <3> QED
            BY <1>3, <3>1
    <2> QED
        BY <1>2, <2>1, <2>2 DEF TakenIsSpent, OnceOnly
<1>5. TakenByOne'
    BY <1>2 DEF GrantInv, TakenByOne, OnceOnly
<1>6. FamiliesAreChains'
    BY <1>2 DEF GrantInv, FamiliesAreChains, OneUnusedPerFamily
<1>7. PairInv'
    BY <1>2 DEF GrantInv, PairInv, PairsAreDrawn, SavesAreNew, RefreshedWereSaved
<1> QED
    BY <1>4, <1>5, <1>6, <1>7 DEF GrantInv

LEMMA DeviceVerifyStep ==
    ASSUME TypeInv, GrantInv, NEW c \in Code, DeviceVerify(c)
    PROVE  GrantInv'
<1>1. MapsShrink /\ UNCHANGED <<drawn, req>>
    BY DEF DeviceVerify, MapsShrink, Without, pairs, history
<1> QED
    BY <1>1, RequestsStay, QuietStep

LEMMA BeginDirectStep ==
    ASSUME TypeInv, GrantInv, NEW p \in Process, BeginDirect(p)
    PROVE  GrantInv'
<1>1. MapsShrink /\ UNCHANGED drawn /\ Direct \in Grant /\ ~OnceOnly(Direct)
    BY MapsStay, GrantTypes DEF BeginDirect, grants, pairs, history, OnceOnly
<1>2. Serve(p, "generate", Direct) /\ ~Redeems(req[p])
    BY DEF BeginDirect, Redeems
<1> QED
    BY <1>1, <1>2, ServeStep

LEMMA ConsumeCodeStep ==
    ASSUME TypeInv, GrantInv, NEW p \in Process, NEW c \in Code, ConsumeCode(p, c)
    PROVE  GrantInv'
<1> PICK g : g = <<"code", c>>
    OBVIOUS
<1>1. MapsShrink /\ UNCHANGED drawn /\ g \in Grant
    BY GrantTypes DEF ConsumeCode, MapsShrink, Without, pairs, history
<1>2. CASE UNCHANGED req
    BY <1>1, <1>2, RequestsStay, QuietStep
<1>3. CASE Finish(p)
    BY <1>1, <1>3, FinishGoesOn, QuietStep
<1>4. CASE Serve(p, "generate", g) /\ codes' = Without(codes, {c})
    <2>1. ~Redeems(req[p])
        BY DEF ConsumeCode, Redeems
    <2>2. ~Spent(g) /\ Spent(g)'
        BY <1>4 DEF ConsumeCode, Spent, Without
    <2> QED
        BY <1>1, <1>4, <2>1, <2>2, ServeStep
<1>5. CASE Serve(p, "deleteCode", g)
    <2> PICK r : r = New("deleteCode", g)
        OBVIOUS
    <2>1. r.pc = "deleteCode"
        BY DEF New
    <2>2. req' = [req EXCEPT ![p] = r]
        BY <1>5 DEF Serve
    <2>3. \A q \in Process : GoesOn(q)
        BY <2>1, <2>2, OthersGoOn DEF GoesOn, KeepsGrant, KeepsPair, Redeems
    <2> QED
        BY <1>1, <2>3, QuietStep
<1> QED
    BY <1>2, <1>3, <1>4, <1>5 DEF ConsumeCode, CheckCode

LEMMA DeleteCodeStep ==
    ASSUME TypeInv, RedisStepsAreRedis, GrantInv, NEW p \in Process, DeleteCode(p)
    PROVE  GrantInv'
<1> PICK c : c = req[p].from[2]
    OBVIOUS
<1> PICK g : g = <<"code", c>>
    OBVIOUS
<1>1. c \in Code /\ store = "redis" /\ ~Redeems(req[p])
    BY DEF DeleteCode, TypeInv, RequestsTyped, WellFormed, RedisStepsAreRedis, RedisPC, Redeems
<1>2. MapsShrink /\ UNCHANGED drawn /\ g \in Grant /\ ~OnceOnly(g)
    BY <1>1, GrantTypes DEF DeleteCode, MapsShrink, Without, pairs, history, OnceOnly
<1>3. CASE Serve(p, "generate", g)
    BY <1>1, <1>2, <1>3, ServeStep
<1>4. CASE Finish(p)
    BY <1>2, <1>4, FinishGoesOn, QuietStep
<1> QED
    BY <1>3, <1>4 DEF DeleteCode, CheckCode

LEMMA PollStep ==
    ASSUME TypeInv, GrantInv, NEW p \in Process, NEW c \in Code, Poll(p, c)
    PROVE  GrantInv'
<1> PICK g : g = <<"device", c>>
    OBVIOUS
<1>1. MapsShrink /\ UNCHANGED drawn /\ g \in Grant
    BY GrantTypes DEF Poll, MapsShrink, Without, pairs, history
<1>2. CASE UNCHANGED req
    BY <1>1, <1>2, RequestsStay, QuietStep
<1>3. CASE Serve(p, "generate", g)
    <2>1. ~Redeems(req[p])
        BY DEF Poll, Redeems
    <2>2. ~Spent(g) /\ Spent(g)'
        BY DEF Poll, Spent, Without
    <2> QED
        BY <1>1, <1>3, <2>1, <2>2, ServeStep
<1> QED
    BY <1>2, <1>3 DEF Poll

LEMMA MarkOrDetectStep ==
    ASSUME TypeInv, GrantInv, NEW p \in Process, NEW n \in DOMAIN refreshTokens,
           NEW pc \in {"generate", "getToken"}, MarkOrDetect(p, n, pc), req[p].pc = "idle",
           UNCHANGED <<store, codes, devices, drawn, issued>>
    PROVE  GrantInv'
<1> PICK g : g = <<"refresh", n>>
    OBVIOUS
<1>1. n \in Pair /\ g \in Grant
    BY GrantTypes DEF TypeInv, PairsTyped
<1>2. /\ DOMAIN refreshTokens' = DOMAIN refreshTokens /\ refreshTokens'[n].used
      /\ MapsShrink
    BY DEF MarkOrDetect, TypeInv, PairsTyped, MapsShrink
<1>3. PICK r \in Request :
          /\ req' = [req EXCEPT ![p] = r]
          /\ r.pc = IF refreshTokens[n].used THEN "revoke" ELSE pc
          /\ r.from = g /\ r.family = refreshTokens[n].family
    BY MarkOrDetectIs
<1>4. req'[p] = r /\ \A q \in Process \ {p} : GoesOn(q)
    BY <1>3, OthersGoOn
<1>5. CASE refreshTokens[n].used
    <2>1. \A q \in Process : GoesOn(q)
        BY <1>3, <1>4, <1>5 DEF GoesOn, KeepsGrant, KeepsPair, Redeems
    <2> QED
        BY <1>2, <2>1, QuietStep
<1>6. CASE ~refreshTokens[n].used
    <2>1. ~Spent(g) /\ Spent(g)'
        BY <1>2, <1>6 DEF Spent
    <2>2. ~Redeems(req[p]) /\ r.pc # "save"
        BY <1>3 DEF Redeems
    <2> QED
        BY <1>1, <1>2, <1>3, <1>4, <1>6, <2>1, <2>2, TakingStep
<1> QED
    BY <1>5, <1>6

LEMMA ConsumeRefreshStep ==
    ASSUME TypeInv, GrantInv, NEW p \in Process, NEW n, ConsumeRefresh(p, n)
    PROVE  GrantInv'
<1>1. /\ n \in DOMAIN refreshTokens /\ req[p].pc = "idle"
      /\ UNCHANGED <<store, codes, devices, drawn, issued>>
    BY DEF ConsumeRefresh, grants, history
<1>2. CASE \E pc \in {"generate", "getToken"} : MarkOrDetect(p, n, pc)
    BY <1>1, <1>2, MarkOrDetectStep
<1>3. CASE refreshTokens' = Without(refreshTokens, {n}) /\ UNCHANGED req
    <2>1. MapsShrink
        BY <1>1, <1>3 DEF MapsShrink, Without
    <2> QED
        BY <1>1, <1>3, <2>1, RequestsStay, QuietStep
<1> QED
    BY <1>2, <1>3 DEF ConsumeRefresh, ConsumeRefreshMemory, ConsumeRefreshRedis

LEMMA GetTokenStep ==
    ASSUME TypeInv, GrantInv, NEW p \in Process, GetToken(p)
    PROVE  GrantInv'
<1>1. MapsShrink /\ UNCHANGED drawn
    BY MapsStay DEF GetToken, grants, pairs, history
<1>2. CASE Finish(p)
    BY <1>1, <1>2, FinishGoesOn, QuietStep
<1>3. CASE Goto(p, "generate")
    <2>1. \A q \in Process : GoesOn(q)
        BY <1>3 DEF GetToken, Goto, GoesOn, KeepsGrant, KeepsPair, Redeems, TypeInv, RequestsTyped, Request
    <2> QED
        BY <1>1, <2>1, QuietStep
<1> QED
    BY <1>2, <1>3 DEF GetToken

LEMMA RevokeStep ==
    ASSUME TypeInv, GrantInv, NEW p \in Process, Revoke(p) \/ RevokeExec(p)
    PROVE  GrantInv'
<1>1. MapsShrink /\ UNCHANGED drawn
    BY DEF Revoke, RevokeExec, DropFamily, MapsShrink, Without, grants, pairs
<1>2. CASE Finish(p)
    BY <1>1, <1>2, FinishGoesOn, QuietStep
<1>3. CASE req' = [req EXCEPT ![p].todo = Members(req[p].family), ![p].pc = "revokeExec"]
    <2>1. \A q \in Process : GoesOn(q)
        BY <1>3 DEF GoesOn, KeepsGrant, KeepsPair, Redeems, TypeInv, RequestsTyped, Request
    <2> QED
        BY <1>1, <2>1, QuietStep
<1> QED
    BY <1>2, <1>3 DEF Revoke, RevokeExec

LEMMA FailStep ==
    ASSUME TypeInv, GrantInv, NEW p \in Process, Fail(p)
    PROVE  GrantInv'
<1>1. MapsShrink /\ UNCHANGED drawn /\ Finish(p)
    BY MapsStay DEF Fail, grants, pairs, history
<1> QED
    BY <1>1, FinishGoesOn, QuietStep

LEMMA RemovalStep ==
    ASSUME TypeInv, GrantInv, NEW n, Userinfo(n) \/ RevokeRefreshToken(n) \/ RemoveToken(n)
    PROVE  GrantInv'
<1>1. MapsShrink /\ UNCHANGED <<drawn, req>>
    BY DEF Userinfo, RevokeRefreshToken, RemoveToken, MapsShrink, Without, grants, history
<1> QED
    BY <1>1, RequestsStay, QuietStep

LEMMA GenerateStep ==
    ASSUME TypeInv, GrantInv, NEW p \in Process, Generate(p)
    PROVE  GrantInv'
<1>1. PICK r \in Request :
          /\ req' = [req EXCEPT ![p] = r]
          /\ r.pc = "save" /\ r.from = req[p].from /\ r.family = req[p].family
          /\ r.pair = drawn + 1
    BY GenerateIs
<1>2. req'[p] = r /\ \A q \in Process \ {p} : req'[q] = req[q]
    BY <1>1 DEF TypeInv, RequestsTyped
<1>3. MapsShrink /\ drawn' = drawn + 1 /\ Saved' = Saved /\ issued' = issued /\ drawn \in Nat
    BY MapsStay, BoundsAreNaturals DEF Generate, grants, pairs, history, Saved, TypeInv, CountsTyped
<1>4. \A q \in Process : KeepsGrant(q)
    BY <1>1, <1>2 DEF KeepsGrant, Redeems, Generate
<1>5. PairsAreDrawn'
    BY <1>3 DEF GrantInv, PairInv, PairsAreDrawn
<1>6. \A n \in Saved : n \in 1..drawn
    BY DEF GrantInv, PairInv, PairsAreDrawn, Saved
<1>7. SavesAreNew'
    <2>1. ASSUME NEW q \in Process, req'[q].pc = "save"
          PROVE  /\ req'[q].pair \in 1..drawn' \ Saved
                 /\ q # p => req'[q].pair # r.pair
        <3>1. CASE q = p
            BY <1>1, <1>2, <1>3, <1>6, <3>1
        <3>2. CASE q # p
            <4>1. req[q].pair \in 1..drawn \ Saved
                BY <1>2, <2>1, <3>2 DEF GrantInv, PairInv, SavesAreNew
            <4> QED
                BY <1>1, <1>2, <1>3, <3>2, <4>1
        <3> QED
            BY <3>1, <3>2
    <2>2. ASSUME NEW q \in Process, NEW s \in Process, q # s, q # p, s # p,
                 req'[q].pc = "save", req'[s].pc = "save"
          PROVE  req'[q].pair # req'[s].pair
        BY <1>2, <2>2 DEF GrantInv, PairInv, SavesAreNew
    <2> QED
        BY <1>2, <1>3, <2>1, <2>2 DEF SavesAreNew
<1> QED
    BY <1>3, <1>4, <1>5, <1>7, KeptGrants DEF GrantInv, PairInv
\* The pair n of p's request is saved under the family f: what the invariant
\* says before, and what the maps hold after.
LEMMA SaveIs ==
    ASSUME TypeInv, GrantInv, NEW p \in Process, Save(p), NEW n, n = req[p].pair,
           NEW g, g = req[p].from, NEW f, f = IF req[p].family = NoPair THEN n ELSE req[p].family
    PROVE  /\ n \in 1..drawn \ Saved /\ g \in Grant
           /\ issued' = issued \cup {[pair |-> n, from |-> g]} /\ Saved' = Saved \cup {n}
           /\ UNCHANGED <<store, codes, devices, drawn>>
           /\ Redeems(req[p]) /\ ~Redeems(req'[p])
           /\ \A q \in Process \ {p} : req'[q] = req[q]
           /\ \A m \in DOMAIN refreshTokens' :
                  \/ m = n /\ refreshTokens'[m].family = f /\ ~refreshTokens'[m].used
                  \/ m # n /\ m \in DOMAIN refreshTokens /\ refreshTokens'[m] = refreshTokens[m]
<1>1. req[p].pc = "save" /\ n \in 1..drawn \ Saved /\ g \in Grant
    BY SavedPairTypes DEF Save, GrantInv, PairInv, SavesAreNew
<1>2. /\ issued' = issued \cup {[pair |-> n, from |-> g]}
      /\ UNCHANGED <<store, codes, devices, drawn>>
    BY DEF Save, grants
<1>3. Saved' = Saved \cup {n}
    <2> PICK i : i = [pair |-> n, from |-> g]
        OBVIOUS
    <2>1. i.pair = n /\ issued' = issued \cup {i}
        BY <1>2
    <2> QED
        BY <2>1 DEF Saved
<1> PICK r : r = New("idle", Direct)
    OBVIOUS
<1>4. r.pc = "idle" /\ req' = [req EXCEPT ![p] = r]
    BY DEF New, Save, Finish
<1>5. ~Redeems(req'[p]) /\ \A q \in Process \ {p} : req'[q] = req[q]
    BY <1>4 DEF TypeInv, RequestsTyped, Redeems
<1> PICK new : new = With(refreshTokens, n, [family |-> f, used |-> FALSE])
    OBVIOUS
<1>6. refreshTokens' = Without(new, Evictable)
    BY DEF Save
<1>7. ASSUME NEW m \in DOMAIN refreshTokens'
      PROVE  \/ m = n /\ refreshTokens'[m].family = f /\ ~refreshTokens'[m].used
             \/ m # n /\ m \in DOMAIN refreshTokens /\ refreshTokens'[m] = refreshTokens[m]
    <2>1. m \in DOMAIN new /\ refreshTokens'[m] = new[m]
        BY <1>6, <1>7 DEF Without
    <2>2. CASE m = n
        BY <2>1, <2>2 DEF With
    <2>3. CASE m # n
        BY <2>1, <2>3 DEF With
    <2> QED
        BY <2>2, <2>3
<1> QED
    BY <1>1, <1>2, <1>3, <1>5, <1>7 DEF Redeems

LEMMA SaveStep ==
    ASSUME TypeInv, GrantInv, NEW p \in Process, Save(p)
    PROVE  GrantInv'
<1> PICK n : n = req[p].pair
    OBVIOUS
<1> PICK g : g = req[p].from
    OBVIOUS
<1> PICK f : f = IF req[p].family = NoPair THEN n ELSE req[p].family
    OBVIOUS
<1>1. /\ n \in 1..drawn \ Saved /\ g \in Grant
      /\ issued' = issued \cup {[pair |-> n, from |-> g]} /\ Saved' = Saved \cup {n}
      /\ UNCHANGED <<store, codes, devices, drawn>>
    BY SaveIs
<1>2. /\ Redeems(req[p]) /\ ~Redeems(req'[p])
      /\ \A q \in Process \ {p} : req'[q] = req[q]
    BY SaveIs
<1>3. \A m \in DOMAIN refreshTokens' :
          \/ m = n /\ refreshTokens'[m].family = f /\ ~refreshTokens'[m].used
          \/ m # n /\ m \in DOMAIN refreshTokens /\ refreshTokens'[m] = refreshTokens[m]
    BY SaveIs
<1>4. PairsAreDrawn'
    BY <1>1 DEF GrantInv, PairInv, PairsAreDrawn
<1>5. SavesAreNew'
    <2>1. req[p].pc = "save" /\ ~(req'[p].pc = "save")
        BY <1>2 DEF Save, Redeems
    <2>2. \A q \in Process \ {p} : req[q].pc = "save" => req[q].pair # n
        BY <2>1 DEF GrantInv, PairInv, SavesAreNew
    <2> QED
        BY <1>1, <1>2, <2>1, <2>2 DEF GrantInv, PairInv, SavesAreNew
\* The request was well formed: it came with a refresh token or without a family.
<1>6. /\ g[1] = "refresh" => g[2] \in Saved
      /\ f \in Saved \cup {n}
    <2>1. g[1] = "refresh" <=> req[p].family # NoPair
        BY DEF TypeInv, RequestsTyped, WellFormed
    <2> QED
        BY <1>2, <2>1 DEF GrantInv, PairInv, RefreshedWereSaved, Rotates
<1>7. RefreshedWereSaved'
    <2>1. \A m \in DOMAIN refreshTokens' : m \in Saved' /\ refreshTokens'[m].family \in Saved'
        BY <1>1, <1>3, <1>6 DEF GrantInv, PairInv, RefreshedWereSaved
    <2>2. ASSUME NEW q \in Process, Rotates(req'[q])
          PROVE  req'[q].from[2] \in Saved' /\ req'[q].family \in Saved'
        BY <1>1, <1>2, <2>2 DEF GrantInv, PairInv, RefreshedWereSaved, Rotates
    <2>3. ASSUME NEW i \in issued', i.from[1] = "refresh"
          PROVE  i.from[2] \in Saved'
        <3>1. CASE i \in issued
            BY <1>1, <2>3, <3>1 DEF GrantInv, PairInv, RefreshedWereSaved
        <3>2. CASE i = [pair |-> n, from |-> g]
            BY <1>1, <1>6, <2>3, <3>2
        <3> QED
            BY <1>1, <3>1, <3>2
    <2> QED
        BY <2>1, <2>2, <2>3 DEF RefreshedWereSaved, Rotates, Redeems
\* n is nobody's grant, so nothing that was spent can be taken again.
<1>8. ASSUME NEW h \in Grant, Spent(h), h[1] = "refresh" => h[2] \in Saved
      PROVE  Spent(h)'
    <2>1. CASE h[1] = "refresh"
        BY <1>1, <1>3, <1>8, <2>1 DEF Spent
    <2>2. CASE h[1] # "refresh"
        BY <1>1, <1>8, <2>2 DEF Spent
    <2> QED
        BY <2>1, <2>2
<1>9. TakenIsSpent'
    <2>1. ASSUME NEW q \in Process, Redeems(req'[q]), OnceOnly(req[q].from)'
          PROVE  Spent(req[q].from)'
        <3> PICK h : h = req'[q].from
            OBVIOUS
        <3>1. q # p /\ Redeems(req[q]) /\ h = req[q].from /\ OnceOnly(h)
            BY <1>1, <1>2, <2>1 DEF OnceOnly
        <3>2. h \in Grant /\ Spent(h)
            BY <3>1 DEF TypeInv, RequestsTyped, Request, GrantInv, TakenIsSpent
        <3>3. h[1] = "refresh" => h[2] \in Saved
            BY <3>1 DEF TypeInv, RequestsTyped, WellFormed, GrantInv, PairInv, RefreshedWereSaved, Rotates
        <3>4. Spent(h)'
            BY <1>8, <3>2, <3>3
        <3> QED
            BY <3>4 DEF Spent
    <2>2. ASSUME NEW i \in issued', OnceOnly(i.from)'
          PROVE  Spent(i.from)'
        <3>1. OnceOnly(i.from)
            BY <1>1, <2>2 DEF OnceOnly
        <3>2. CASE i \in issued
            <4>1. Spent(i.from) /\ i.from \in Grant
                BY <3>1, <3>2 DEF GrantInv, TakenIsSpent, TypeInv, CountsTyped
            <4>2. i.from[1] = "refresh" => i.from[2] \in Saved
                BY <3>2 DEF GrantInv, PairInv, RefreshedWereSaved
            <4> QED
                BY <1>8, <4>1, <4>2
        <3>3. CASE i = [pair |-> n, from |-> g]
            <4>1. i.from = g
                BY <3>3
            <4>2. Spent(g)
                BY <1>2, <3>1, <4>1 DEF GrantInv, TakenIsSpent
            <4>3. Spent(g)'
                BY <1>1, <1>6, <1>8, <4>2
            <4> QED
                BY <4>1, <4>3
        <3> QED
            BY <1>1, <3>2, <3>3
    <2> QED
        BY <2>1, <2>2 DEF TakenIsSpent, Redeems
<1>10. TakenByOne'
    <2>1. \A q \in Process \ {p} : Redeems(req[q]) /\ req[q].from = g => ~OnceOnly(g)
        BY <1>2 DEF GrantInv, TakenByOne
    <2>2. \A i \in issued : i.from = g => ~OnceOnly(g)
        BY <1>2 DEF GrantInv, TakenByOne
    <2>3. \A h : OnceOnly(h)' <=> OnceOnly(h)
        BY <1>1 DEF OnceOnly
    <2>4. ASSUME NEW q \in Process, NEW s \in Process, q # s, Redeems(req'[q]), Redeems(req'[s]),
                 req'[q].from = req'[s].from
          PROVE  ~OnceOnly(req[q].from)'
        <3>1. q # p /\ s # p
            BY <1>2, <2>4
        <3>2. ~OnceOnly(req[q].from) /\ req'[q] = req[q]
            BY <1>2, <2>4, <3>1 DEF GrantInv, TakenByOne
        <3> QED
            BY <1>1, <3>2 DEF OnceOnly
    <2>5. ASSUME NEW q \in Process, NEW i \in issued', Redeems(req'[q]), i.from = req'[q].from
          PROVE  ~OnceOnly(i.from)
        <3>1. q # p /\ Redeems(req[q]) /\ i.from = req[q].from
            BY <1>2, <2>5
        <3>2. CASE i \in issued
            BY <3>1, <3>2 DEF GrantInv, TakenByOne
        <3>3. CASE i = [pair |-> n, from |-> g]
            <4>1. i.from = g
                BY <3>3
            <4> QED
                BY <2>1, <3>1, <4>1
        <3> QED
            BY <1>1, <3>2, <3>3
    <2>6. ASSUME NEW i \in issued', NEW j \in issued', i.from = j.from, OnceOnly(i.from)
          PROVE  i.pair = j.pair
        <3>1. CASE i \in issued /\ j \in issued
            BY <2>6, <3>1 DEF GrantInv, TakenByOne
        <3>2. CASE i = [pair |-> n, from |-> g] /\ j = i
            BY <3>2
        <3>3. CASE i = [pair |-> n, from |-> g] /\ j \in issued
            BY <2>2, <2>6, <3>3
        <3>4. CASE i \in issued /\ j = [pair |-> n, from |-> g]
            BY <2>2, <2>6, <3>4
        <3> QED
            BY <1>1, <3>1, <3>2, <3>3, <3>4
    <2> QED
        BY <2>3, <2>4, <2>5, <2>6 DEF TakenByOne, Redeems
<1>11. FamiliesAreChains'
    <2>1. /\ \A m \in DOMAIN refreshTokens :
                 ~refreshTokens[m].used => refreshTokens[m].family # f
          /\ \A q \in Process \ {p} : Rotates(req[q]) => req[q].family # f
        <3>1. CASE req[p].family = NoPair
            BY <1>1, <3>1 DEF GrantInv, PairInv, RefreshedWereSaved
        <3>2. CASE req[p].family # NoPair
            BY <1>2, <3>2 DEF GrantInv, FamiliesAreChains, Rotates
        <3> QED
            BY <3>1, <3>2
    <2>2. OneUnusedPerFamily'
        BY <1>3, <2>1 DEF GrantInv, FamiliesAreChains, OneUnusedPerFamily
    <2>3. \A q, s \in Process :
              q # s /\ Rotates(req'[q]) /\ Rotates(req'[s]) => req'[q].family # req'[s].family
        BY <1>2 DEF GrantInv, FamiliesAreChains, Rotates
    <2>4. ASSUME NEW q \in Process, NEW m \in DOMAIN refreshTokens',
                 Rotates(req'[q]), ~refreshTokens'[m].used
          PROVE  refreshTokens'[m].family # req'[q].family
        <3>1. q # p /\ req'[q] = req[q] /\ Rotates(req[q])
            BY <1>2, <2>4 DEF Rotates
        <3>2. CASE m = n
            BY <1>3, <2>1, <3>1, <3>2
        <3>3. CASE m # n
            BY <1>3, <2>4, <3>1, <3>3 DEF GrantInv, FamiliesAreChains
        <3> QED
            BY <3>2, <3>3
    <2> QED
        BY <2>2, <2>3, <2>4 DEF FamiliesAreChains, Rotates, Redeems
<1> QED
    BY <1>4, <1>5, <1>7, <1>9, <1>10, <1>11 DEF GrantInv, PairInv

LEMMA GrantInit == Init => GrantInv
<1> SUFFICES ASSUME Init PROVE GrantInv
    OBVIOUS
<1>1. /\ issued = {} /\ DOMAIN refreshTokens = {}
      /\ \A p \in Process : req[p].pc = "idle"
    BY DEF Init, New
<1> QED
    BY <1>1 DEF GrantInv, PairInv, PairsAreDrawn, SavesAreNew, RefreshedWereSaved, TakenIsSpent,
       TakenByOne, FamiliesAreChains, OneUnusedPerFamily, Redeems, Rotates

LEMMA GrantNext == TypeInv /\ RedisStepsAreRedis /\ GrantInv /\ [Next]_vars => GrantInv'
<1> SUFFICES ASSUME TypeInv, RedisStepsAreRedis, GrantInv, [Next]_vars PROVE GrantInv'
    OBVIOUS
<1>1. ASSUME NEW c \in Code, Authorize(c) \/ DeviceAuthorize(c) \/ DeviceVerify(c) PROVE GrantInv'
    BY <1>1, FreshStep, DeviceVerifyStep
<1>2. ASSUME NEW p \in Process, NEW c \in Code, ConsumeCode(p, c) \/ Poll(p, c) PROVE GrantInv'
    BY <1>2, ConsumeCodeStep, PollStep
<1>3. ASSUME NEW p \in Process, NEW n, ConsumeRefresh(p, n) PROVE GrantInv'
    BY <1>3, ConsumeRefreshStep
<1>4. ASSUME NEW p \in Process, BeginDirect(p) \/ DeleteCode(p) \/ GetToken(p) PROVE GrantInv'
    BY <1>4, BeginDirectStep, DeleteCodeStep, GetTokenStep
<1>5. ASSUME NEW p \in Process, Revoke(p) \/ RevokeExec(p) PROVE GrantInv'
    BY <1>5, RevokeStep
<1>6. ASSUME NEW p \in Process, Generate(p) \/ Save(p) \/ Fail(p) PROVE GrantInv'
    BY <1>6, GenerateStep, SaveStep, FailStep
<1>7. ASSUME NEW n, Userinfo(n) \/ RevokeRefreshToken(n) \/ RemoveToken(n) PROVE GrantInv'
    BY <1>7, RemovalStep
<1>8. CASE Tick \/ UNCHANGED vars
    <2>1. MapsShrink /\ UNCHANGED <<drawn, req>>
        BY <1>8, MapsStay DEF Tick, vars, grants, pairs, history
    <2> QED
        BY <2>1, RequestsStay, QuietStep
<1> QED
    BY <1>1, <1>2, <1>3, <1>4, <1>5, <1>6, <1>7, <1>8 DEF Next

LEMMA RedisInit == Init => RedisStepsAreRedis
BY DEF Init, RedisStepsAreRedis, RedisPC, New

LEMMA GrantInvariance == Spec => []GrantInv
BY GrantInit, GrantNext, RedisInit, RedisStep, TypeInvariance, PTL DEF Spec

\* Whatever the requests that race for it, one pair at most comes from a device
\* code, a refresh token, and an authorization code of the memory store.
THEOREM GrantsGiveOnePair == Spec => []GrantsRedeemedOnce
<1>1. GrantInv => GrantsRedeemedOnce
    BY DEF GrantInv, TakenByOne, OnceOnly, GrantsRedeemedOnce
<1> QED
    BY <1>1, GrantInvariance, PTL

\* A family has one usable refresh token at most, however its rotations, replays
\* and revocations overlap: a stolen token and the owner's cannot both go on.
THEOREM FamiliesStayChains == Spec => []OneUnusedPerFamily
<1>1. GrantInv => OneUnusedPerFamily
    BY DEF GrantInv, FamiliesAreChains
<1> QED
    BY <1>1, GrantInvariance, PTL

------------------------------------------------------------------------------
\* RevokedFamiliesStayDead, when requests do not overlap

\* The token endpoint serves one request at a time.
Alone == \A p, q \in Process : p = q

\* The index lists every refresh token, so a revocation takes the whole family.
Indexed ==
    \A n \in DOMAIN refreshTokens :
        /\ refreshTokens[n].family \in DOMAIN tokenFamilies
        /\ n \in tokenFamilies[refreshTokens[n].family]

\* Who is about to add to a family knows that it was not revoked, and who is
\* about to revoke one has all of its pairs.
Informed(p) ==
    /\ Rotates(req[p]) => req[p].family \notin revoked
    /\ req[p].pc \in {"revoke", "revokeExec"} => req[p].family \in Saved
    /\ req[p].pc = "revokeExec" =>
           \A n \in DOMAIN refreshTokens :
               refreshTokens[n].family = req[p].family => n \in req[p].todo

DeadInv ==
    /\ Indexed /\ RevokedFamiliesStayDead
    /\ \A p \in Process : Informed(p)
    /\ revoked \subseteq Saved

\* The request of q goes on as before, or ends, or has nothing to do with a family.
Follows(q) ==
    KeepsGrant(q) /\ (req'[q].pc \in {"revoke", "revokeExec"} => req'[q] = req[q])

LEMMA DeadQuiet ==
    ASSUME DeadInv, Indexed', UNCHANGED <<issued, revoked>>, \A q \in Process : Follows(q),
           \A n \in DOMAIN refreshTokens' :
               n \in DOMAIN refreshTokens /\ refreshTokens'[n].family = refreshTokens[n].family
    PROVE  DeadInv'
<1>1. RevokedFamiliesStayDead'
    BY DEF DeadInv, RevokedFamiliesStayDead
<1>2. Saved' = Saved
    BY DEF Saved
<1>3. ASSUME NEW q \in Process PROVE Informed(q)'
    <2>1. Informed(q) /\ Follows(q)
        BY DEF DeadInv
    <2> QED
        BY <1>2, <2>1 DEF Informed, Follows, KeepsGrant, Rotates, Redeems
<1> QED
    BY <1>1, <1>2, <1>3 DEF DeadInv

\* Pairs leave the store and the index together.
LEMMA IndexedShrink ==
    ASSUME Indexed, NEW S, NEW U, U \subseteq S,
           refreshTokens' = Without(refreshTokens, S), tokenFamilies' = Unindexed(tokenFamilies, U)
    PROVE  /\ Indexed'
           /\ \A n \in DOMAIN refreshTokens' :
                  n \in DOMAIN refreshTokens /\ refreshTokens'[n].family = refreshTokens[n].family
<1>1. ASSUME NEW n \in DOMAIN refreshTokens'
      PROVE  n \in DOMAIN refreshTokens /\ n \notin S /\ refreshTokens'[n] = refreshTokens[n]
    BY <1>1 DEF Without
<1>2. ASSUME NEW n \in DOMAIN refreshTokens', NEW f, f = refreshTokens[n].family
      PROVE  f \in DOMAIN tokenFamilies' /\ n \in tokenFamilies'[f]
    <2>1. f \in DOMAIN tokenFamilies /\ n \in tokenFamilies[f] /\ n \notin U
        BY <1>1, <1>2 DEF Indexed
    <2> QED
        BY <2>1 DEF Unindexed
<1> QED
    BY <1>1, <1>2 DEF Indexed

\* A step that leaves the pairs alone.
LEMMA DeadSame ==
    ASSUME DeadInv, UNCHANGED <<refreshTokens, tokenFamilies, issued, revoked>>,
           \A q \in Process : Follows(q)
    PROVE  DeadInv'
<1>1. Indexed'
    BY DEF DeadInv, Indexed
<1> QED
    BY <1>1, DeadQuiet

\* Requests that stay, end or start without a family.
LEMMA StayFollows ==
    ASSUME UNCHANGED req
    PROVE  \A q \in Process : Follows(q)
BY DEF Follows, KeepsGrant, Redeems

LEMMA ServeFollows ==
    ASSUME TypeInv, DeadInv, NEW p \in Process, NEW pc \in {"idle", "deleteCode", "generate"},
           NEW from, Serve(p, pc, from),
           UNCHANGED <<refreshTokens, tokenFamilies, issued, revoked>>
    PROVE  DeadInv'
<1> PICK r : r = New(pc, from)
    OBVIOUS
<1>1. r.pc = pc /\ r.family = NoPair
    BY DEF New
<1>2. req' = [req EXCEPT ![p] = r]
    BY DEF Serve
<1>3. req'[p] = r /\ \A q \in Process \ {p} : req'[q] = req[q]
    BY <1>2 DEF TypeInv, RequestsTyped
<1>4. Indexed' /\ RevokedFamiliesStayDead' /\ revoked' \subseteq Saved'
    BY DEF DeadInv, Indexed, RevokedFamiliesStayDead, Saved
<1>5. Informed(p)'
    BY <1>1, <1>3 DEF Informed, Rotates
<1>6. ASSUME NEW q \in Process \ {p} PROVE Informed(q)'
    BY <1>3 DEF DeadInv, Informed, Rotates, Redeems, Saved
<1> QED
    BY <1>4, <1>5, <1>6 DEF DeadInv

LEMMA FinishIsServe ==
    ASSUME NEW p \in Process, Finish(p)
    PROVE  Serve(p, "idle", Direct)
BY DEF Finish, Serve

LEMMA FinishFollows ==
    ASSUME TypeInv, NEW p \in Process, Finish(p)
    PROVE  /\ req'[p].pc = "idle" /\ \A q \in Process \ {p} : req'[q] = req[q]
           /\ \A q \in Process : Follows(q)
<1> PICK r : r = New("idle", Direct)
    OBVIOUS
<1>1. r.pc = "idle"
    BY DEF New
<1>2. req' = [req EXCEPT ![p] = r]
    BY DEF Finish
<1>3. req'[p] = r /\ \A q \in Process \ {p} : req'[q] = req[q]
    BY <1>2 DEF TypeInv, RequestsTyped
<1> QED
    BY <1>1, <1>3 DEF Follows, KeepsGrant, Redeems

LEMMA DeadCodes ==
    ASSUME TypeInv, DeadInv, NEW p \in Process,
           \/ \E c \in Code : ConsumeCode(p, c) \/ Poll(p, c)
           \/ BeginDirect(p) \/ DeleteCode(p)
    PROVE  DeadInv'
<1>1. UNCHANGED <<refreshTokens, tokenFamilies, issued, revoked>>
    BY DEF ConsumeCode, Poll, BeginDirect, DeleteCode, pairs, history
<1>2. \/ UNCHANGED req
      \/ \E from : \E pc \in {"idle", "deleteCode", "generate"} : Serve(p, pc, from)
    BY FinishIsServe DEF ConsumeCode, Poll, BeginDirect, DeleteCode, CheckCode
<1>3. CASE UNCHANGED req
    BY <1>1, <1>3, StayFollows, DeadSame
<1>4. CASE \E from : \E pc \in {"idle", "deleteCode", "generate"} : Serve(p, pc, from)
    BY <1>1, <1>4, ServeFollows
<1> QED
    BY <1>2, <1>3, <1>4

\* The family of a token that is there was not revoked.
LEMMA DeadMarkOrDetect ==
    ASSUME TypeInv, GrantInv, DeadInv, NEW p \in Process, NEW n \in DOMAIN refreshTokens,
           NEW pc \in {"generate", "getToken"}, MarkOrDetect(p, n, pc),
           UNCHANGED <<issued, revoked>>
    PROVE  DeadInv'
<1>1. PICK r \in Request :
          /\ req' = [req EXCEPT ![p] = r]
          /\ r.pc = IF refreshTokens[n].used THEN "revoke" ELSE pc
          /\ r.from = <<"refresh", n>> /\ r.family = refreshTokens[n].family
    BY MarkOrDetectIs
<1>2. req'[p] = r /\ \A q \in Process \ {p} : req'[q] = req[q]
    BY <1>1 DEF TypeInv, RequestsTyped
<1>3. /\ DOMAIN refreshTokens' = DOMAIN refreshTokens /\ UNCHANGED tokenFamilies
      /\ \A m \in DOMAIN refreshTokens : refreshTokens'[m].family = refreshTokens[m].family
    BY DEF MarkOrDetect, TypeInv, PairsTyped
<1>4. Indexed' /\ RevokedFamiliesStayDead' /\ revoked' \subseteq Saved' /\ Saved' = Saved
    BY <1>3 DEF DeadInv, Indexed, RevokedFamiliesStayDead, Saved
<1>5. r.family \notin revoked /\ r.family \in Saved /\ r.pc # "revokeExec"
    BY <1>1 DEF DeadInv, RevokedFamiliesStayDead, GrantInv, PairInv, RefreshedWereSaved
<1>6. Informed(p)'
    BY <1>2, <1>4, <1>5 DEF Informed
<1>7. ASSUME NEW q \in Process \ {p} PROVE Informed(q)'
    BY <1>2, <1>3, <1>4 DEF DeadInv, Informed, Rotates, Redeems
<1> QED
    BY <1>4, <1>6, <1>7 DEF DeadInv

LEMMA DeadConsumeRefresh ==
    ASSUME TypeInv, GrantInv, DeadInv, NEW p \in Process, NEW n, ConsumeRefresh(p, n)
    PROVE  DeadInv'
<1>1. n \in DOMAIN refreshTokens /\ UNCHANGED <<issued, revoked>>
    BY DEF ConsumeRefresh, history
<1>2. CASE \E pc \in {"generate", "getToken"} : MarkOrDetect(p, n, pc)
    BY <1>1, <1>2, DeadMarkOrDetect
<1>3. CASE /\ refreshTokens' = Without(refreshTokens, {n}) /\ UNCHANGED req
           /\ tokenFamilies' = Unindexed(tokenFamilies, {n})
    BY <1>1, <1>3, IndexedShrink, StayFollows, DeadQuiet DEF DeadInv
<1> QED
    BY <1>2, <1>3 DEF ConsumeRefresh, ConsumeRefreshMemory, ConsumeRefreshRedis

LEMMA DeadGoesOn ==
    ASSUME TypeInv, DeadInv, NEW p \in Process, GetToken(p) \/ Generate(p) \/ Fail(p)
    PROVE  DeadInv'
<1>1. UNCHANGED <<refreshTokens, tokenFamilies, issued, revoked>>
    BY DEF GetToken, Generate, Fail, pairs, history
<1>2. CASE Finish(p)
    BY <1>1, <1>2, FinishFollows, DeadSame
<1>3. CASE GetToken(p) /\ Goto(p, "generate")
    <2>1. \A q \in Process : Follows(q)
        BY <1>3 DEF GetToken, Goto, Follows, KeepsGrant, Redeems, TypeInv, RequestsTyped, Request
    <2> QED
        BY <1>1, <2>1, DeadSame
<1>4. CASE Generate(p)
    <2>1. PICK r \in Request :
              /\ req' = [req EXCEPT ![p] = r]
              /\ r.pc = "save" /\ r.from = req[p].from /\ r.family = req[p].family
        BY <1>4, GenerateIs
    <2>2. req'[p] = r /\ req[p].pc = "generate" /\ \A q \in Process \ {p} : req'[q] = req[q]
        BY <1>4, <2>1 DEF Generate, TypeInv, RequestsTyped
    <2>3. \A q \in Process : Follows(q)
        BY <2>1, <2>2 DEF Follows, KeepsGrant, Redeems
    <2> QED
        BY <1>1, <2>3, DeadSame
<1> QED
    BY <1>2, <1>3, <1>4 DEF GetToken, Fail

\* A family f is dropped with all of its pairs, and nobody else is at work.
LEMMA DeadDrop ==
    ASSUME TypeInv, DeadInv, Alone, NEW p \in Process, NEW f \in Saved, NEW S,
           DropFamily(f, S), Finish(p), issued' = issued,
           \A n \in DOMAIN refreshTokens : refreshTokens[n].family = f => n \in S
    PROVE  DeadInv'
<1>1. /\ refreshTokens' = Without(refreshTokens, S) /\ revoked' = revoked \cup {f}
      /\ tokenFamilies' = Without(tokenFamilies, {f}) /\ Saved' = Saved
    BY DEF DropFamily, Saved
<1>2. ASSUME NEW n \in DOMAIN refreshTokens'
      PROVE  /\ n \in DOMAIN refreshTokens /\ refreshTokens'[n] = refreshTokens[n]
             /\ refreshTokens[n].family # f
    BY <1>1, <1>2 DEF Without
<1>3. Indexed'
    <2>1. ASSUME NEW n \in DOMAIN refreshTokens', NEW h, h = refreshTokens[n].family
          PROVE  h \in DOMAIN tokenFamilies' /\ n \in tokenFamilies'[h]
        <3>1. h \in DOMAIN tokenFamilies /\ n \in tokenFamilies[h] /\ h # f
            BY <1>2, <2>1 DEF DeadInv, Indexed
        <3> QED
            BY <1>1, <3>1 DEF Without
    <2> QED
        BY <1>2, <2>1 DEF Indexed
<1>4. RevokedFamiliesStayDead'
    BY <1>1, <1>2 DEF DeadInv, RevokedFamiliesStayDead
<1>5. ASSUME NEW q \in Process PROVE Informed(q)'
    <2>1. q = p
        BY DEF Alone
    <2>2. req'[q].pc = "idle"
        BY <2>1, FinishFollows
    <2> QED
        BY <2>2 DEF Informed, Rotates, Redeems
<1> QED
    BY <1>1, <1>3, <1>4, <1>5 DEF DeadInv

LEMMA DeadRevoke ==
    ASSUME TypeInv, DeadInv, Alone, NEW p \in Process, Revoke(p) \/ RevokeExec(p)
    PROVE  DeadInv'
<1> PICK f : f = req[p].family
    OBVIOUS
<1>1. f \in Saved /\ issued' = issued
    BY DEF DeadInv, Informed, Revoke, RevokeExec
<1>2. \A n \in DOMAIN refreshTokens : refreshTokens[n].family = f => n \in Members(f)
    BY DEF DeadInv, Indexed, Members
<1>3. CASE DropFamily(f, Members(f)) /\ Finish(p)
    BY <1>1, <1>2, <1>3, DeadDrop
<1>4. CASE RevokeExec(p)
    <2>1. \A n \in DOMAIN refreshTokens : refreshTokens[n].family = f => n \in req[p].todo
        BY <1>4 DEF DeadInv, Informed, RevokeExec
    <2>2. DropFamily(f, req[p].todo) /\ Finish(p)
        BY <1>4 DEF RevokeExec
    <2> QED
        BY <1>1, <2>1, <2>2, DeadDrop
<1>5. CASE /\ req' = [req EXCEPT ![p].todo = Members(f), ![p].pc = "revokeExec"]
           /\ UNCHANGED <<pairs, revoked>>
    <2>1. Indexed' /\ RevokedFamiliesStayDead' /\ revoked' \subseteq Saved' /\ Saved' = Saved
        BY <1>1, <1>5 DEF DeadInv, Indexed, RevokedFamiliesStayDead, Saved, pairs
    <2>2. ASSUME NEW q \in Process PROVE Informed(q)'
        <3>1. q = p /\ req[p] \in Request
            BY DEF Alone, TypeInv, RequestsTyped
        <3>2. req'[q].pc = "revokeExec" /\ req'[q].family = f /\ req'[q].todo = Members(f)
            BY <1>5, <3>1 DEF Request, TypeInv, RequestsTyped
        <3>3. refreshTokens' = refreshTokens
            BY <1>5 DEF pairs
        <3> QED
            BY <1>1, <1>2, <2>1, <3>2, <3>3 DEF Informed, Rotates, Redeems
    <2> QED
        BY <2>1, <2>2 DEF DeadInv
<1> QED
    BY <1>3, <1>4, <1>5 DEF Revoke

\* A pair enters a new family, or one that was not revoked, and is indexed.
LEMMA DeadSave ==
    ASSUME TypeInv, GrantInv, DeadInv, Alone, NEW p \in Process, Save(p)
    PROVE  DeadInv'
<1> PICK n : n = req[p].pair
    OBVIOUS
<1> PICK f : f = IF req[p].family = NoPair THEN n ELSE req[p].family
    OBVIOUS
<1> PICK g : g = req[p].from
    OBVIOUS
<1>1. /\ n \notin Saved /\ Saved' = Saved \cup {n} /\ Redeems(req[p]) /\ ~Redeems(req'[p])
      /\ \A m \in DOMAIN refreshTokens' :
             \/ m = n /\ refreshTokens'[m].family = f
             \/ m # n /\ m \in DOMAIN refreshTokens /\ refreshTokens'[m] = refreshTokens[m]
    BY SaveIs
<1>2. f \notin revoked
    <2>1. CASE req[p].family = NoPair
        BY <1>1, <2>1 DEF DeadInv
    <2>2. CASE req[p].family # NoPair
        BY <1>1, <2>2 DEF DeadInv, Informed, Rotates
    <2> QED
        BY <2>1, <2>2
<1>3. revoked' = revoked /\ Finish(p)
    BY DEF Save
<1>4. RevokedFamiliesStayDead'
    BY <1>1, <1>2, <1>3 DEF DeadInv, RevokedFamiliesStayDead
<1> PICK index : index = With(tokenFamilies, f, Members(f) \cup {n})
    OBVIOUS
<1>5. tokenFamilies' = Unindexed(index, Evictable) /\ \A m \in DOMAIN refreshTokens' : m \notin Evictable
    BY DEF Save, Without
<1>6. Indexed'
    <2>1. ASSUME NEW m \in DOMAIN refreshTokens', NEW h, h = refreshTokens'[m].family
          PROVE  h \in DOMAIN index /\ m \in index[h]
        <3>1. DOMAIN index = DOMAIN tokenFamilies \cup {f} /\ index[f] = Members(f) \cup {n}
            BY DEF With
        <3>2. \A k \in DOMAIN tokenFamilies : k # f => index[k] = tokenFamilies[k]
            BY DEF With
        <3>3. CASE m = n
            BY <1>1, <2>1, <3>1, <3>3
        <3>4. CASE m # n
            <4>1. m \in DOMAIN refreshTokens /\ h = refreshTokens[m].family
                BY <1>1, <2>1, <3>4
            <4>2. h \in DOMAIN tokenFamilies /\ m \in tokenFamilies[h]
                BY <4>1 DEF DeadInv, Indexed
            <4> QED
                BY <3>1, <3>2, <4>2 DEF Members
        <3> QED
            BY <3>3, <3>4
    <2>2. ASSUME NEW m \in DOMAIN refreshTokens', NEW h, h = refreshTokens'[m].family
          PROVE  h \in DOMAIN tokenFamilies' /\ m \in tokenFamilies'[h]
        BY <1>5, <2>1, <2>2 DEF Unindexed
    <2> QED
        BY <2>2 DEF Indexed
<1>7. ASSUME NEW q \in Process PROVE Informed(q)'
    <2>1. q = p
        BY DEF Alone
    <2>2. req'[q].pc = "idle"
        BY <1>3, <2>1, FinishFollows
    <2> QED
        BY <2>2 DEF Informed, Rotates, Redeems
<1> QED
    BY <1>1, <1>3, <1>4, <1>6, <1>7 DEF DeadInv

LEMMA DeadRemoval ==
    ASSUME TypeInv, DeadInv, NEW n, Userinfo(n) \/ RevokeRefreshToken(n) \/ RemoveToken(n)
    PROVE  DeadInv'
<1>1. UNCHANGED <<req, issued, revoked>>
    BY DEF Userinfo, RevokeRefreshToken, RemoveToken, history
<1>2. CASE Userinfo(n)
    BY <1>1, <1>2, StayFollows, DeadSame DEF Userinfo
<1>3. CASE RevokeRefreshToken(n) \/ RemoveToken(n)
    <2>1. PICK U : /\ U \subseteq {n} /\ tokenFamilies' = Unindexed(tokenFamilies, U)
                   /\ refreshTokens' = Without(refreshTokens, {n})
        BY <1>3 DEF RevokeRefreshToken, RemoveToken
    <2> QED
        BY <1>1, <2>1, IndexedShrink, StayFollows, DeadQuiet DEF DeadInv
<1> QED
    BY <1>2, <1>3

LEMMA DeadInit == Init => DeadInv
<1> SUFFICES ASSUME Init PROVE DeadInv
    OBVIOUS
<1>1. /\ issued = {} /\ revoked = {} /\ DOMAIN refreshTokens = {}
      /\ \A p \in Process : req[p].pc = "idle"
    BY DEF Init, New
<1> QED
    BY <1>1 DEF DeadInv, Indexed, RevokedFamiliesStayDead, Informed, Rotates, Redeems

LEMMA DeadNext == Alone => (TypeInv /\ GrantInv /\ DeadInv /\ [Next]_vars => DeadInv')
<1> SUFFICES ASSUME Alone, TypeInv, GrantInv, DeadInv, [Next]_vars PROVE DeadInv'
    OBVIOUS
<1>1. ASSUME NEW c \in Code, Authorize(c) \/ DeviceAuthorize(c) \/ DeviceVerify(c) PROVE DeadInv'
    BY <1>1, StayFollows, DeadSame DEF Authorize, DeviceAuthorize, DeviceVerify, pairs, history
<1>2. ASSUME NEW p \in Process, NEW c \in Code, ConsumeCode(p, c) \/ Poll(p, c) PROVE DeadInv'
    BY <1>2, DeadCodes
<1>3. ASSUME NEW p \in Process, NEW n, ConsumeRefresh(p, n) PROVE DeadInv'
    BY <1>3, DeadConsumeRefresh
<1>4. ASSUME NEW p \in Process, BeginDirect(p) \/ DeleteCode(p) PROVE DeadInv'
    BY <1>4, DeadCodes
<1>5. ASSUME NEW p \in Process, GetToken(p) \/ Generate(p) \/ Fail(p) PROVE DeadInv'
    BY <1>5, DeadGoesOn
<1>6. ASSUME NEW p \in Process, Revoke(p) \/ RevokeExec(p) \/ Save(p) PROVE DeadInv'
    BY <1>6, DeadRevoke, DeadSave
<1>7. ASSUME NEW n, Userinfo(n) \/ RevokeRefreshToken(n) \/ RemoveToken(n) PROVE DeadInv'
    BY <1>7, DeadRemoval
<1>8. CASE Tick \/ UNCHANGED vars
    BY <1>8, StayFollows, DeadSame DEF Tick, vars, pairs, history
<1> QED
    BY <1>1, <1>2, <1>3, <1>4, <1>5, <1>6, <1>7, <1>8 DEF Next

\* A revoked family is dead, as docs/usage.md:430 says, when requests come one at
\* a time: only another request under way can add to a family that is revoked.
THEOREM LoneRequestsRevoke ==
    ASSUME Alone
    PROVE  Spec => []RevokedFamiliesStayDead
<1>1. TypeInv /\ GrantInv /\ DeadInv /\ [Next]_vars => DeadInv'
    BY DeadNext
<1>2. DeadInv => RevokedFamiliesStayDead
    BY DEF DeadInv
<1> QED
    BY <1>1, <1>2, DeadInit, TypeInvariance, GrantInvariance, PTL DEF Spec

===============================================================================
