------------------------- MODULE RequestGuardProofs -------------------------
(***************************************************************************)
(* Proofs about RequestGuard, for any users, routes, grants and number of  *)
(* requests: bans are enforced where they are asked for, and everywhere    *)
(* when every entry asks; logins that ended stay out, handlers run for     *)
(* those who were granted them, and the browser does not lose its cookie.  *)
(* Matching of permissions is inclusion.                                   *)
(***************************************************************************)
EXTENDS RequestGuard, TLAPS

------------------------------------------------------------------------------
\* Permissions

LEMMA SegmentsOfPermission ==
  ASSUME NEW p \in Permission
  PROVE  /\ p \in Seq(Segment \cup {Star}) /\ Len(p) \in 1..MaxSegments
         /\ p = [i \in 1..Len(p) |-> p[i]]
         /\ \A i \in 1..Len(p) : p[i] \in Segment \cup {Star}
  BY SegmentAssumption DEF Permission

LEMMA SegmentsOfName ==
  ASSUME NEW n \in Name
  PROVE  /\ n \in Seq(Segment) /\ Len(n) \in 1..MaxSegments
         /\ \A i \in 1..Len(n) : n[i] \in Segment
  BY SegmentAssumption DEF Name

\* A grant that matches stands for all that the requirement stands for.
LEMMA MatchIsSound ==
  ASSUME NEW g \in Permission, NEW r \in Permission, matchPermission(g, r),
         NEW name \in Name, StandsFor(r, name)
  PROVE  StandsFor(g, name)
<1>1. CASE g = <<Star>> \/ g = r
  BY <1>1 DEF StandsFor
<1>2. CASE /\ g # <<Star>>
           /\ Len(g) = Len(r)
           /\ \A i \in 1..Len(g) : g[i] \in {Star, r[i]}
  <2>1. r # <<Star>>
    <3> SUFFICES ASSUME r = <<Star>> PROVE FALSE
      OBVIOUS
    <3>1. Len(g) = 1 /\ g[1] = Star
      BY <1>2
    <3>2. g = <<Star>>
      BY <3>1, SegmentsOfPermission
    <3> QED BY <3>2, <1>2
  <2>2. Len(r) = Len(name) /\ \A i \in 1..Len(r) : r[i] \in {Star, name[i]}
    BY <2>1 DEF StandsFor
  <2> QED BY <1>2, <2>2 DEF StandsFor
<1> QED BY <1>1, <1>2 DEF matchPermission

\* A grant that stands for all that the requirement stands for matches: a name
\* of the requirement that differs from the grant in every other place tells.
LEMMA MatchIsComplete ==
  ASSUME NEW g \in Permission, NEW r \in Permission,
         \A name \in Name : StandsFor(r, name) => StandsFor(g, name)
  PROVE  matchPermission(g, r)
<1> SUFFICES ASSUME g # <<Star>> PROVE matchPermission(g, r)
  BY DEF matchPermission
<1> DEFINE other(s) == CHOOSE x \in Segment : x # s
<1>1. \A s : other(s) \in Segment /\ other(s) # s
  <2> TAKE s
  <2>1. \E x \in Segment : x # s
    BY SegmentAssumption
  <2> QED BY <2>1
<1>2. MaxSegments \in Nat \ {0}
  BY SegmentAssumption
<1> HIDE DEF other
<1>3. CASE r = <<Star>>
  <2> DEFINE name == [i \in 1..1 |-> other(g[1])]
  <2>1. name \in Name
    BY <1>1, <1>2 DEF Name
  <2>2. Len(name) = 1 /\ name[1] = other(g[1])
    BY <1>1
  <2>3. StandsFor(g, name)
    BY <2>1, <1>3 DEF StandsFor
  <2> HIDE DEF name
  <2>4. Len(g) = 1 /\ g[1] \in {Star, other(g[1])}
    BY <2>2, <2>3 DEF StandsFor
  <2>5. g[1] = Star
    BY <2>4, <1>1
  <2>6. g = <<Star>>
    BY <2>4, <2>5, SegmentsOfPermission
  <2> QED BY <2>6
<1>4. CASE r # <<Star>>
  <2> DEFINE n == Len(r)
             name == [i \in 1..n |-> IF r[i] = Star THEN other(g[i]) ELSE r[i]]
  <2>1. n \in 1..MaxSegments /\ \A i \in 1..n : r[i] \in Segment \cup {Star}
    BY SegmentsOfPermission
  <2>2. name \in [1..n -> Segment]
    BY <1>1, <2>1
  <2>3. name \in Name
    BY <2>1, <2>2 DEF Name
  <2>4. Len(name) = n
    BY <2>1, <2>2
  <2>5. \A i \in 1..n : name[i] = IF r[i] = Star THEN other(g[i]) ELSE r[i]
    OBVIOUS
  <2> HIDE DEF name
  <2>6. StandsFor(r, name)
    BY <2>4, <2>5 DEF StandsFor
  <2>7. Len(g) = n /\ \A i \in 1..n : g[i] \in {Star, name[i]}
    BY <2>3, <2>4, <2>6 DEF StandsFor
  <2>8. \A i \in 1..n : g[i] \in {Star, r[i]}
    BY <2>5, <2>7, <1>1
  <2> QED BY <2>7, <2>8 DEF matchPermission
<1> QED BY <1>3, <1>4

\* matchPermission decides inclusion, for any segments and lengths
\* (permission.engine.ts:73-95).
THEOREM MatchingIsInclusion == MatchIsInclusion
  BY MatchIsSound, MatchIsComplete DEF MatchIsInclusion

------------------------------------------------------------------------------
\* The invariant

\* Where a request has its session, and where it is about to write it back.
Checked == {"ban", "rotGet", "rotSet", "rotDelete", "renew", "authorize", "admitted"}
Writing == {"rotSet", "set"}

\* What a request knows is so: its token was issued, a ban of its user still
\* lasts, its login is still over, its handler was granted.
Located(r) ==
    /\ r.pc \notin {"idle", "refused"} => r.sid \in 1..issued
    /\ r.new \in 0..issued
HasCopies(r) ==
    /\ r.pc \in Checked => r.copy \in Session
    /\ r.pc \in Writing => r.data \in Session
Asking(r) ==
    r.ban /\ AsksBan(r.entry) =>
        r.pc \in {"verify", "get", "ban"} /\ tokens[r.sid].user \in banned
Late(r) == r.over => r.pc \in {"verify", "get"} /\ Over(tokens[r.sid].login)
Granted(r) ==
    r.route # None =>
        r.pc = "admitted" /\ hasPermission(GrantsOf[r.copy.user], r.route.permissions)

Sound(r) == Located(r) /\ HasCopies(r) /\ Asking(r) /\ Late(r) /\ Granted(r)

RequestsAreSound == \A p \in Process : Sound(req[p])

\* Tokens and sessions are of ids drawn, logins among them.
TokensKnown == \A i \in 1..issued : tokens[i] \in [user : User, login : 1..issued]
SessionsKnown == \A i \in Ids : Live(i) => i \in 1..issued

GuardInv == TypeOK /\ TokensKnown /\ SessionsKnown /\ cookie \in 0..issued /\ RequestsAreSound

------------------------------------------------------------------------------
\* Steps of one request

\* The rest of the types.
WorldOK ==
    /\ config \in Configs
    /\ sessions \in [Ids -> Session \cup {None}]
    /\ issued \in 0..MaxIds
    /\ tokens \in [Ids -> [user : User, login : Ids] \cup {None}]
    /\ banned \subseteq User
    /\ cookie \in 0..MaxIds
    /\ disturbed \in BOOLEAN
    /\ touched \subseteq Ids
    /\ opened \in 0..MaxSafe
    /\ lapsed \subseteq 1..MaxSafe /\ shut \subseteq 1..MaxSafe

LEMMA BoundsAreNaturals == MaxIds \in Nat /\ MaxSafe \in Nat
  BY GuardAssumption

LEMMA IdleIsRequest == Idle \in Request /\ Idle.pc = "idle"
<1>1. (CHOOSE c \in Client : TRUE) \in Client
  BY GuardAssumption
<1>2. NoId \in 0..MaxIds
  BY BoundsAreNaturals DEF NoId
<1> QED BY <1>1, <1>2 DEF Idle, Request, PC

LEMMA IdleIsSound ==
  ASSUME GuardInv
  PROVE  Sound(Idle)
  BY BoundsAreNaturals DEF GuardInv, TypeOK, NoId, Idle, Sound, Located, HasCopies, Asking, Late, Granted, Checked, Writing

LEMMA RequestOf ==
  ASSUME TypeOK, NEW p \in Process
  PROVE  req[p] \in Request
  BY DEF TypeOK

LEMMA TokensOfIds ==
  ASSUME GuardInv, NEW i \in 1..issued
  PROVE  /\ i \in Ids /\ i \in 0..MaxIds
         /\ tokens[i].user \in User /\ tokens[i].login \in 1..issued
  BY BoundsAreNaturals DEF GuardInv, TypeOK, TokensKnown, Ids

\* Over lasts when nobody new is about to write a session of the login and no
\* session of it appears.
LEMMA OverLasts ==
  ASSUME NEW l, Over(l),
         \A i \in 1..issued' : tokens'[i].login = l =>
             i \in 1..issued /\ tokens[i].login = l /\ (Live(i)' => Live(i)),
         \A p \in Writers' : tokens'[req'[p].sid].login = l =>
             p \in Writers /\ tokens[req[p].sid].login = l
  PROVE  Over(l)'
  BY DEF Over

\* One request moves on to r, the store and the bans stay: what r knows has to
\* be so now, and a copy about to be written is of a session that lives.
LEMMA StillStep ==
  ASSUME GuardInv, NEW p \in Process, NEW r \in Request,
         req' = [req EXCEPT ![p] = r], Sound(r), WorldOK',
         UNCHANGED <<sessions, issued, tokens, config, banned>>, cookie' \in 0..issued,
         r.pc \in Writing => Live(r.sid)
  PROVE  GuardInv'
<1>1. TypeOK'
  BY DEF GuardInv, TypeOK, WorldOK
<1>2. /\ UNCHANGED <<sessions, issued, tokens, config, banned>>
      /\ \A i : Live(i)' = Live(i)
  BY DEF Live
<1>3. TokensKnown' /\ SessionsKnown'
  BY <1>2 DEF GuardInv, TokensKnown, SessionsKnown
<1>4. \A q \in Process : req'[q] = IF q = p THEN r ELSE req[q]
  BY DEF GuardInv, TypeOK
<1>5. ASSUME NEW l, Over(l) PROVE Over(l)'
  <2>1. ASSUME NEW q \in Writers', tokens'[req'[q].sid].login = l
        PROVE  q \in Writers /\ tokens[req[q].sid].login = l
    <3>1. CASE q = p
      <4>1. r.pc \in Writing /\ tokens[r.sid].login = l
        BY <1>2, <1>4, <2>1, <3>1 DEF Writers, Writing
      <4>2. Live(r.sid) /\ r.sid \in 1..issued
        BY <4>1 DEF Sound, Located, Writing
      <4> QED BY <4>1, <4>2, <1>5 DEF Over
    <3>2. CASE q # p
      BY <1>2, <1>4, <2>1, <3>2 DEF Writers
    <3> QED BY <3>1, <3>2
  <2> QED BY <1>2, <1>5, <2>1, OverLasts
<1>6. ASSUME NEW q \in Process PROVE Sound(req[q])'
  <2>1. CASE q = p
    <3>1. Asking(r)' /\ Located(r)' /\ HasCopies(r)' /\ Granted(r)'
      BY <1>2 DEF Sound, Asking, Located, HasCopies, Granted, AsksBan
    <3>2. Late(r)'
      BY <1>2, <1>5 DEF Sound, Late
    <3> QED BY <1>4, <2>1, <3>1, <3>2 DEF Sound, Asking, Located, HasCopies, Granted, Late, AsksBan
  <2>2. CASE q # p
    <3>1. Sound(req[q])
      BY DEF GuardInv, RequestsAreSound
    <3>2. Late(req[q])'
      BY <1>2, <1>4, <1>5, <2>2, <3>1 DEF Sound, Late
    <3> QED BY <1>2, <1>4, <2>2, <3>1, <3>2 DEF Sound, Asking, Located, HasCopies, Granted, AsksBan
  <2> QED BY <2>1, <2>2
<1> QED BY <1>1, <1>3, <1>6 DEF GuardInv, RequestsAreSound

\* The same when nothing else changes.
LEMMA QuietStep ==
  ASSUME GuardInv, NEW p \in Process, NEW r \in Request,
         req' = [req EXCEPT ![p] = r], UNCHANGED <<store, world>>, Sound(r),
         r.pc \in Writing => Live(r.sid)
  PROVE  GuardInv'
<1>1. /\ WorldOK' /\ UNCHANGED <<sessions, issued, tokens, config, banned>>
      /\ cookie' \in 0..issued
  BY DEF GuardInv, TypeOK, WorldOK, store, world
<1> QED BY <1>1, StillStep

\* A request that goes on to pc with what it has.
LEMMA GotoStep ==
  ASSUME GuardInv, NEW p \in Process, NEW pc \in PC, Goto(p, pc), UNCHANGED <<store, world>>,
         req[p].pc \notin {"idle", "refused"}, pc \notin Writing,
         pc \in Checked => req[p].pc \in Checked,
         req[p].ban /\ AsksBan(req[p].entry) => pc \in {"verify", "get", "ban"},
         req[p].over => pc \in {"verify", "get"},
         req[p].route = None
  PROVE  GuardInv'
<1> DEFINE r == [req[p] EXCEPT !.pc = pc]
<1>1. req[p] \in Request /\ Sound(req[p])
  BY RequestOf DEF GuardInv, RequestsAreSound
<1>2. r \in Request
  BY <1>1 DEF Request
<1>3. req' = [req EXCEPT ![p] = r]
  BY DEF Goto
<1>4. /\ r.pc = pc /\ r.sid = req[p].sid /\ r.copy = req[p].copy /\ r.ban = req[p].ban
      /\ r.entry = req[p].entry /\ r.over = req[p].over /\ r.route = req[p].route
      /\ r.new = req[p].new
  BY <1>1 DEF Request
<1>5. Sound(r)
  BY <1>1, <1>4 DEF Sound, Located, HasCopies, Asking, Late, Granted
<1> HIDE DEF r
<1> QED BY <1>2, <1>3, <1>4, <1>5, QuietStep

LEMMA IdleStep ==
  ASSUME GuardInv, NEW p \in Process, req' = [req EXCEPT ![p] = Idle], UNCHANGED <<store, world>>
  PROVE  GuardInv'
  BY IdleIsRequest, IdleIsSound, QuietStep DEF Writing

LEMMA RefusedIsSound ==
  ASSUME GuardInv, NEW r \in Request, r.new \in 0..issued
  PROVE  Refused(r) \in Request /\ Refused(r).pc \in {"idle", "refused"} /\ Sound(Refused(r))
<1>1. CASE r.new = NoId
  BY <1>1, IdleIsRequest, IdleIsSound DEF Refused
<1>2. CASE r.new # NoId
  <2> DEFINE e == [Idle EXCEPT !.pc = "refused", !.byCookie = TRUE, !.new = r.new]
  <2>1. Refused(r) = e
    BY <1>2 DEF Refused
  <2>2. e \in Request
    BY IdleIsRequest DEF Request, PC
  <2>3. e.pc = "refused" /\ ~e.ban /\ ~e.over /\ e.route = None /\ e.new = r.new
    BY DEF Idle
  <2>4. Sound(e)
    BY <2>3 DEF Sound, Located, HasCopies, Asking, Late, Granted, Checked, Writing
  <2> QED BY <2>1, <2>2, <2>3, <2>4
<1> QED BY <1>1, <1>2

LEMMA RefuseStep ==
  ASSUME GuardInv, NEW p \in Process, Refuse(p), UNCHANGED <<store, world>>
  PROVE  GuardInv'
<1>1. req[p] \in Request /\ req[p].new \in 0..issued
  BY RequestOf DEF GuardInv, RequestsAreSound, Sound, Located
<1> QED BY <1>1, RefusedIsSound, QuietStep DEF Refuse, Writing

------------------------------------------------------------------------------
\* The actions of a request

\* What a request knows before its handler is chosen.
LEMMA Unrouted ==
  ASSUME GuardInv, NEW p \in Process, req[p].pc # "admitted"
  PROVE  req[p].route = None
  BY DEF GuardInv, RequestsAreSound, Sound, Granted

LEMMA VerifyKeeps ==
  ASSUME GuardInv, NEW p \in Process, Verify(p)
  PROVE  GuardInv'
<1>1. CASE Goto(p, "get")
  <2>1. req[p].pc = "verify" /\ UNCHANGED <<store, world>> /\ req[p].route = None
    BY Unrouted DEF Verify
  <2> QED BY <1>1, <2>1, GotoStep DEF PC, Checked, Writing
<1>2. CASE Refuse(p)
  BY <1>2, RefuseStep DEF Verify
<1> QED BY <1>1, <1>2 DEF Verify

\* A request whose login was over finds no session.
LEMMA LateFindsNothing ==
  ASSUME GuardInv, NEW p \in Process, req[p].pc \notin {"idle", "refused"}, Live(req[p].sid)
  PROVE  ~req[p].over
<1>1. Sound(req[p])
  BY DEF GuardInv, RequestsAreSound
<1> QED BY <1>1 DEF Sound, Located, Late, Over

LEMMA LiveIsSession ==
  ASSUME GuardInv, NEW i \in 1..issued, Live(i)
  PROVE  sessions[i] \in Session
  BY TokensOfIds DEF GuardInv, TypeOK, Live

LEMMA AfterBanIsStep ==
  ASSUME NEW p
  PROVE  AfterBan(p) \in {"rotGet", "renew", "authorize"}
  BY DEF AfterBan

LEMMA GetKeeps ==
  ASSUME GuardInv, NEW p \in Process, Get(p)
  PROVE  GuardInv'
<1> DEFINE s == sessions[req[p].sid]
           pc == IF AsksBan(req[p].entry) THEN "ban" ELSE AfterBan(p)
           r == [req[p] EXCEPT !.copy = s, !.pc = pc]
<1>1. req[p] \in Request /\ Sound(req[p]) /\ req[p].pc = "get" /\ UNCHANGED <<store, world>>
  BY RequestOf DEF GuardInv, RequestsAreSound, Get
<1>2. CASE Refuse(p)
  BY <1>1, <1>2, RefuseStep
<1>3. CASE /\ Live(req[p].sid)
           /\ req' = [req EXCEPT ![p].copy = s, ![p].pc = pc]
  <2>1. req[p].sid \in 1..issued /\ ~req[p].over /\ req[p].route = None
    BY <1>1, <1>3, LateFindsNothing, Unrouted DEF Sound, Located
  <2>2. s \in Session
    BY <1>3, <2>1, LiveIsSession
  <2>3. pc \in PC /\ pc \notin Writing /\ (AsksBan(req[p].entry) => pc = "ban")
    BY AfterBanIsStep DEF PC, Writing
  <2> HIDE DEF s, pc
  <2>4. r \in Request
    BY <1>1, <2>2, <2>3 DEF Request
  <2>5. req' = [req EXCEPT ![p] = r]
    BY <1>3 DEF GuardInv, TypeOK
  <2>6. /\ r.pc = pc /\ r.sid = req[p].sid /\ r.copy = s /\ r.ban = req[p].ban
        /\ r.entry = req[p].entry /\ r.over = req[p].over /\ r.route = req[p].route
        /\ r.new = req[p].new
    BY <1>1 DEF Request
  <2>7. Sound(r)
    BY <1>1, <2>1, <2>2, <2>3, <2>6 DEF Sound, Located, HasCopies, Asking, Late, Granted
  <2> HIDE DEF r
  <2> QED BY <1>1, <2>3, <2>4, <2>5, <2>6, <2>7, QuietStep
<1> QED BY <1>2, <1>3 DEF Get

LEMMA CheckBanKeeps ==
  ASSUME GuardInv, NEW p \in Process, CheckBan(p)
  PROVE  GuardInv'
<1> DEFINE pc == AfterBan(p)
           new == IF req[p].byCookie /\ ~config.random THEN req[p].sid ELSE NoId
           r == [req[p] EXCEPT !.pc = pc, !.new = new]
<1>1. req[p] \in Request /\ Sound(req[p]) /\ req[p].pc = "ban" /\ UNCHANGED <<store, world>>
  BY RequestOf DEF GuardInv, RequestsAreSound, CheckBan
<1>2. CASE Refuse(p)
  BY <1>1, <1>2, RefuseStep
<1>3. CASE /\ tokens[req[p].sid].user \notin banned
           /\ req' = [req EXCEPT ![p].pc = pc, ![p].new = new]
  <2>1. req[p].sid \in 1..issued /\ ~req[p].over /\ req[p].route = None
    BY <1>1, Unrouted DEF Sound, Located, Late
  <2>2. ~(req[p].ban /\ AsksBan(req[p].entry)) /\ req[p].copy \in Session
    BY <1>1, <1>3 DEF Sound, Asking, HasCopies, Checked
  <2>3. pc \in PC /\ pc \notin Writing
    BY AfterBanIsStep DEF PC, Writing
  <2>4. new \in 0..MaxIds /\ new \in 0..issued
    BY <1>1, <2>1, BoundsAreNaturals DEF Request, NoId, GuardInv, TypeOK
  <2> HIDE DEF pc, new
  <2>5. r \in Request
    BY <1>1, <2>3, <2>4 DEF Request
  <2>6. req' = [req EXCEPT ![p] = r]
    BY <1>3 DEF GuardInv, TypeOK
  <2>7. /\ r.pc = pc /\ r.sid = req[p].sid /\ r.copy = req[p].copy /\ r.ban = req[p].ban
        /\ r.entry = req[p].entry /\ r.over = req[p].over /\ r.route = req[p].route
        /\ r.new = new
    BY <1>1 DEF Request
  <2>8. Sound(r)
    BY <1>1, <2>1, <2>2, <2>3, <2>4, <2>7 DEF Sound, Located, HasCopies, Asking, Late, Granted
  <2> HIDE DEF r
  <2> QED BY <1>1, <2>3, <2>5, <2>6, <2>7, <2>8, QuietStep
<1> QED BY <1>2, <1>3 DEF CheckBan

\* A request past the blacklist: its login was not over, no ban it asks for lasts.
LEMMA PastTheBan ==
  ASSUME GuardInv, NEW p \in Process, req[p].pc \in Checked \ {"ban"}
  PROVE  /\ req[p] \in Request /\ Sound(req[p]) /\ req[p].sid \in 1..issued
         /\ ~(req[p].ban /\ AsksBan(req[p].entry)) /\ ~req[p].over
         /\ req[p].copy \in Session
  BY RequestOf DEF GuardInv, RequestsAreSound, Sound, Located, Asking, Late, HasCopies, Checked

LEMMA RotateGetKeeps ==
  ASSUME GuardInv, NEW p \in Process, RotateGet(p)
  PROVE  GuardInv'
<1> DEFINE i == req[p].sid
<1>1. /\ req[p] \in Request /\ Sound(req[p]) /\ i \in 1..issued /\ req[p].copy \in Session
      /\ ~(req[p].ban /\ AsksBan(req[p].entry)) /\ ~req[p].over
      /\ req[p].route = None /\ UNCHANGED <<store, world>>
  BY PastTheBan, Unrouted DEF RotateGet, Checked
<1>2. CASE Live(i) /\ req' = [req EXCEPT ![p].pc = "rotSet", ![p].data = sessions[i]]
  <2> DEFINE s == sessions[i]
             r == [req[p] EXCEPT !.pc = "rotSet", !.data = s]
  <2>1. s \in Session
    BY <1>1, <1>2, LiveIsSession
  <2>2. req' = [req EXCEPT ![p] = r]
    BY <1>2 DEF GuardInv, TypeOK
  <2> HIDE DEF s
  <2>3. r \in Request
    BY <1>1, <2>1 DEF Request, PC
  <2>4. /\ r.pc = "rotSet" /\ r.sid = i /\ r.copy = req[p].copy /\ r.ban = req[p].ban /\ r.data = s
        /\ r.entry = req[p].entry /\ r.over = req[p].over /\ r.route = req[p].route
        /\ r.new = req[p].new
    BY <1>1 DEF Request
  <2>5. Sound(r)
    BY <1>1, <2>1, <2>4 DEF Sound, Located, HasCopies, Asking, Late, Granted
  <2> HIDE DEF r
  <2> QED BY <1>1, <1>2, <2>2, <2>3, <2>4, <2>5, QuietStep
<1>3. CASE req' = [req EXCEPT ![p].pc = "authorize", ![p].new = i]
  <2> DEFINE r == [req[p] EXCEPT !.pc = "authorize", !.new = i]
  <2>1. req' = [req EXCEPT ![p] = r]
    BY <1>3 DEF GuardInv, TypeOK
  <2>2. r \in Request
    BY <1>1 DEF Request, PC
  <2>3. /\ r.pc = "authorize" /\ r.sid = i /\ r.copy = req[p].copy /\ r.ban = req[p].ban
        /\ r.entry = req[p].entry /\ r.over = req[p].over /\ r.route = req[p].route
        /\ r.new = i
    BY <1>1 DEF Request
  <2>4. Sound(r)
    BY <1>1, <2>3, TokensOfIds DEF Sound, Located, HasCopies, Asking, Late, Granted, Writing
  <2> HIDE DEF r
  <2> QED BY <1>1, <2>1, <2>2, <2>3, <2>4, QuietStep DEF Writing
<1> QED BY <1>2, <1>3 DEF RotateGet

LEMMA RenewKeeps ==
  ASSUME GuardInv, NEW p \in Process, Renew(p)
  PROVE  GuardInv'
<1>1. req[p].pc = "renew" /\ Goto(p, "authorize") /\ UNCHANGED <<store, world>>
  BY DEF Renew
<1> QED BY <1>1, PastTheBan, Unrouted, GotoStep DEF Checked, Writing, PC

LEMMA AdmitKeeps ==
  ASSUME GuardInv, NEW p \in Process, Admit(p) \/ AuthorizeAdmin(p)
  PROVE  GuardInv'
<1>1. req[p].pc = "authorize" /\ UNCHANGED <<store, world>> /\ (Goto(p, "admitted") \/ Refuse(p))
  BY DEF Admit, AuthorizeAdmin
<1>2. CASE Goto(p, "admitted")
  BY <1>1, <1>2, PastTheBan, Unrouted, GotoStep DEF Checked, Writing, PC
<1> QED BY <1>1, <1>2, RefuseStep

LEMMA AuthorizeKeeps ==
  ASSUME GuardInv, NEW p \in Process, Authorize(p)
  PROVE  GuardInv'
<1>1. req[p].pc = "authorize" /\ UNCHANGED <<store, world>>
  BY DEF Authorize
<1>2. CASE Refuse(p)
  BY <1>1, <1>2, RefuseStep
<1>3. ASSUME NEW route \in Routes, Allows(p, route),
             req' = [req EXCEPT ![p].pc = "admitted", ![p].route = route]
      PROVE  GuardInv'
  <2> DEFINE r == [req[p] EXCEPT !.pc = "admitted", !.route = route]
  <2>1. /\ req[p] \in Request /\ Sound(req[p]) /\ req[p].sid \in 1..issued
        /\ req[p].copy \in Session
        /\ ~(req[p].ban /\ AsksBan(req[p].entry)) /\ ~req[p].over
    BY <1>1, PastTheBan DEF Checked
  <2>2. req' = [req EXCEPT ![p] = r]
    BY <1>3 DEF GuardInv, TypeOK
  <2>3. r \in Request
    BY <2>1 DEF Request, PC
  <2>4. /\ r.pc = "admitted" /\ r.sid = req[p].sid /\ r.copy = req[p].copy /\ r.ban = req[p].ban
        /\ r.entry = req[p].entry /\ r.over = req[p].over /\ r.route = route
        /\ r.new = req[p].new
    BY <2>1 DEF Request
  <2>5. hasPermission(GrantsOf[req[p].copy.user], route.permissions)
    BY <1>3 DEF Allows
  <2>6. Sound(r)
    BY <2>1, <2>4, <2>5 DEF Sound, Located, HasCopies, Asking, Late, Granted, Writing
  <2> HIDE DEF r
  <2> QED BY <1>1, <2>2, <2>3, <2>4, <2>6, QuietStep DEF Writing
<1> QED BY <1>2, <1>3 DEF Authorize

LEMMA FailKeeps ==
  ASSUME GuardInv, NEW p \in Process, Fail(p)
  PROVE  GuardInv'
  BY IdleStep DEF Fail

LEMMA ReceivedKeeps ==
  ASSUME GuardInv, NEW p \in Process, NEW entry \in Entries, NEW byCookie \in BOOLEAN,
         NEW i \in 1..issued, NEW c \in Client,
         Received(p, entry, byCookie, i, c), disturbed' \in BOOLEAN
  PROVE  GuardInv'
<1> DEFINE r == [pc |-> FirstAwait,
            entry |-> entry, byCookie |-> byCookie, sid |-> i, from |-> c,
            copy |-> None, data |-> None, new |-> NoId, route |-> None,
            ban |-> tokens[i].user \in banned, over |-> Over(tokens[i].login),
            closed |-> lapsed \cup shut]
<1>1. /\ WorldOK' /\ UNCHANGED <<sessions, issued, tokens, config, banned>>
      /\ cookie' \in 0..issued
  BY DEF Received, GuardInv, TypeOK, WorldOK, store
<1>2. req' = [req EXCEPT ![p] = r]
  BY DEF Received
<1>3. FirstAwait \in {"verify", "get"}
  BY DEF FirstAwait
<1>4. r \in Request
  <2>1. i \in 0..MaxIds /\ NoId \in 0..MaxIds
    BY TokensOfIds, BoundsAreNaturals DEF NoId
  <2>2. (tokens[i].user \in banned) \in BOOLEAN /\ Over(tokens[i].login) \in BOOLEAN
    BY DEF Over
  <2>3. lapsed \cup shut \in SUBSET (1..MaxSafe)
    BY DEF GuardInv, TypeOK
  <2>4. FirstAwait \in PC
    BY <1>3 DEF PC
  <2> QED BY <2>1, <2>2, <2>3, <2>4 DEF Request
<1>5. Sound(r)
  <2>1. NoId \in 0..issued
    BY BoundsAreNaturals DEF NoId, GuardInv, TypeOK
  <2> QED BY <1>3, <2>1 DEF Sound, Located, HasCopies, Asking, Late, Granted, Checked, Writing
<1>6. r.pc \notin Writing
  BY <1>3 DEF Writing
<1> HIDE DEF r
<1> QED BY <1>1, <1>2, <1>4, <1>5, <1>6, StillStep

LEMMA ClientsOfConfig ==
  ASSUME GuardInv
  PROVE  config.clients \subseteq Client /\ config.users \subseteq User
  BY GuardAssumption DEF GuardInv, TypeOK, Config

LEMMA ArriveKeeps ==
  ASSUME GuardInv, NEW p \in Process, NEW i \in 1..issued, NEW c \in config.clients,
         \/ ArriveByHeader(p, i, c) \/ ArriveByRpc(p, i, c) \/ ArriveBySocket(p, i, c)
         \/ ArriveAtConsole(p, i, c) \/ ArriveByCallback(p, i, c)
  PROVE  GuardInv'
<1>1. c \in Client /\ disturbed' \in BOOLEAN
  BY ClientsOfConfig DEF ArriveByHeader, ArriveByRpc, ArriveBySocket, ArriveAtConsole,
     ArriveByCallback, GuardInv, TypeOK
<1>2. \E entry \in Entries : Received(p, entry, FALSE, i, c)
  BY DEF ArriveByHeader, ArriveByRpc, ArriveBySocket, ArriveAtConsole, ArriveByCallback, Entries
<1> QED BY <1>1, <1>2, ReceivedKeeps

LEMMA BeginSafeAuthKeeps ==
  ASSUME GuardInv, NEW p \in Process, NEW call \in {"open", "close"}, NEW i \in 1..issued,
         BeginSafeAuth(p, call, i)
  PROVE  GuardInv'
<1> DEFINE r == [req[p] EXCEPT !.pc = call, !.entry = call, !.sid = i]
<1>1. /\ req[p] \in Request /\ Sound(req[p]) /\ req[p].pc = "idle"
      /\ UNCHANGED <<store, world>> /\ i \in 0..MaxIds
  BY RequestOf, TokensOfIds DEF GuardInv, RequestsAreSound, BeginSafeAuth
<1>2. req' = [req EXCEPT ![p] = r]
  BY DEF GuardInv, TypeOK, BeginSafeAuth
<1>3. r \in Request
  BY <1>1 DEF Request, PC
<1>4. /\ r.pc = call /\ r.entry = call /\ r.sid = i
      /\ r.over = req[p].over /\ r.route = req[p].route /\ r.new = req[p].new
  BY <1>1 DEF Request
<1>5. ~req[p].over /\ req[p].route = None /\ req[p].new \in 0..issued
  BY <1>1 DEF Sound, Late, Granted, Located
<1>6. Sound(r)
  BY <1>4, <1>5 DEF Sound, Located, HasCopies, Asking, AsksBan, Late, Granted, Checked, Writing
<1>7. r.pc \notin Writing
  BY <1>4 DEF Writing
<1> HIDE DEF r
<1> QED BY <1>1, <1>2, <1>3, <1>6, <1>7, QuietStep

LEMMA GetForSafeAuthKeeps ==
  ASSUME GuardInv, NEW p \in Process, GetForSafeAuth(p)
  PROVE  GuardInv'
<1> DEFINE i == req[p].sid
<1>1. /\ req[p] \in Request /\ Sound(req[p]) /\ req[p].pc \in {"open", "close"}
      /\ UNCHANGED <<store, world>>
  BY RequestOf DEF GuardInv, RequestsAreSound, GetForSafeAuth
<1>2. CASE Live(i)
  <2> DEFINE s == sessions[i]
             r == [req[p] EXCEPT !.pc = "set", !.data = s]
  <2>1. i \in 1..issued /\ s \in Session
    BY <1>1, <1>2, LiveIsSession DEF Sound, Located
  <2>2. req' = [req EXCEPT ![p] = r]
    BY <1>2 DEF GuardInv, TypeOK, GetForSafeAuth
  <2> HIDE DEF s
  <2>3. r \in Request
    BY <1>1, <2>1 DEF Request, PC
  <2>4. /\ r.pc = "set" /\ r.sid = i /\ r.data = s /\ r.ban = req[p].ban
        /\ r.entry = req[p].entry /\ r.over = req[p].over /\ r.route = req[p].route
        /\ r.new = req[p].new
    BY <1>1 DEF Request
  <2>5. /\ ~req[p].over /\ req[p].route = None /\ ~(req[p].ban /\ AsksBan(req[p].entry))
        /\ req[p].new \in 0..issued
    BY <1>1 DEF Sound, Late, Granted, Asking, Located
  <2>6. Sound(r)
    BY <2>1, <2>4, <2>5 DEF Sound, Located, HasCopies, Asking, Late, Granted, Checked
  <2> HIDE DEF r
  <2> QED BY <1>1, <1>2, <2>2, <2>3, <2>4, <2>6, QuietStep
<1>3. CASE ~Live(i)
  BY <1>1, <1>3, IdleStep DEF GetForSafeAuth
<1> QED BY <1>2, <1>3

\* The response, whether it arrives or not.
LEMMA RespondKeeps ==
  ASSUME GuardInv, NEW p \in Process, Respond(p) \/ LoseResponse(p)
  PROVE  GuardInv'
<1>1. req[p] \in Request /\ req[p].new \in 0..issued
  BY RequestOf DEF GuardInv, RequestsAreSound, Sound, Located
<1>2. /\ WorldOK' /\ UNCHANGED <<sessions, issued, tokens, config, banned>>
      /\ cookie' \in 0..issued
  BY <1>1 DEF Respond, LoseResponse, GuardInv, TypeOK, WorldOK, store, Request
<1>3. req' = [req EXCEPT ![p] = Idle]
  BY DEF Respond, LoseResponse
<1> QED BY <1>2, <1>3, IdleIsRequest, IdleIsSound, StillStep DEF Writing

LEMMA ArriveByCookieKeeps ==
  ASSUME GuardInv, NEW p \in Process, NEW c \in config.clients,
         ArriveByCookie(p, c)
  PROVE  GuardInv'
<1>1. c \in Client /\ cookie \in 1..issued
  BY ClientsOfConfig DEF ArriveByCookie, NoId, GuardInv, TypeOK
<1>2. Received(p, "http", TRUE, cookie, c) /\ disturbed' \in BOOLEAN
  BY DEF ArriveByCookie, GuardInv, TypeOK
<1> QED BY <1>1, <1>2, ReceivedKeeps DEF Entries

------------------------------------------------------------------------------
\* Steps that change the store

\* The ids of a store only grow, and logins that are over stay over.
Grows ==
    /\ issued' \in issued..MaxIds
    /\ \A i \in 1..issued : tokens'[i] = tokens[i]
    /\ \A l \in 1..issued : Over(l) => Over(l)'

\* Such a step leaves alone what a request knows.
LEMMA SoundStays ==
  ASSUME GuardInv, Grows, config' = config, banned \subseteq banned', issued' \in Nat,
         NEW p \in Process, req'[p] = req[p]
  PROVE  Sound(req[p])'
<1>1. Sound(req[p])
  BY DEF GuardInv, RequestsAreSound
<1>2. issued \in Nat /\ issued <= issued'
  BY BoundsAreNaturals DEF GuardInv, TypeOK, Grows
<1>3. req[p].pc \in {"verify", "get", "ban"} =>
        tokens'[req[p].sid] = tokens[req[p].sid] /\ tokens[req[p].sid].login \in 1..issued
  BY <1>1 DEF Sound, Located, Grows, GuardInv, TokensKnown
<1>4. Located(req[p])' /\ HasCopies(req[p])' /\ Granted(req[p])'
  BY <1>1, <1>2 DEF Sound, Located, HasCopies, Granted
<1>5. Asking(req[p])'
  BY <1>1, <1>3 DEF Sound, Asking, AsksBan
<1>6. Late(req[p])'
  BY <1>1, <1>3 DEF Sound, Late, Grows
<1> QED BY <1>4, <1>5, <1>6 DEF Sound

\* A step of the environment, bans aside.
LEMMA EnvironmentStep ==
  ASSUME GuardInv, WorldOK', TokensKnown', SessionsKnown', cookie' \in 0..issued', Grows,
         config' = config, banned \subseteq banned', req' = req
  PROVE  GuardInv'
<1>1. issued' \in Nat
  BY BoundsAreNaturals DEF WorldOK
<1>2. RequestsAreSound'
  BY <1>1, SoundStays DEF RequestsAreSound
<1> QED BY <1>2 DEF GuardInv, TypeOK, WorldOK

\* A step of one request.
LEMMA WritingStep ==
  ASSUME GuardInv, WorldOK', TokensKnown', SessionsKnown', cookie' \in 0..issued', Grows,
         config' = config, banned' = banned,
         NEW p \in Process, NEW r \in Request, req' = [req EXCEPT ![p] = r], Sound(r)'
  PROVE  GuardInv'
<1>1. issued' \in Nat
  BY BoundsAreNaturals DEF WorldOK
<1>2. \A q \in Process : req'[q] = IF q = p THEN r ELSE req[q]
  BY DEF GuardInv, TypeOK
<1>3. ASSUME NEW q \in Process PROVE Sound(req[q])'
  <2>1. CASE q = p
    <3>1. req'[q] = r
      BY <1>2, <2>1
    <3> QED BY <3>1 DEF Sound, Located, HasCopies, Asking, Late, Granted, AsksBan
  <2>2. CASE q # p
    BY <1>1, <1>2, <2>2, SoundStays
  <2> QED BY <2>1, <2>2
<1>4. TypeOK'
  BY DEF GuardInv, TypeOK, WorldOK
<1> QED BY <1>3, <1>4 DEF GuardInv, RequestsAreSound

\* When sessions end and nothing is drawn, logins that are over stay over.
LEMMA EndingGrows ==
  ASSUME GuardInv, UNCHANGED <<issued, tokens>>,
         \A i \in Ids : sessions'[i] \in {sessions[i], None},
         \A q \in Writers' : q \in Writers /\ req'[q].sid = req[q].sid
  PROVE  Grows /\ TokensKnown' /\ SessionsKnown'
<1>1. issued \in Nat /\ 1..issued \subseteq Ids /\ issued' \in issued..MaxIds
  BY BoundsAreNaturals DEF GuardInv, TypeOK, Ids
<1>2. \A i \in Ids : Live(i)' => Live(i)
  BY DEF Live
<1>3. TokensKnown' /\ SessionsKnown'
  BY <1>2 DEF GuardInv, TokensKnown, SessionsKnown
<1>4. ASSUME NEW l \in 1..issued, Over(l) PROVE Over(l)'
  BY <1>1, <1>2, <1>4, OverLasts
<1> QED BY <1>1, <1>3, <1>4 DEF Grows

LEMMA LoginOfLive ==
  ASSUME GuardInv, NEW i \in Ids, Live(i)
  PROVE  i \in 1..issued /\ tokens[i].login \in Ids
  BY TokensOfIds DEF GuardInv, SessionsKnown

LEMMA EndSessionKeeps ==
  ASSUME GuardInv, NEW i \in Ids, EndSession(i)
  PROVE  GuardInv'
<1>1. /\ Live(i) /\ sessions' = [sessions EXCEPT ![i] = None]
      /\ touched' = touched \cup {tokens[i].login}
      /\ UNCHANGED <<issued, tokens, config, banned, cookie, disturbed, opened, lapsed, shut, req>>
  BY DEF EndSession
<1>2. tokens[i].login \in Ids
  BY <1>1, LoginOfLive
<1>3. WorldOK'
  BY <1>1, <1>2 DEF GuardInv, TypeOK, WorldOK
<1>4. Writers' = Writers /\ \A j \in Ids : sessions'[j] \in {sessions[j], None}
  BY <1>1 DEF Writers, GuardInv, TypeOK
<1>5. Grows /\ TokensKnown' /\ SessionsKnown'
  BY <1>1, <1>4, EndingGrows
<1>6. cookie' \in 0..issued'
  BY <1>1 DEF GuardInv
<1> QED BY <1>1, <1>3, <1>5, <1>6, EnvironmentStep

LEMMA KickUserKeeps ==
  ASSUME GuardInv, NEW u \in User, KickUser(u)
  PROVE  GuardInv'
<1> DEFINE K == {j \in Ids : Live(j) /\ sessions[j].user = u}
<1>1. /\ sessions' = [i \in Ids |-> IF Live(i) /\ sessions[i].user = u THEN None ELSE sessions[i]]
      /\ touched' = touched \cup {tokens[i].login : i \in K}
      /\ UNCHANGED <<issued, tokens, config, banned, cookie, disturbed, opened, lapsed, shut, req>>
  BY DEF KickUser
<1>2. {tokens[i].login : i \in K} \subseteq Ids
  BY LoginOfLive
<1> HIDE DEF K
<1>3. WorldOK'
  BY <1>1, <1>2 DEF GuardInv, TypeOK, WorldOK
<1>4. Writers' = Writers /\ \A j \in Ids : sessions'[j] \in {sessions[j], None}
  BY <1>1 DEF Writers, GuardInv, TypeOK
<1>5. Grows /\ TokensKnown' /\ SessionsKnown'
  BY <1>1, <1>4, EndingGrows
<1>6. cookie' \in 0..issued'
  BY <1>1 DEF GuardInv
<1> QED BY <1>1, <1>3, <1>5, <1>6, EnvironmentStep

\* rotate: the old token is deleted.
LEMMA RotateDeleteKeeps ==
  ASSUME GuardInv, NEW p \in Process, RotateDelete(p)
  PROVE  GuardInv'
<1> DEFINE i == req[p].sid
<1> PICK r : r = [req[p] EXCEPT !.pc = "authorize"]
  OBVIOUS
<1>1. /\ req[p].pc = "rotDelete" /\ sessions' = [sessions EXCEPT ![i] = None]
      /\ UNCHANGED <<issued, tokens>> /\ req' = [req EXCEPT ![p] = r]
      /\ UNCHANGED <<config, banned, cookie, disturbed, touched, opened, lapsed, shut>>
  BY DEF RotateDelete, Goto, world
<1>2. /\ req[p] \in Request /\ Sound(req[p]) /\ i \in 1..issued /\ req[p].copy \in Session
      /\ ~(req[p].ban /\ AsksBan(req[p].entry)) /\ ~req[p].over /\ req[p].route = None
  BY <1>1, PastTheBan, Unrouted DEF Checked
<1>3. r \in Request
  BY <1>2 DEF Request, PC
<1>4. /\ r.pc = "authorize" /\ r.sid = i /\ r.copy = req[p].copy /\ r.ban = req[p].ban
      /\ r.entry = req[p].entry /\ r.over = req[p].over /\ r.route = req[p].route
      /\ r.new = req[p].new
  BY <1>2 DEF Request
<1>5. Sound(r)'
  BY <1>1, <1>2, <1>4
     DEF Sound, Located, HasCopies, Asking, Late, Granted, Writing, AsksBan
<1>6. WorldOK'
  BY <1>1 DEF GuardInv, TypeOK, WorldOK
<1>7. \A q \in Process : req'[q] = IF q = p THEN r ELSE req[q]
  BY <1>1 DEF GuardInv, TypeOK
<1>8. \A q \in Writers' : q \in Writers /\ req'[q].sid = req[q].sid
  BY <1>4, <1>7 DEF Writers
<1>9. \A j \in Ids : sessions'[j] \in {sessions[j], None}
  BY <1>1 DEF GuardInv, TypeOK
<1>10. Grows /\ TokensKnown' /\ SessionsKnown'
  BY <1>1, <1>8, <1>9, EndingGrows
<1>11. cookie' \in 0..issued'
  BY <1>1 DEF GuardInv
<1> QED BY <1>1, <1>3, <1>5, <1>6, <1>10, <1>11, WritingStep

\* The same when the delete throws after its effect.
LEMMA LoseDeleteKeeps ==
  ASSUME GuardInv, NEW p \in Process, LoseDelete(p)
  PROVE  GuardInv'
<1>1. /\ req[p].pc = "rotDelete" /\ sessions' = [sessions EXCEPT ![req[p].sid] = None]
      /\ UNCHANGED <<issued, tokens>> /\ req' = [req EXCEPT ![p] = Idle]
      /\ UNCHANGED <<config, banned, cookie, touched, opened, lapsed, shut>>
      /\ disturbed' \in BOOLEAN
  BY DEF LoseDelete
<1>2. Idle \in Request /\ Idle.pc = "idle" /\ Sound(Idle)
  BY IdleIsRequest, IdleIsSound
<1>3. Sound(Idle)'
  BY <1>1, <1>2 DEF Sound, Located, HasCopies, Asking, Late, Granted, Checked, Writing, AsksBan
<1>4. WorldOK'
  BY <1>1 DEF GuardInv, TypeOK, WorldOK
<1>5. \A q \in Process : req'[q] = IF q = p THEN Idle ELSE req[q]
  BY <1>1 DEF GuardInv, TypeOK
<1>6. \A q \in Writers' : q \in Writers /\ req'[q].sid = req[q].sid
  BY <1>2, <1>5 DEF Writers
<1>7. \A j \in Ids : sessions'[j] \in {sessions[j], None}
  BY <1>1 DEF GuardInv, TypeOK
<1>8. Grows /\ TokensKnown' /\ SessionsKnown'
  BY <1>1, <1>6, <1>7, EndingGrows
<1>9. cookie' \in 0..issued'
  BY <1>1 DEF GuardInv
<1> QED BY <1>1, <1>2, <1>3, <1>4, <1>8, <1>9, WritingStep

\* rotate: the copy is stored under a new token, for a login that was not over.
LEMMA RotateSetKeeps ==
  ASSUME GuardInv, NEW p \in Process, RotateSet(p)
  PROVE  GuardInv'
<1> DEFINE i == req[p].sid
           n == issued + 1
<1> PICK r : r = [req[p] EXCEPT !.pc = "rotDelete", !.data = None, !.new = n]
  OBVIOUS
<1>1. /\ req[p].pc = "rotSet" /\ issued < MaxIds /\ issued' = n
      /\ sessions' = [sessions EXCEPT ![n] = req[p].data]
      /\ tokens' = [tokens EXCEPT ![n] = tokens[i]]
      /\ UNCHANGED <<config, banned, cookie, disturbed, touched, opened, lapsed, shut>>
  BY DEF RotateSet, world
<1>2. req' = [req EXCEPT ![p] = r]
  BY DEF RotateSet, GuardInv, TypeOK
<1>3. /\ req[p] \in Request /\ Sound(req[p]) /\ i \in 1..issued /\ req[p].copy \in Session
      /\ ~(req[p].ban /\ AsksBan(req[p].entry)) /\ ~req[p].over /\ req[p].route = None
  BY <1>1, PastTheBan, Unrouted DEF Checked
<1>4. req[p].data \in Session /\ p \in Writers
  BY <1>1, <1>3 DEF Sound, HasCopies, Writing, Writers
<1>5. /\ issued \in Nat /\ n \in Ids /\ n \in 0..MaxIds /\ n \notin 1..issued
      /\ 1..n = 1..issued \cup {n} /\ issued' \in issued..MaxIds
  BY <1>1, BoundsAreNaturals DEF GuardInv, TypeOK, Ids
<1>6. /\ i \in Ids /\ tokens[i] \in [user : User, login : Ids] \cup {None}
      /\ tokens[i] \in [user : User, login : 1..issued]
  BY <1>3, TokensOfIds DEF GuardInv, TokensKnown, TypeOK
<1> HIDE DEF n, i
<1>7. WorldOK'
  BY <1>1, <1>4, <1>5, <1>6 DEF GuardInv, TypeOK, WorldOK
<1>8. /\ \A j \in 1..issued : tokens'[j] = tokens[j] /\ Live(j)' = Live(j)
      /\ tokens'[n] = tokens[i]
  BY <1>1, <1>5 DEF GuardInv, TypeOK, Live, Ids
<1>9. TokensKnown'
  <2>1. ASSUME NEW j \in 1..issued' PROVE tokens'[j] \in [user : User, login : 1..issued']
    <3>1. tokens'[j] \in [user : User, login : 1..issued]
      BY <1>1, <1>5, <1>6, <1>8 DEF GuardInv, TokensKnown
    <3>2. 1..issued \subseteq 1..issued'
      BY <1>1, <1>5
    <3> QED BY <3>1, <3>2
  <2> QED BY <2>1 DEF TokensKnown
<1>10. SessionsKnown'
  <2>1. ASSUME NEW j \in Ids, Live(j)' PROVE j \in 1..issued'
    <3>1. j # n => Live(j)
      BY <1>1, <1>5, <2>1 DEF Live, GuardInv, TypeOK
    <3> QED BY <1>1, <1>5, <3>1 DEF GuardInv, SessionsKnown
  <2> QED BY <2>1 DEF SessionsKnown
<1>11. r \in Request
  <2>1. None \in Session \cup {None}
    OBVIOUS
  <2> QED BY <1>3, <1>5, <2>1 DEF Request, PC
<1>12. /\ r.pc = "rotDelete" /\ r.sid = i /\ r.copy = req[p].copy /\ r.ban = req[p].ban
       /\ r.entry = req[p].entry /\ r.over = req[p].over /\ r.route = req[p].route
       /\ r.new = n
  BY <1>3 DEF Request, i
<1>13. \A q \in Process : req'[q] = IF q = p THEN r ELSE req[q]
  BY <1>2 DEF GuardInv, TypeOK
<1>14. ASSUME NEW l \in 1..issued, Over(l) PROVE Over(l)'
  <2>1. tokens[i].login # l
    BY <1>4, <1>14 DEF Over, i
  <2>2. ASSUME NEW j \in 1..issued', tokens'[j].login = l
        PROVE  j \in 1..issued /\ tokens[j].login = l /\ (Live(j)' => Live(j))
    BY <1>1, <1>5, <1>8, <2>1, <2>2
  <2>3. ASSUME NEW q \in Writers', tokens'[req'[q].sid].login = l
        PROVE  q \in Writers /\ tokens[req[q].sid].login = l
    <3>1. q # p /\ q \in Process /\ req'[q] = req[q] /\ q \in Writers
      BY <1>12, <1>13, <2>3 DEF Writers
    <3>2. req[q].sid \in 1..issued
      BY <3>1 DEF Writers, GuardInv, RequestsAreSound, Sound, Located
    <3> QED BY <1>8, <2>3, <3>1, <3>2
  <2> QED BY <1>14, <2>2, <2>3, OverLasts
<1>15. Grows
  BY <1>5, <1>8, <1>14 DEF Grows
<1>16. Sound(r)'
  <2>1. i \in 1..issued' /\ n \in 0..issued'
    BY <1>1, <1>3, <1>5 DEF i
  <2> QED BY <1>1, <1>3, <1>12, <2>1
        DEF Sound, Located, HasCopies, Asking, Late, Granted, Writing, AsksBan
<1>17. cookie' \in 0..issued'
  BY <1>1, <1>5 DEF GuardInv, n
<1> QED BY <1>1, <1>2, <1>7, <1>9, <1>10, <1>11, <1>15, <1>16, <1>17, WritingStep

\* openSafeAuth and closeSafeAuth write a session back, of a login that was not over.
LEMMA SetSafeAuthKeeps ==
  ASSUME GuardInv, NEW p \in Process, SetSafeAuth(p)
  PROVE  GuardInv'
<1> DEFINE i == req[p].sid
<1> PICK s : s = Marked(p)
  OBVIOUS
<1>1. /\ req[p].pc = "set" /\ sessions' = [sessions EXCEPT ![i] = s]
      /\ req' = [req EXCEPT ![p] = Idle]
      /\ UNCHANGED <<issued, tokens, config, banned, cookie, disturbed, touched, lapsed>>
  BY DEF SetSafeAuth
<1>2. /\ req[p] \in Request /\ i \in 1..issued /\ i \in Ids /\ req[p].data \in Session
      /\ p \in Writers
  BY <1>1, RequestOf, TokensOfIds
     DEF GuardInv, RequestsAreSound, Sound, Located, HasCopies, Writing, Writers
<1>3. opened' \in 0..MaxSafe /\ (req[p].entry = "open" => opened + 1 \in 0..MaxSafe)
  BY BoundsAreNaturals DEF SetSafeAuth, GuardInv, TypeOK
<1>4. s \in Session
  BY <1>2, <1>3, BoundsAreNaturals DEF Marked, Session
<1>5. shut' \subseteq 1..MaxSafe
  <2>1. 1..opened \subseteq 1..MaxSafe /\ shut \subseteq 1..MaxSafe
    BY BoundsAreNaturals DEF GuardInv, TypeOK
  <2>2. Removed(p) \subseteq 1..opened
    BY DEF Removed
  <2>3. shut' = shut \cup Removed(p) \/ shut' = shut
    BY DEF SetSafeAuth
  <2> QED BY <2>1, <2>2, <2>3
<1>6. WorldOK'
  BY <1>1, <1>3, <1>4, <1>5 DEF GuardInv, TypeOK, WorldOK
<1>7. TokensKnown' /\ SessionsKnown' /\ cookie' \in 0..issued'
  <2>1. \A j \in Ids \ {i} : Live(j)' = Live(j)
    BY <1>1 DEF GuardInv, TypeOK, Live
  <2> QED BY <1>1, <1>2, <2>1 DEF GuardInv, TokensKnown, SessionsKnown
<1>8. \A q \in Process : req'[q] = IF q = p THEN Idle ELSE req[q]
  BY <1>1 DEF GuardInv, TypeOK
<1>9. ASSUME NEW l \in 1..issued, Over(l) PROVE Over(l)'
  <2>1. tokens[i].login # l
    BY <1>2, <1>9 DEF Over
  <2>2. ASSUME NEW j \in 1..issued', tokens'[j].login = l
        PROVE  j \in 1..issued /\ tokens[j].login = l /\ (Live(j)' => Live(j))
    <3>1. j \in 1..issued /\ tokens[j].login = l /\ j # i /\ j \in Ids
      BY <1>1, <2>1, <2>2, TokensOfIds
    <3>2. Live(j)' = Live(j)
      BY <1>1, <3>1 DEF GuardInv, TypeOK, Live
    <3> QED BY <3>1, <3>2
  <2>3. \A q \in Writers' : q \in Writers /\ req'[q] = req[q]
    <3>1. Idle.pc = "idle"
      BY IdleIsRequest
    <3> QED BY <1>8, <3>1 DEF Writers
  <2> QED BY <1>1, <1>9, <2>2, <2>3, OverLasts
<1>10. Grows
  <2>1. issued' \in issued..MaxIds
    BY <1>1, BoundsAreNaturals DEF GuardInv, TypeOK
  <2> QED BY <1>1, <1>9, <2>1 DEF Grows
<1>11. Sound(Idle)'
  <2>1. NoId \in 0..issued'
    BY <1>1, BoundsAreNaturals DEF GuardInv, TypeOK, NoId
  <2> QED BY <2>1 DEF Idle, Sound, Located, HasCopies, Asking, Late, Granted, Checked, Writing
<1> QED BY <1>1, <1>6, <1>7, <1>10, <1>11, IdleIsRequest, WritingStep

------------------------------------------------------------------------------
\* The environment

LEMMA LogInKeeps ==
  ASSUME GuardInv, NEW u \in User, NEW c \in Client, LogIn(u, c)
  PROVE  GuardInv'
<1> DEFINE n == issued + 1
           s == [user |-> u, from |-> c, safe |-> 0]
           t == [user |-> u, login |-> n]
<1>1. /\ issued < MaxIds /\ issued' = n
      /\ sessions' = [sessions EXCEPT ![n] = s] /\ tokens' = [tokens EXCEPT ![n] = t]
      /\ cookie' = n /\ disturbed' \in BOOLEAN
      /\ UNCHANGED <<config, banned, touched, opened, lapsed, shut, req>>
  BY DEF LogIn, GuardInv, TypeOK
<1>2. /\ issued \in Nat /\ n \in Ids /\ n \in 0..MaxIds /\ n \notin 1..issued
      /\ 1..n = 1..issued \cup {n} /\ issued' \in issued..MaxIds /\ cookie' \in 0..issued'
      /\ n \in 1..issued' /\ 1..issued \subseteq 1..issued'
  BY <1>1, BoundsAreNaturals DEF GuardInv, TypeOK, Ids
<1>3. s \in Session
  BY BoundsAreNaturals DEF Session
<1> HIDE DEF n, s
<1>4. t \in [user : User, login : Ids] /\ t \in [user : User, login : 1..issued'] /\ t.login = n
  BY <1>2
<1> HIDE DEF t
<1>5. WorldOK'
  BY <1>1, <1>2, <1>3, <1>4 DEF GuardInv, TypeOK, WorldOK
<1>6. /\ \A j \in 1..issued : tokens'[j] = tokens[j] /\ Live(j)' = Live(j)
      /\ tokens'[n] = t
  BY <1>1, <1>2 DEF GuardInv, TypeOK, Live, Ids
<1>7. TokensKnown'
  <2>1. ASSUME NEW j \in 1..issued' PROVE tokens'[j] \in [user : User, login : 1..issued']
    <3>1. CASE j = n
      BY <1>4, <1>6, <3>1
    <3>2. CASE j \in 1..issued
      BY <1>2, <1>6, <3>2 DEF GuardInv, TokensKnown
    <3> QED BY <1>1, <1>2, <3>1, <3>2
  <2> QED BY <2>1 DEF TokensKnown
<1>8. SessionsKnown'
  <2>1. ASSUME NEW j \in Ids, Live(j)' PROVE j \in 1..issued'
    <3>1. j # n => Live(j)
      BY <1>1, <1>2, <2>1 DEF Live, GuardInv, TypeOK
    <3> QED BY <1>2, <3>1 DEF GuardInv, SessionsKnown
  <2> QED BY <2>1 DEF SessionsKnown
<1>9. ASSUME NEW l \in 1..issued, Over(l) PROVE Over(l)'
  <2>1. ASSUME NEW j \in 1..issued', tokens'[j].login = l
        PROVE  j \in 1..issued /\ tokens[j].login = l /\ (Live(j)' => Live(j))
    BY <1>1, <1>2, <1>4, <1>6, <2>1
  <2>2. ASSUME NEW q \in Writers', tokens'[req'[q].sid].login = l
        PROVE  q \in Writers /\ tokens[req[q].sid].login = l
    <3>1. q \in Writers /\ req'[q] = req[q]
      BY <1>1, <2>2 DEF Writers
    <3>2. req[q].sid \in 1..issued
      BY <3>1 DEF Writers, GuardInv, RequestsAreSound, Sound, Located
    <3> QED BY <1>6, <2>2, <3>1, <3>2
  <2> QED BY <1>9, <2>1, <2>2, OverLasts
<1>10. Grows
  BY <1>2, <1>6, <1>9 DEF Grows
<1> QED BY <1>1, <1>2, <1>5, <1>7, <1>8, <1>10, EnvironmentStep

\* A new ban, and the end of the ttl of a safe authentication.
LEMMA BanUserKeeps ==
  ASSUME GuardInv, NEW u \in User, BanUser(u)
  PROVE  GuardInv'
<1>1. /\ UNCHANGED <<sessions, issued, tokens, config, cookie, req>> /\ banned \subseteq banned'
      /\ WorldOK'
  BY DEF BanUser, store, GuardInv, TypeOK, WorldOK
<1>2. Writers' = Writers /\ \A j \in Ids : sessions'[j] \in {sessions[j], None}
  BY <1>1 DEF Writers
<1> QED BY <1>1, <1>2, EndingGrows, EnvironmentStep DEF GuardInv

LEMMA LapseSafeAuthKeeps ==
  ASSUME GuardInv, NEW n \in 1..MaxSafe, LapseSafeAuth(n)
  PROVE  GuardInv'
<1>1. /\ UNCHANGED <<sessions, issued, tokens, config, cookie, banned, req>>
      /\ WorldOK'
  BY DEF LapseSafeAuth, store, GuardInv, TypeOK, WorldOK
<1>2. Writers' = Writers /\ \A j \in Ids : sessions'[j] \in {sessions[j], None}
  BY <1>1 DEF Writers
<1> QED BY <1>1, <1>2, EndingGrows, EnvironmentStep DEF GuardInv

\* Who waits for the blacklist with a ban that lasts is not of the user unbanned.
LEMMA UnbanUserKeeps ==
  ASSUME GuardInv, NEW u \in User, UnbanUser(u)
  PROVE  GuardInv'
<1> DEFINE of(q) == req[q].sid # NoId /\ tokens[req[q].sid].user = u
<1>1. /\ UNCHANGED <<sessions, issued, tokens, config, cookie>> /\ banned' = banned \ {u}
      /\ req' = [q \in Process |-> IF of(q) THEN [req[q] EXCEPT !.ban = FALSE] ELSE req[q]]
      /\ WorldOK'
  BY DEF UnbanUser, store, GuardInv, TypeOK, WorldOK
<1> HIDE DEF of
<1>2. ASSUME NEW q \in Process
      PROVE  /\ req'[q] \in Request /\ req'[q].pc = req[q].pc /\ req'[q].sid = req[q].sid
             /\ req'[q].copy = req[q].copy /\ req'[q].data = req[q].data
             /\ req'[q].entry = req[q].entry /\ req'[q].over = req[q].over
             /\ req'[q].route = req[q].route /\ req'[q].new = req[q].new
             /\ req'[q].ban => req[q].ban /\ ~of(q)
  <2>1. req[q] \in Request
    BY RequestOf DEF GuardInv
  <2>2. CASE of(q)
    <3>1. req'[q] = [req[q] EXCEPT !.ban = FALSE]
      BY <1>1, <2>2
    <3> QED BY <2>1, <3>1 DEF Request
  <2>3. CASE ~of(q)
    BY <1>1, <2>1, <2>3
  <2> QED BY <2>2, <2>3
<1>3. TypeOK'
  BY <1>1, <1>2 DEF WorldOK, TypeOK
<1>4. \A q \in Writers' : q \in Writers /\ req'[q].sid = req[q].sid
  BY <1>2 DEF Writers
<1>5. Grows /\ TokensKnown' /\ SessionsKnown'
  BY <1>1, <1>4, EndingGrows
<1>6. ASSUME NEW q \in Process PROVE Sound(req[q])'
  <2>1. Sound(req[q])
    BY DEF GuardInv, RequestsAreSound
  <2>2. Located(req[q])' /\ HasCopies(req[q])' /\ Granted(req[q])'
    BY <1>1, <1>2, <2>1 DEF Sound, Located, HasCopies, Granted
  <2>3. Asking(req[q])'
    <3> SUFFICES ASSUME req'[q].ban, AsksBan(req[q].entry)
                 PROVE  /\ req[q].pc \in {"verify", "get", "ban"}
                        /\ tokens[req[q].sid].user \in banned \ {u}
      BY <1>1, <1>2 DEF Asking, AsksBan
    <3>1. req[q].pc \in {"verify", "get", "ban"} /\ tokens[req[q].sid].user \in banned /\ ~of(q)
      BY <1>2, <2>1 DEF Sound, Asking
    <3>2. req[q].sid # NoId
      BY <2>1, <3>1 DEF Sound, Located, NoId
    <3> QED BY <3>1, <3>2 DEF of
  <2>4. Late(req[q])'
    <3> SUFFICES ASSUME req[q].over
                 PROVE  req[q].pc \in {"verify", "get"} /\ Over(tokens[req[q].sid].login)'
      BY <1>1, <1>2 DEF Late
    <3>1. req[q].pc \in {"verify", "get"} /\ Over(tokens[req[q].sid].login)
      BY <2>1 DEF Sound, Late
    <3>2. req[q].sid \in 1..issued
      BY <2>1, <3>1 DEF Sound, Located
    <3>3. Over(tokens[req[q].sid].login)'
      BY <1>1, <1>2, <1>5, <3>1, <3>2, TokensOfIds DEF Grows
    <3> QED BY <3>1, <3>3
  <2> QED BY <2>2, <2>3, <2>4 DEF Sound
<1>7. cookie' \in 0..issued'
  BY <1>1 DEF GuardInv
<1> QED BY <1>3, <1>5, <1>6, <1>7 DEF GuardInv, RequestsAreSound

------------------------------------------------------------------------------
\* The theorems

LEMMA InitHolds ==
  ASSUME Init
  PROVE  GuardInv
<1>1. TypeOK
  <2>1. req \in [Process -> Request]
    BY IdleIsRequest DEF Init
  <2>2. issued \in 0..MaxIds /\ cookie \in 0..MaxIds /\ opened \in 0..MaxSafe
    BY BoundsAreNaturals DEF Init, NoId
  <2>3. /\ sessions \in [Ids -> Session \cup {None}]
        /\ tokens \in [Ids -> [user : User, login : Ids] \cup {None}]
    BY DEF Init
  <2>4. /\ config \in Configs /\ banned \subseteq User /\ disturbed \in BOOLEAN
        /\ touched \subseteq Ids /\ lapsed \subseteq 1..MaxSafe /\ shut \subseteq 1..MaxSafe
    BY DEF Init
  <2> QED BY <2>1, <2>2, <2>3, <2>4 DEF TypeOK
<1>2. \A i \in Ids : ~Live(i)
  BY DEF Init, Live
<1>3. issued = 0 /\ cookie = 0 /\ \A p \in Process : req[p] = Idle
  BY DEF Init, NoId
<1>4. TokensKnown /\ SessionsKnown /\ cookie \in 0..issued
  BY <1>2, <1>3 DEF TokensKnown, SessionsKnown
<1>5. Sound(Idle)
  BY <1>3 DEF Idle, NoId, Sound, Located, HasCopies, Asking, Late, Granted, Checked, Writing
<1> QED BY <1>1, <1>3, <1>4, <1>5 DEF GuardInv, RequestsAreSound

LEMMA StutterHolds ==
  ASSUME GuardInv, UNCHANGED vars
  PROVE  GuardInv'
<1>1. UNCHANGED <<sessions, issued, tokens, config, cookie, banned, req>> /\ WorldOK'
  BY DEF vars, GuardInv, TypeOK, WorldOK
<1>2. Writers' = Writers /\ \A j \in Ids : sessions'[j] \in {sessions[j], None}
  BY <1>1 DEF Writers
<1> QED BY <1>1, <1>2, EndingGrows, EnvironmentStep DEF GuardInv

LEMMA StepHolds ==
  ASSUME GuardInv, NEW p \in Process, Step(p)
  PROVE  GuardInv'
<1>1. CASE Verify(p) \/ Get(p) \/ CheckBan(p)
  BY <1>1, VerifyKeeps, GetKeeps, CheckBanKeeps
<1>2. CASE RotateGet(p) \/ RotateSet(p) \/ RotateDelete(p) \/ Renew(p)
  BY <1>2, RotateGetKeeps, RotateSetKeeps, RotateDeleteKeeps, RenewKeeps
<1>3. CASE Authorize(p) \/ Admit(p) \/ AuthorizeAdmin(p)
  BY <1>3, AuthorizeKeeps, AdmitKeeps
<1>4. CASE Respond(p) \/ LoseResponse(p) \/ Fail(p) \/ LoseDelete(p)
  BY <1>4, RespondKeeps, FailKeeps, LoseDeleteKeeps
<1>5. CASE GetForSafeAuth(p) \/ SetSafeAuth(p)
  BY <1>5, GetForSafeAuthKeeps, SetSafeAuthKeeps
<1> QED BY <1>1, <1>2, <1>3, <1>4, <1>5 DEF Step

LEMMA EnvironmentHolds ==
  ASSUME GuardInv, Environment
  PROVE  GuardInv'
<1>1. config.clients \subseteq Client /\ config.users \subseteq User
  BY ClientsOfConfig
<1>2. ASSUME NEW u \in config.users, NEW c \in config.clients, LogIn(u, c) PROVE GuardInv'
  BY <1>1, <1>2, LogInKeeps
<1>3. ASSUME NEW u \in config.users, KickUser(u) \/ BanUser(u) \/ UnbanUser(u) PROVE GuardInv'
  BY <1>1, <1>3, KickUserKeeps, BanUserKeeps, UnbanUserKeeps
<1>4. ASSUME NEW i \in Ids, EndSession(i) PROVE GuardInv'
  BY <1>4, EndSessionKeeps
<1>5. ASSUME NEW n \in 1..MaxSafe, LapseSafeAuth(n) PROVE GuardInv'
  BY <1>5, LapseSafeAuthKeeps
<1> QED BY <1>2, <1>3, <1>4, <1>5 DEF Environment

LEMMA NextHolds ==
  ASSUME GuardInv, Next
  PROVE  GuardInv'
<1>1. ASSUME NEW p \in Process, Step(p) PROVE GuardInv'
  BY <1>1, StepHolds
<1>2. ASSUME NEW p \in Process, NEW c \in config.clients, ArriveByCookie(p, c) PROVE GuardInv'
  BY <1>2, ArriveByCookieKeeps
<1>3. ASSUME NEW p \in Process, NEW i \in 1..issued, NEW c \in config.clients,
             \/ ArriveByHeader(p, i, c) \/ ArriveByRpc(p, i, c) \/ ArriveBySocket(p, i, c)
             \/ ArriveAtConsole(p, i, c) \/ ArriveByCallback(p, i, c)
      PROVE  GuardInv'
  BY <1>3, ArriveKeeps
<1>4. ASSUME NEW p \in Process, NEW i \in 1..issued, NEW call \in {"open", "close"},
             BeginSafeAuth(p, call, i)
      PROVE  GuardInv'
  BY <1>4, BeginSafeAuthKeeps
<1>5. CASE Environment
  BY <1>5, EnvironmentHolds
<1> QED BY <1>1, <1>2, <1>3, <1>4, <1>5 DEF Next

THEOREM GuardInvHolds == Spec => []GuardInv
<1>1. Init => GuardInv
  BY InitHolds
<1>2. GuardInv /\ [Next]_vars => GuardInv'
  BY NextHolds, StutterHolds
<1> QED BY <1>1, <1>2, PTL DEF Spec

\* Type correctness of the guards and of what happens around them.
THEOREM TypeCorrect == Spec => []TypeOK
<1>1. GuardInv => TypeOK
  BY DEF GuardInv
<1> QED BY <1>1, GuardInvHolds, PTL

\* The entries that ask the blacklist let no one through whose ban was in force
\* from the arrival on (auth.guard.ts:142-148, 301-305).
THEOREM BansAreEnforced == Spec => []BanIsEnforced
<1>1. GuardInv => BanIsEnforced
  <2> SUFFICES ASSUME GuardInv, NEW p \in Admitted, AsksBan(req[p].entry)
               PROVE  ~req[p].ban
    BY DEF BanIsEnforced, AsksBan
  <2>1. p \in Process /\ req[p].pc = "admitted"
    BY DEF Admitted
  <2> QED BY <2>1 DEF GuardInv, RequestsAreSound, Sound, Asking
<1> QED BY <1>1, GuardInvHolds, PTL

\* A request that arrives after a login is over gets nowhere, whatever other
\* requests rotate, renew or write back (auth.service.ts:378-393).
THEOREM EndedLoginsAreRefused == Spec => []EndedLoginsStayOut
<1>1. GuardInv => EndedLoginsStayOut
  <2> SUFFICES ASSUME GuardInv, NEW p \in Admitted
               PROVE  ~req[p].over
    BY DEF EndedLoginsStayOut
  <2>1. p \in Process /\ req[p].pc = "admitted"
    BY DEF Admitted
  <2> QED BY <2>1 DEF GuardInv, RequestsAreSound, Sound, Late
<1> QED BY <1>1, GuardInvHolds, PTL

\* A handler runs only for a user whose grants cover all that its permissions
\* stand for (auth.guard.ts:185-190, permission.engine.ts:73-95).
THEOREM HandlersRunAsGranted == Spec => []HandlersAreGranted
<1>1. GuardInv => HandlersAreGranted
  <2> SUFFICES ASSUME GuardInv, NEW p \in Admitted, req[p].route # None,
                      NEW r \in req[p].route.permissions, NEW name \in Name, StandsFor(r, name)
               PROVE  \E g \in GrantsOf[req[p].copy.user] : StandsFor(g, name)
    BY DEF HandlersAreGranted
  <2>1. p \in Process /\ req[p].pc = "admitted" /\ Sound(req[p]) /\ req[p] \in Request
    BY RequestOf DEF Admitted, GuardInv, RequestsAreSound
  <2>2. hasPermission(GrantsOf[req[p].copy.user], req[p].route.permissions)
    BY <2>1 DEF Sound, Granted
  <2>3. req[p].copy.user \in User
    BY <2>1 DEF Sound, HasCopies, Checked, Session
  <2>4. r \in Permission
    BY <2>1, GuardAssumption DEF Request
  <2>5. PICK g \in GrantsOf[req[p].copy.user] : matchPermission(g, r)
    BY <2>2 DEF hasPermission
  <2>6. g \in Permission
    BY <2>3, <2>5, GuardAssumption
  <2> QED BY <2>4, <2>5, <2>6, MatchIsSound
<1> QED BY <1>1, GuardInvHolds, PTL

------------------------------------------------------------------------------
\* Safe authentication

\* What was over when a request arrived is over still; the mark it read is of an
\* opening that ended in the meantime or not at all.
Safe(r) ==
    /\ r.closed \subseteq lapsed \cup shut
    /\ r.pc \in Checked /\ r.copy.safe \in r.closed => r.copy.safe \in lapsed
    /\ r.route # None /\ r.route.safe => r.copy.safe \notin r.closed \cup {0}

\* An opening that was taken back is in no session and in no copy about to be written.
ShutIsGone ==
    /\ shut \subseteq 1..opened
    /\ \A i \in Ids : Live(i) => sessions[i].safe \notin shut
    /\ \A q \in Writers : req[q].data.safe \notin shut

SafeInv == ShutIsGone /\ \A p \in Process : Safe(req[p])

\* A step of one request, the openings left alone.
LEMMA SafeStep ==
  ASSUME GuardInv, SafeInv, NEW p \in Process,
         UNCHANGED <<lapsed, shut, opened>>,
         \A q \in Process \ {p} : req'[q] = req[q],
         \A i \in Ids : Live(i)' => \/ Live(i) /\ sessions'[i] = sessions[i]
                                    \/ sessions'[i].safe \notin shut,
         req'[p].pc \in Writing => req'[p].data.safe \notin shut,
         Safe(req[p])'
  PROVE  SafeInv'
<1>1. ShutIsGone'
  <2>1. ASSUME NEW i \in Ids, Live(i)' PROVE sessions'[i].safe \notin shut
    BY <2>1 DEF SafeInv, ShutIsGone
  <2>2. ASSUME NEW q \in Writers' PROVE req'[q].data.safe \notin shut
    <3>1. CASE q = p
      BY <2>2, <3>1 DEF Writers, Writing
    <3>2. CASE q # p
      BY <2>2, <3>2 DEF SafeInv, ShutIsGone, Writers
    <3> QED BY <3>1, <3>2
  <2> QED BY <2>1, <2>2 DEF SafeInv, ShutIsGone
<1>2. ASSUME NEW q \in Process PROVE Safe(req[q])'
  <2>1. CASE q # p
    BY <2>1 DEF SafeInv, Safe
  <2> QED BY <2>1
<1> QED BY <1>1, <1>2 DEF SafeInv

\* A request that keeps its copy or drops it.
LEMMA SafeKept ==
  ASSUME GuardInv, SafeInv, NEW p \in Process,
         req'[p].closed \in {req[p].closed, {}},
         req'[p].pc \in Checked => req[p].pc \in Checked /\ req'[p].copy = req[p].copy,
         req'[p].route = None, lapsed' = lapsed, shut' = shut
  PROVE  Safe(req[p])'
  BY DEF SafeInv, Safe

\* A request that becomes idle or is refused.
LEMMA SafeAtRest ==
  ASSUME GuardInv, SafeInv, NEW p \in Process, UNCHANGED <<sessions, lapsed, shut, opened>>,
         Refuse(p) \/ req' = [req EXCEPT ![p] = Idle]
  PROVE  SafeInv'
<1>1. /\ \A q \in Process \ {p} : req'[q] = req[q]
      /\ req'[p] = Refused(req[p]) \/ req'[p] = Idle
  BY DEF Refuse, GuardInv, TypeOK
<1>2. req'[p].pc \in {"idle", "refused"} /\ req'[p].closed = {} /\ req'[p].route = None
  <2>1. Idle.pc = "idle" /\ Idle.closed = {} /\ Idle.route = None
    BY DEF Idle
  <2>2. CASE req'[p] = Refused(req[p]) /\ req[p].new # NoId
    <3>1. req'[p] = [Idle EXCEPT !.pc = "refused", !.byCookie = TRUE, !.new = req[p].new]
      BY <2>2 DEF Refused
    <3> QED BY <3>1 DEF Idle
  <2> QED BY <1>1, <2>1, <2>2 DEF Refused
<1>3. Safe(req[p])'
  BY <1>2, SafeKept DEF Checked
<1> QED BY <1>1, <1>2, <1>3, SafeStep DEF Live, Writing

\* The steps between the checks, and openSafeAuth and closeSafeAuth before they write.
LEMMA ChecksAreSafe ==
  ASSUME GuardInv, SafeInv, NEW p \in Process,
         \/ Verify(p) \/ CheckBan(p) \/ RotateGet(p) \/ Renew(p) \/ Admit(p) \/ AuthorizeAdmin(p)
         \/ GetForSafeAuth(p) \/ Fail(p) \/ Respond(p) \/ LoseResponse(p)
  PROVE  SafeInv'
<1>1. UNCHANGED <<sessions, lapsed, shut, opened>>
  BY DEF Verify, CheckBan, RotateGet, Renew, Admit, AuthorizeAdmin, GetForSafeAuth, Fail,
     Respond, LoseResponse, store, world
<1>2. CASE Refuse(p) \/ req' = [req EXCEPT ![p] = Idle]
  BY <1>1, <1>2, SafeAtRest
<1> DEFINE Moved ==
      /\ \A q \in Process \ {p} : req'[q] = req[q]
      /\ req[p].pc # "admitted" /\ req'[p].closed = req[p].closed
      /\ req'[p].copy = req[p].copy /\ req'[p].route = req[p].route
      /\ req'[p].pc \in Checked => req[p].pc \in Checked
      /\ req'[p].pc \in Writing =>
            /\ req'[p].data = sessions[req[p].sid] /\ Live(req[p].sid)
            /\ req[p].pc \notin {"idle", "refused"}
<1>3. ASSUME Moved PROVE SafeInv'
  <2>1. Safe(req[p])'
    BY <1>1, <1>3, SafeKept, Unrouted
  <2>2. ASSUME req'[p].pc \in Writing PROVE req'[p].data.safe \notin shut
    <3>1. req[p].sid \in Ids
      BY <1>3, <2>2, TokensOfIds DEF GuardInv, RequestsAreSound, Sound, Located
    <3> QED BY <1>3, <2>2, <3>1 DEF SafeInv, ShutIsGone
  <2> QED BY <1>1, <1>3, <2>1, <2>2, SafeStep DEF Live
<1>4. req[p] \in Request
  BY RequestOf DEF GuardInv
<1>5. ASSUME NEW pc \in PC, Goto(p, pc), pc \notin Writing, req[p].pc # "admitted",
             pc \in Checked => req[p].pc \in Checked
      PROVE  Moved
  <2>1. req'[p] = [req[p] EXCEPT !.pc = pc] /\ \A q \in Process \ {p} : req'[q] = req[q]
    BY <1>5 DEF Goto, GuardInv, TypeOK
  <2> QED BY <1>4, <1>5, <2>1 DEF Request
<1>6. CASE Verify(p)
  <2>1. Refuse(p) \/ (Goto(p, "get") /\ req[p].pc = "verify")
    BY <1>6 DEF Verify
  <2> QED BY <1>2, <1>3, <1>5, <2>1 DEF PC, Checked, Writing
<1>7. CASE Renew(p)
  <2>1. Goto(p, "authorize") /\ req[p].pc = "renew"
    BY <1>7 DEF Renew
  <2> QED BY <1>3, <1>5, <2>1 DEF PC, Checked, Writing
<1>8. CASE Admit(p) \/ AuthorizeAdmin(p)
  <2>1. Refuse(p) \/ (Goto(p, "admitted") /\ req[p].pc = "authorize")
    BY <1>8 DEF Admit, AuthorizeAdmin
  <2> QED BY <1>2, <1>3, <1>5, <2>1 DEF PC, Checked, Writing
<1>9. CASE CheckBan(p)
  <2>1. CASE req' = [req EXCEPT ![p].pc = AfterBan(p), ![p].new =
                       IF req[p].byCookie /\ ~config.random THEN req[p].sid ELSE NoId]
    <3>1. /\ \A q \in Process \ {p} : req'[q] = req[q]
          /\ req'[p].closed = req[p].closed /\ req'[p].copy = req[p].copy
          /\ req'[p].route = req[p].route /\ req'[p].pc = AfterBan(p)
      BY <1>4, <2>1 DEF GuardInv, TypeOK, Request
    <3>2. Moved
      BY <1>9, <3>1, AfterBanIsStep DEF CheckBan, Checked, Writing
    <3> QED BY <1>3, <3>2
  <2> QED BY <1>2, <1>9, <2>1 DEF CheckBan
<1>10. CASE RotateGet(p)
  <2>1. /\ \A q \in Process \ {p} : req'[q] = req[q]
        /\ req'[p].closed = req[p].closed /\ req'[p].copy = req[p].copy
        /\ req'[p].route = req[p].route /\ req[p].pc = "rotGet"
        /\ \/ req'[p].pc = "authorize"
           \/ req'[p].pc = "rotSet" /\ Live(req[p].sid) /\ req'[p].data = sessions[req[p].sid]
    BY <1>4, <1>10 DEF RotateGet, GuardInv, TypeOK, Request
  <2>2. Moved
    BY <2>1 DEF Checked, Writing
  <2> QED BY <1>3, <2>2
<1>11. CASE GetForSafeAuth(p)
  <2>1. CASE req' = [req EXCEPT ![p].pc = "set", ![p].data = sessions[req[p].sid]]
                /\ Live(req[p].sid)
    <3>1. /\ \A q \in Process \ {p} : req'[q] = req[q]
          /\ req'[p].closed = req[p].closed /\ req'[p].copy = req[p].copy
          /\ req'[p].route = req[p].route /\ req'[p].pc = "set"
          /\ req'[p].data = sessions[req[p].sid]
      BY <1>4, <2>1 DEF GuardInv, TypeOK, Request
    <3>2. Moved
      BY <1>11, <2>1, <3>1 DEF GetForSafeAuth, Checked, Writing
    <3> QED BY <1>3, <3>2
  <2> QED BY <1>2, <1>11, <2>1 DEF GetForSafeAuth
<1>12. CASE Fail(p) \/ Respond(p) \/ LoseResponse(p)
  BY <1>2, <1>12 DEF Fail, Respond, LoseResponse
<1> QED BY <1>6, <1>7, <1>8, <1>9, <1>10, <1>11, <1>12

LEMMA ArrivalsAreSafe ==
  ASSUME GuardInv, SafeInv, NEW p \in Process,
         \/ \E entry, byCookie, i, c : Received(p, entry, byCookie, i, c)
         \/ \E call, i : BeginSafeAuth(p, call, i) /\ call \in {"open", "close"}
  PROVE  SafeInv'
<1>1. /\ UNCHANGED <<sessions, lapsed, shut, opened>> /\ req[p].pc = "idle"
      /\ \A q \in Process \ {p} : req'[q] = req[q]
  BY DEF Received, BeginSafeAuth, store, world, GuardInv, TypeOK
<1>2. CASE \E entry, byCookie, i, c : Received(p, entry, byCookie, i, c)
  <2>1. /\ req'[p].closed = lapsed \cup shut /\ req'[p].pc = FirstAwait
        /\ req'[p].route = None
    BY <1>2 DEF Received, GuardInv, TypeOK
  <2>2. req'[p].pc \notin Checked \cup Writing
    BY <2>1 DEF FirstAwait, Checked, Writing
  <2>3. Safe(req[p])'
    BY <1>1, <2>1, <2>2 DEF Safe
  <2> QED BY <1>1, <2>2, <2>3, SafeStep DEF Live
<1>3. CASE \E call, i : BeginSafeAuth(p, call, i) /\ call \in {"open", "close"}
  <2>1. req[p] \in Request
    BY RequestOf DEF GuardInv
  <2>2. PICK call, i : BeginSafeAuth(p, call, i) /\ call \in {"open", "close"}
    BY <1>3
  <2>3. req'[p] = [req[p] EXCEPT !.pc = call, !.entry = call, !.sid = i]
    BY <2>2 DEF BeginSafeAuth, GuardInv, TypeOK
  <2>4. /\ req'[p].closed = req[p].closed /\ req'[p].pc \in {"open", "close"}
        /\ req'[p].route = None
    BY <1>1, <2>1, <2>2, <2>3, Unrouted DEF Request
  <2>5. Safe(req[p])' /\ req'[p].pc \notin Writing
    BY <1>1, <2>4, SafeKept DEF Checked, Writing
  <2> QED BY <1>1, <2>5, SafeStep DEF Live
<1> QED BY <1>2, <1>3

\* validateToken reads a session that no opening taken back can be in.
LEMMA GetIsSafe ==
  ASSUME GuardInv, SafeInv, NEW p \in Process, Get(p)
  PROVE  SafeInv'
<1> DEFINE s == sessions[req[p].sid]
           pc == IF AsksBan(req[p].entry) THEN "ban" ELSE AfterBan(p)
<1>1. /\ req[p] \in Request /\ Sound(req[p]) /\ req[p].pc = "get"
      /\ UNCHANGED <<sessions, lapsed, shut, opened>> /\ req[p].route = None
  BY RequestOf, Unrouted DEF GuardInv, RequestsAreSound, Get, store, world
<1>2. CASE Refuse(p)
  BY <1>1, <1>2, SafeAtRest
<1>3. CASE Live(req[p].sid) /\ req' = [req EXCEPT ![p].copy = s, ![p].pc = pc]
  <2>1. /\ \A q \in Process \ {p} : req'[q] = req[q]
        /\ req'[p].closed = req[p].closed /\ req'[p].copy = s
        /\ req'[p].route = None /\ req'[p].pc = pc
    BY <1>1, <1>3 DEF GuardInv, TypeOK, Request
  <2>2. req[p].sid \in Ids
    BY <1>1, TokensOfIds DEF Sound, Located
  <2>3. s.safe \notin shut
    BY <1>3, <2>2 DEF SafeInv, ShutIsGone
  <2>4. Safe(req[p])'
    BY <1>1, <2>1, <2>3 DEF SafeInv, Safe
  <2>5. pc \notin Writing
    BY AfterBanIsStep DEF Writing
  <2> QED BY <1>1, <2>1, <2>4, <2>5, SafeStep DEF Live
<1> QED BY <1>2, <1>3 DEF Get

\* A route that demands safe auth is let through only while the ttl lasts.
LEMMA AuthorizeIsSafe ==
  ASSUME GuardInv, SafeInv, NEW p \in Process, Authorize(p)
  PROVE  SafeInv'
<1>1. /\ req[p] \in Request /\ req[p].pc = "authorize"
      /\ UNCHANGED <<sessions, lapsed, shut, opened>>
  BY RequestOf DEF GuardInv, Authorize, store, world
<1>2. CASE Refuse(p)
  BY <1>1, <1>2, SafeAtRest
<1>3. ASSUME NEW route \in Routes, Allows(p, route),
             req' = [req EXCEPT ![p].pc = "admitted", ![p].route = route]
      PROVE  SafeInv'
  <2>1. /\ \A q \in Process \ {p} : req'[q] = req[q]
        /\ req'[p].closed = req[p].closed /\ req'[p].copy = req[p].copy
        /\ req'[p].route = route /\ req'[p].pc = "admitted"
    BY <1>1, <1>3 DEF GuardInv, TypeOK, Request
  <2>2. route.safe => req[p].copy.safe # 0 /\ req[p].copy.safe \notin lapsed
    BY <1>3 DEF Allows, SafeAuth
  <2>3. Safe(req[p])
    BY DEF SafeInv
  <2>4. Safe(req[p])'
    BY <1>1, <2>1, <2>2, <2>3 DEF Safe, Checked
  <2> QED BY <1>1, <2>1, <2>4, SafeStep DEF Live, Writing
<1> QED BY <1>2, <1>3 DEF Authorize

LEMMA RotationIsSafe ==
  ASSUME GuardInv, SafeInv, NEW p \in Process, RotateSet(p) \/ RotateDelete(p)
  PROVE  SafeInv'
<1>1. /\ req[p] \in Request /\ UNCHANGED <<lapsed, shut, opened>>
      /\ req[p].pc \in Checked /\ req[p].route = None
  BY RequestOf, Unrouted DEF GuardInv, RotateSet, RotateDelete, world, Checked
<1>2. /\ \A q \in Process \ {p} : req'[q] = req[q]
      /\ req'[p].closed = req[p].closed /\ req'[p].copy = req[p].copy
      /\ req'[p].route = None /\ req'[p].pc \in {"rotDelete", "authorize"}
  <2>1. CASE RotateSet(p)
    BY <1>1, <2>1 DEF RotateSet, GuardInv, TypeOK, Request
  <2>2. CASE RotateDelete(p)
    BY <1>1, <2>2 DEF RotateDelete, Goto, GuardInv, TypeOK, Request
  <2> QED BY <2>1, <2>2
<1>3. Safe(req[p])'
  BY <1>1, <1>2, SafeKept
<1>4. ASSUME NEW i \in Ids, Live(i)'
      PROVE  (Live(i) /\ sessions'[i] = sessions[i]) \/ sessions'[i].safe \notin shut
  <2>1. CASE RotateSet(p)
    <3>1. req[p].data.safe \notin shut
      BY <2>1 DEF RotateSet, SafeInv, ShutIsGone, Writers
    <3> QED BY <1>4, <2>1, <3>1 DEF RotateSet, Live, GuardInv, TypeOK
  <2>2. CASE RotateDelete(p)
    BY <1>4, <2>2 DEF RotateDelete, Live, GuardInv, TypeOK
  <2> QED BY <2>1, <2>2
<1> QED BY <1>1, <1>2, <1>3, <1>4, SafeStep DEF Writing

LEMMA LoseDeleteIsSafe ==
  ASSUME GuardInv, SafeInv, NEW p \in Process, LoseDelete(p)
  PROVE  SafeInv'
<1>1. /\ UNCHANGED <<lapsed, shut, opened>>
      /\ req'[p] = Idle /\ \A q \in Process \ {p} : req'[q] = req[q]
  BY DEF LoseDelete, GuardInv, TypeOK
<1>2. Idle.pc = "idle" /\ Idle.closed = {} /\ Idle.route = None
  BY DEF Idle
<1>3. Safe(req[p])'
  BY <1>1, <1>2, SafeKept DEF Checked
<1>4. \A i \in Ids : Live(i)' => Live(i) /\ sessions'[i] = sessions[i]
  BY DEF LoseDelete, Live, GuardInv, TypeOK
<1> QED BY <1>1, <1>2, <1>3, <1>4, SafeStep DEF Writing

\* The write: a new opening, which was never taken back, or none at all, when what
\* the session carried may be gone for good.
LEMMA SetIsSafe ==
  ASSUME GuardInv, SafeInv, NEW p \in Process, SetSafeAuth(p)
  PROVE  SafeInv'
<1> DEFINE i == req[p].sid
           taken == IF req[p].entry = "close" THEN Removed(p) ELSE {}
<1>1. /\ req[p] \in Request /\ req[p].pc = "set" /\ req[p].data \in Session
      /\ i \in Ids /\ p \in Writers
  BY RequestOf, TokensOfIds
     DEF SetSafeAuth, GuardInv, RequestsAreSound, Sound, Located, HasCopies, Writing, Writers
<1>2. /\ lapsed' = lapsed /\ shut' = shut \cup taken
      /\ opened' = IF req[p].entry = "open" THEN opened + 1 ELSE opened
      /\ \A q \in Process \ {p} : req'[q] = req[q]
      /\ req'[p] = Idle
      /\ sessions'[i] = Marked(p) /\ \A j \in Ids \ {i} : sessions'[j] = sessions[j]
  BY <1>1 DEF SetSafeAuth, GuardInv, TypeOK
<1>3. opened \in Nat /\ shut \subseteq 1..opened
  BY BoundsAreNaturals DEF SafeInv, ShutIsGone, GuardInv, TypeOK
<1>4. Marked(p).safe = IF req[p].entry = "open" THEN opened + 1 ELSE 0
  BY <1>1 DEF Marked, Session
<1>5. taken \subseteq 1..opened
  BY DEF Removed
<1>6. shut' \subseteq 1..opened'
  <2>1. 1..opened \subseteq 1..opened'
    BY <1>2, <1>3
  <2> QED BY <1>2, <1>3, <1>5, <2>1
<1>7. Marked(p).safe \notin shut'
  BY <1>2, <1>3, <1>4, <1>5
<1>8. ASSUME NEW j \in Ids, Live(j)' PROVE sessions'[j].safe \notin shut'
  <2>1. CASE j = i
    BY <1>2, <1>7, <2>1
  <2>2. CASE j # i
    <3>1. Live(j) /\ sessions'[j] = sessions[j]
      BY <1>2, <1>8, <2>2 DEF Live
    <3>2. sessions[j].safe \notin shut
      BY <3>1 DEF SafeInv, ShutIsGone
    <3>3. sessions[j].safe \notin taken
      BY <2>2, <3>1 DEF Removed
    <3> QED BY <1>2, <3>1, <3>2, <3>3
  <2> QED BY <2>1, <2>2
<1>9. ASSUME NEW q \in Writers' PROVE req'[q].data.safe \notin shut'
  <2>1. q # p
    BY <1>2, IdleIsRequest DEF Writers
  <2>2. q \in Writers /\ req'[q] = req[q]
    BY <1>2, <2>1 DEF Writers
  <2>3. req[q].data.safe \notin shut
    BY <2>2 DEF SafeInv, ShutIsGone
  <2>4. req[q].data.safe \notin taken
    BY <2>1, <2>2 DEF Removed
  <2> QED BY <1>2, <2>2, <2>3, <2>4
<1>10. ASSUME NEW q \in Process PROVE Safe(req[q])'
  <2>1. CASE q = p
    BY <1>2, <2>1 DEF Safe, Idle, Checked
  <2>2. CASE q # p
    BY <1>2, <2>2 DEF SafeInv, Safe
  <2> QED BY <2>1, <2>2
<1> QED BY <1>6, <1>8, <1>9, <1>10 DEF SafeInv, ShutIsGone

LEMMA EnvironmentIsSafe ==
  ASSUME GuardInv, SafeInv, Environment \/ UNCHANGED vars
  PROVE  SafeInv'
<1> SUFFICES ASSUME \/ \E u \in config.users, c \in config.clients : LogIn(u, c)
                    \/ \E u \in config.users : KickUser(u) \/ BanUser(u) \/ UnbanUser(u)
                    \/ \E i \in Ids : EndSession(i)
                    \/ \E n \in 1..MaxSafe : LapseSafeAuth(n)
                    \/ UNCHANGED vars
             PROVE  SafeInv'
  BY DEF Environment
<1>1. shut' = shut /\ opened' = opened /\ lapsed \subseteq lapsed'
  BY DEF LogIn, KickUser, BanUser, UnbanUser, EndSession, LapseSafeAuth, vars
<1>2. ASSUME NEW i \in Ids, Live(i)' PROVE sessions'[i].safe \notin shut
  <2>1. shut \subseteq 1..opened /\ opened \in Nat
    BY BoundsAreNaturals DEF SafeInv, ShutIsGone, GuardInv, TypeOK
  <2>2. (sessions'[i] = sessions[i] /\ Live(i)) \/ sessions'[i].safe = 0
    <3>1. CASE \E u \in config.users, c \in config.clients : LogIn(u, c)
      <4>1. PICK u \in config.users, c \in config.clients :
               sessions' = [sessions EXCEPT ![issued + 1] = [user |-> u, from |-> c, safe |-> 0]]
        BY <3>1 DEF LogIn
      <4>2. sessions'[i] = sessions[i] \/ sessions'[i].safe = 0
        BY <4>1 DEF GuardInv, TypeOK
      <4> QED BY <1>2, <4>2 DEF Live
    <3>2. CASE sessions' = sessions
      BY <1>2, <3>2 DEF Live
    <3>3. CASE \/ \E u \in config.users : KickUser(u)
               \/ \E j \in Ids : EndSession(j)
      BY <1>2, <3>3 DEF KickUser, EndSession, Live, GuardInv, TypeOK
    <3> QED BY <3>1, <3>2, <3>3 DEF BanUser, UnbanUser, LapseSafeAuth, vars, store
  <2> QED BY <2>1, <2>2 DEF SafeInv, ShutIsGone
<1>3. ASSUME NEW q \in Process
      PROVE  /\ req'[q].pc = req[q].pc /\ req'[q].closed = req[q].closed
             /\ req'[q].copy = req[q].copy /\ req'[q].data = req[q].data
             /\ req'[q].route = req[q].route
  <2>1. req[q] \in Request
    BY RequestOf DEF GuardInv
  <2>2. req'[q] = req[q] \/ req'[q] = [req[q] EXCEPT !.ban = FALSE]
    BY DEF LogIn, KickUser, BanUser, UnbanUser, EndSession, LapseSafeAuth, vars
  <2> QED BY <2>1, <2>2 DEF Request
<1>4. \A q \in Writers' : req'[q].data.safe \notin shut
  BY <1>3 DEF Writers, SafeInv, ShutIsGone
<1>5. \A q \in Process : Safe(req[q])'
  BY <1>1, <1>3 DEF SafeInv, Safe
<1> QED BY <1>1, <1>2, <1>4, <1>5 DEF SafeInv, ShutIsGone

THEOREM SafeInvHolds == Spec => [](GuardInv /\ SafeInv)
<1>1. Init => SafeInv
  <2>1. Init => \A p \in Process : Safe(Idle)
    BY DEF Safe, Idle, Checked
  <2>2. Init => ShutIsGone
    BY DEF Init, ShutIsGone, Live, Writers, Idle
  <2>3. Init => \A p \in Process : req[p] = Idle
    BY DEF Init
  <2> QED BY <2>1, <2>2, <2>3 DEF SafeInv
<1>2. GuardInv /\ SafeInv /\ [Next]_vars => SafeInv'
  <2> SUFFICES ASSUME GuardInv, SafeInv, [Next]_vars PROVE SafeInv'
    OBVIOUS
  <2>1. ASSUME NEW p \in Process, Step(p) PROVE SafeInv'
    BY <2>1, ChecksAreSafe, GetIsSafe, AuthorizeIsSafe, RotationIsSafe, LoseDeleteIsSafe, SetIsSafe
       DEF Step
  <2>2. ASSUME NEW p \in Process, NEW c, ArriveByCookie(p, c) PROVE SafeInv'
    BY <2>2, ArrivalsAreSafe DEF ArriveByCookie
  <2>3. ASSUME NEW p \in Process, NEW i, NEW c,
               \/ ArriveByHeader(p, i, c) \/ ArriveByRpc(p, i, c) \/ ArriveBySocket(p, i, c)
               \/ ArriveAtConsole(p, i, c) \/ ArriveByCallback(p, i, c)
        PROVE  SafeInv'
    BY <2>3, ArrivalsAreSafe
       DEF ArriveByHeader, ArriveByRpc, ArriveBySocket, ArriveAtConsole, ArriveByCallback
  <2>4. ASSUME NEW p \in Process, NEW i, NEW call \in {"open", "close"}, BeginSafeAuth(p, call, i)
        PROVE  SafeInv'
    BY <2>4, ArrivalsAreSafe
  <2>5. CASE Environment \/ UNCHANGED vars
    BY <2>5, EnvironmentIsSafe
  <2> QED BY <2>1, <2>2, <2>3, <2>4, <2>5 DEF Next
<1> QED BY <1>1, <1>2, GuardInvHolds, PTL DEF Spec

\* A handler that demands safe auth runs only on an opening that was neither
\* closed nor past its ttl when the request arrived (auth.guard.ts:192-206,
\* auth.service.ts:608-672).
THEOREM SafeRoutesAreGuarded == Spec => []SafeRoutesNeedSafeAuth
<1>1. SafeInv => SafeRoutesNeedSafeAuth
  BY DEF SafeInv, Safe, SafeRoutesNeedSafeAuth, Admitted
<1> QED BY <1>1, SafeInvHolds, PTL

------------------------------------------------------------------------------
\* The cookie of the browser

UsesCookie(r) == r.pc # "idle" /\ r.byCookie

\* Only requests by cookie rotate, and only they get a new token.
ByCookie(r) ==
    /\ r.pc \in {"idle", "open", "close", "set"} => ~r.byCookie
    /\ r.pc \in {"rotGet", "rotSet", "rotDelete"} \/ r.new # NoId => r.byCookie

Unrenewed == {"verify", "get", "ban", "rotGet", "rotSet"}
Answered == {"authorize", "admitted", "refused"}

\* The request of the cookie is about the cookie's token, and so is its answer.
Belongs(r) ==
    /\ cookie # NoId
    /\ r.pc \notin Answered => r.sid = cookie
    /\ r.new # NoId => tokens[r.new].login = tokens[cookie].login

\* What it has in hand while the login lasts: the cookie is good as long as there
\* is no new token, the new token is when there is one.
Carries(r) ==
    /\ r.pc \in Unrenewed => r.new = NoId
    /\ r.pc \notin Answered \/ r.new = NoId => Live(cookie)
    /\ r.pc = "rotDelete" => r.new \notin {NoId, cookie}
    /\ r.new # NoId => Live(r.new)

\* The browser has had one request at a time, and nobody ended its login.
LoginLasts == cookie # NoId /\ ~disturbed /\ tokens[cookie].login \notin touched

OneAtATime == \A p, q \in Process : UsesCookie(req[p]) /\ UsesCookie(req[q]) => p = q

CookieInv ==
    /\ \A p \in Process : ByCookie(req[p])
    /\ ~disturbed => OneAtATime /\ \A p \in Process : UsesCookie(req[p]) => Belongs(req[p])
    /\ LoginLasts => (\E p \in Process : UsesCookie(req[p])) \/ Live(cookie)
    /\ LoginLasts => \A p \in Process : UsesCookie(req[p]) => Carries(req[p])

\* A step of the one request of the cookie.
LEMMA OwnStep ==
  ASSUME CookieInv, NEW p \in Process, \A q \in Process \ {p} : req'[q] = req[q],
         ByCookie(req'[p]),
         ~disturbed' => \A q \in Process \ {p} : ~UsesCookie(req[q]),
         ~disturbed' /\ UsesCookie(req'[p]) => Belongs(req[p])',
         LoginLasts' /\ UsesCookie(req'[p]) => Carries(req[p])',
         LoginLasts' => UsesCookie(req'[p]) \/ Live(cookie)'
  PROVE  CookieInv'
<1>1. \A q \in Process : ByCookie(req'[q])
  BY DEF CookieInv
<1>2. ~disturbed' => \A q \in Process : UsesCookie(req'[q]) => q = p
  BY DEF CookieInv
<1>3. LoginLasts' => ~disturbed'
  BY DEF LoginLasts
<1>4. ~disturbed' => OneAtATime' /\ \A q \in Process : UsesCookie(req'[q]) => Belongs(req[q])'
  BY <1>2 DEF OneAtATime
<1>5. LoginLasts' => \A q \in Process : UsesCookie(req'[q]) => Carries(req[q])'
  BY <1>2, <1>3
<1>6. LoginLasts' => (\E q \in Process : UsesCookie(req'[q])) \/ Live(cookie)'
  OBVIOUS
<1> QED BY <1>1, <1>4, <1>5, <1>6 DEF CookieInv, OneAtATime

\* A step that no request of the cookie takes: sessions of its login stay.
LEMMA BystanderStep ==
  ASSUME GuardInv, CookieInv, cookie' = cookie, disturbed' = disturbed, touched \subseteq touched',
         \A i \in 1..issued : tokens'[i] = tokens[i],
         \A i \in 1..issued :
             LoginLasts' /\ Live(i) /\ tokens[i].login = tokens[cookie].login => Live(i)',
         \A q \in Process : ByCookie(req'[q]),
         \A q \in Process : UsesCookie(req'[q]) <=> UsesCookie(req[q]),
         \A q \in Process : UsesCookie(req[q]) =>
             /\ req'[q].pc = req[q].pc /\ req'[q].sid = req[q].sid /\ req'[q].new = req[q].new
  PROVE  CookieInv'
<1>1. ~disturbed' => OneAtATime'
  BY DEF CookieInv, OneAtATime
<1>2. ASSUME ~disturbed', NEW q \in Process, UsesCookie(req'[q]) PROVE Belongs(req[q])'
  <2>1. Belongs(req[q]) /\ req[q].new \in 0..issued
    BY <1>2 DEF CookieInv, GuardInv, RequestsAreSound, Sound, Located
  <2>2. tokens'[cookie] = tokens[cookie]
    BY <2>1 DEF Belongs, GuardInv, TypeOK, NoId
  <2>3. req[q].new # NoId => tokens'[req[q].new] = tokens[req[q].new]
    BY <2>1 DEF NoId, GuardInv, TypeOK
  <2>4. /\ req'[q].pc = req[q].pc /\ req'[q].sid = req[q].sid /\ req'[q].new = req[q].new
    BY <1>2
  <2> QED BY <2>1, <2>2, <2>3, <2>4 DEF Belongs
<1>3. ASSUME LoginLasts'
      PROVE  /\ LoginLasts /\ cookie \in 1..issued /\ tokens'[cookie] = tokens[cookie]
             /\ Live(cookie) => Live(cookie)'
  <2>1. cookie \in 1..issued
    BY <1>3 DEF LoginLasts, GuardInv, TypeOK, NoId
  <2>2. tokens'[cookie] = tokens[cookie]
    BY <2>1
  <2>3. LoginLasts
    BY <1>3, <2>2 DEF LoginLasts
  <2>4. Live(cookie) => Live(cookie)'
    BY <1>3, <2>1 DEF Live
  <2> QED BY <2>1, <2>2, <2>3, <2>4
<1>4. ASSUME LoginLasts', NEW q \in Process, UsesCookie(req'[q]) PROVE Carries(req[q])'
  <2>1. Carries(req[q]) /\ Belongs(req[q]) /\ req[q].new \in 0..issued
    BY <1>3, <1>4 DEF CookieInv, LoginLasts, GuardInv, RequestsAreSound, Sound, Located
  <2>2. /\ req'[q].pc = req[q].pc /\ req'[q].sid = req[q].sid /\ req'[q].new = req[q].new
    BY <1>4
  <2>3. ASSUME req[q].new # NoId
        PROVE  Live(req[q].new)'
    <3>1. req[q].new \in 1..issued
      BY <2>1, <2>3 DEF NoId, GuardInv, TypeOK
    <3> QED BY <1>3, <1>4, <2>1, <2>3, <3>1 DEF Carries, Belongs, Live
  <2>4. req'[q].new # NoId => Live(req[q].new)'
    BY <2>2, <2>3 DEF Live
  <2> QED BY <1>3, <1>4, <2>1, <2>2, <2>4 DEF Carries
<1>5. LoginLasts' => (\E q \in Process : UsesCookie(req'[q])) \/ Live(cookie)'
  BY <1>3 DEF CookieInv
<1> QED BY <1>1, <1>4, <1>5, <1>2 DEF CookieInv

\* One request moves on, the rest stays.
LEMMA QuietCookie ==
  ASSUME GuardInv, CookieInv, NEW p \in Process, NEW r,
         req' = [req EXCEPT ![p] = r],
         UNCHANGED <<sessions, issued, tokens, cookie, disturbed, touched>>,
         ByCookie(r), UsesCookie(r) => UsesCookie(req[p]),
         UsesCookie(req[p]) /\ UsesCookie(r) /\ Belongs(req[p]) => Belongs(r),
         UsesCookie(req[p]) /\ UsesCookie(r) /\ Belongs(req[p]) /\ Carries(req[p]) => Carries(r),
         UsesCookie(req[p]) /\ ~UsesCookie(r) /\ Carries(req[p]) => Live(cookie)
  PROVE  CookieInv'
<1>1. req'[p] = r /\ \A q \in Process \ {p} : req'[q] = req[q]
  BY DEF GuardInv, TypeOK
<1>2. (LoginLasts' <=> LoginLasts) /\ (Live(cookie)' <=> Live(cookie))
  BY DEF LoginLasts, Live
<1>3. CASE UsesCookie(req[p])
  <2>1. ~disturbed' => \A q \in Process \ {p} : ~UsesCookie(req[q])
    BY <1>3 DEF CookieInv, OneAtATime
  <2>2. (Carries(r) => Carries(req[p])') /\ (Belongs(r) => Belongs(req[p])')
    BY <1>1 DEF Carries, Belongs, Live
  <2>3. (LoginLasts => Carries(req[p])) /\ (~disturbed => Belongs(req[p]))
    BY <1>3 DEF CookieInv
  <2>4. LoginLasts => ~disturbed
    BY DEF LoginLasts
  <2> QED BY <1>1, <1>2, <1>3, <2>1, <2>2, <2>3, <2>4, OwnStep
<1>4. CASE ~UsesCookie(req[p])
  <2>1. \A q \in Process : ByCookie(req'[q])
    BY <1>1 DEF CookieInv
  <2>2. \A q \in Process : (UsesCookie(req'[q]) <=> UsesCookie(req[q]))
    BY <1>1, <1>4
  <2>3. \A q \in Process : UsesCookie(req[q]) => req'[q] = req[q]
    BY <1>1, <1>4
  <2>4. \A i \in 1..issued : Live(i) => Live(i)'
    BY DEF Live
  <2> QED BY <2>1, <2>2, <2>3, <2>4, BystanderStep
<1> QED BY <1>3, <1>4

LEMMA ByCookieOf ==
  ASSUME CookieInv, NEW p \in Process
  PROVE  ByCookie(req[p])
  BY DEF CookieInv

LEMMA IdleIsByCookie == ByCookie(Idle) /\ ~UsesCookie(Idle)
  BY DEF ByCookie, UsesCookie, Idle

\* A request that ends before a token was renewed, or that is refused.
LEMMA RefusalKeepsCookie ==
  ASSUME GuardInv, CookieInv, NEW p \in Process,
         UNCHANGED <<sessions, issued, tokens, cookie, disturbed, touched>>,
         \/ Refuse(p)
         \/ req' = [req EXCEPT ![p] = Idle] /\ req[p].pc \notin Answered
  PROVE  CookieInv'
<1>1. CASE /\ req' = [req EXCEPT ![p] = Idle]
           /\ req[p].pc \notin Answered \/ req[p].new = NoId
  <2>1. Carries(req[p]) => Live(cookie)
    BY <1>1 DEF Carries
  <2> QED BY <1>1, <2>1, IdleIsByCookie, QuietCookie
<1>2. CASE Refuse(p) /\ req[p].new # NoId
  <2> DEFINE e == [Idle EXCEPT !.pc = "refused", !.byCookie = TRUE, !.new = req[p].new]
  <2>1. req' = [req EXCEPT ![p] = e]
    BY <1>2 DEF Refuse, Refused
  <2>2. e.pc = "refused" /\ e.byCookie /\ e.new = req[p].new
    BY DEF Idle
  <2> HIDE DEF e
  <2>3. ByCookie(e) /\ UsesCookie(e)
    BY <2>2 DEF ByCookie, UsesCookie
  <2>4. UsesCookie(req[p])
    BY <1>2, ByCookieOf DEF ByCookie, UsesCookie
  <2>5. (Carries(req[p]) => Carries(e)) /\ (Belongs(req[p]) => Belongs(e))
    BY <1>2, <2>2 DEF Carries, Belongs, Unrenewed, Answered
  <2> QED BY <2>1, <2>3, <2>4, <2>5, QuietCookie
<1> QED BY <1>1, <1>2 DEF Refuse, Refused

\* The checks of a request that read and answer.
LEMMA ChecksKeepCookie ==
  ASSUME GuardInv, CookieInv, NEW p \in Process,
         \/ Verify(p) \/ Get(p) \/ CheckBan(p) \/ RotateGet(p) \/ Renew(p)
         \/ Authorize(p) \/ Admit(p) \/ AuthorizeAdmin(p) \/ Fail(p) \/ GetForSafeAuth(p)
  PROVE  CookieInv'
<1>1. /\ req[p] \in Request /\ ByCookie(req[p])
      /\ UNCHANGED <<sessions, issued, tokens, cookie, disturbed, touched>>
  BY RequestOf, ByCookieOf
     DEF GuardInv, Verify, Get, CheckBan, RotateGet, Renew, Authorize, Admit, AuthorizeAdmin,
         Fail, GetForSafeAuth, store, world
<1>2. CASE Refuse(p)
  BY <1>1, <1>2, RefusalKeepsCookie
<1>3. CASE req' = [req EXCEPT ![p] = Idle] /\ req[p].pc \notin Answered
  BY <1>1, <1>3, RefusalKeepsCookie
\* A request that goes on to pc, with nothing else that the cookie depends on.
<1>4. ASSUME NEW r, req' = [req EXCEPT ![p] = r], req[p].pc # "idle",
             r.byCookie = req[p].byCookie, r.sid = req[p].sid, r.new = req[p].new,
             \/ req[p].pc \in {"verify", "get"} /\ r.pc \in {"get", "ban", "renew", "authorize"}
             \/ req[p].pc = "get" /\ r.pc = "rotGet" /\ r.byCookie
             \/ req[p].pc = "rotGet" /\ r.pc = "rotSet"
             \/ req[p].pc \in {"renew", "authorize"} /\ r.pc \in {"authorize", "admitted"}
             \/ req[p].pc \in {"open", "close"} /\ r.pc = "set"
      PROVE  CookieInv'
  <2>1. ByCookie(r) /\ (UsesCookie(r) => UsesCookie(req[p])) /\ (UsesCookie(req[p]) => UsesCookie(r))
    BY <1>1, <1>4 DEF ByCookie, UsesCookie
  <2>2. /\ UsesCookie(req[p]) /\ Belongs(req[p]) => Belongs(r)
        /\ UsesCookie(req[p]) /\ Carries(req[p]) => Carries(r)
    BY <1>1, <1>4 DEF Carries, Belongs, Unrenewed, Answered, UsesCookie, ByCookie
  <2> QED BY <1>1, <1>4, <2>1, <2>2, QuietCookie
<1>5. ASSUME NEW pc, Goto(p, pc),
             \/ req[p].pc = "verify" /\ pc = "get"
             \/ req[p].pc = "renew" /\ pc = "authorize"
             \/ req[p].pc = "authorize" /\ pc = "admitted"
      PROVE  CookieInv'
  <2> PICK r : r = [req[p] EXCEPT !.pc = pc]
    OBVIOUS
  <2>1. req' = [req EXCEPT ![p] = r]
    BY <1>5 DEF Goto, GuardInv, TypeOK
  <2>2. r.pc = pc /\ r.byCookie = req[p].byCookie /\ r.sid = req[p].sid /\ r.new = req[p].new
    BY <1>1 DEF Request
  <2> QED BY <1>4, <1>5, <2>1, <2>2
<1>6. CASE Verify(p)
  BY <1>2, <1>5, <1>6 DEF Verify
<1>7. CASE Renew(p)
  BY <1>5, <1>7 DEF Renew
<1>8. CASE Admit(p) \/ AuthorizeAdmin(p)
  BY <1>2, <1>5, <1>8 DEF Admit, AuthorizeAdmin
<1>9. CASE Fail(p)
  BY <1>3, <1>9 DEF Fail, Answered
<1>10. CASE Get(p)
  <2> DEFINE s == sessions[req[p].sid]
             pc == IF AsksBan(req[p].entry) THEN "ban" ELSE AfterBan(p)
  <2>1. CASE req' = [req EXCEPT ![p].copy = s, ![p].pc = pc]
    <3>1. req[p].pc = "get"
      BY <1>10 DEF Get
    <3>2. pc \in {"ban", "renew", "authorize"} \/ (pc = "rotGet" /\ req[p].byCookie)
      BY DEF AfterBan
    <3> HIDE DEF s, pc
    <3> PICK r : r = [req[p] EXCEPT !.copy = s, !.pc = pc]
      OBVIOUS
    <3>3. req' = [req EXCEPT ![p] = r]
      BY <2>1 DEF GuardInv, TypeOK
    <3>4. r.pc = pc /\ r.byCookie = req[p].byCookie /\ r.sid = req[p].sid /\ r.new = req[p].new
      BY <1>1 DEF Request
    <3> QED BY <1>4, <3>1, <3>2, <3>3, <3>4
  <2> QED BY <1>2, <1>10, <2>1 DEF Get
<1>11. CASE CheckBan(p)
  <2> DEFINE pc == AfterBan(p)
             new == IF req[p].byCookie /\ ~config.random THEN req[p].sid ELSE NoId
  <2>1. CASE req' = [req EXCEPT ![p].pc = pc, ![p].new = new]
    <3>1. req[p].pc = "ban"
      BY <1>11 DEF CheckBan
    <3>2. /\ pc \in {"renew", "authorize", "rotGet"}
          /\ pc = "rotGet" => req[p].byCookie /\ new = NoId
          /\ new # NoId => req[p].byCookie /\ new = req[p].sid
      BY DEF AfterBan
    <3> HIDE DEF pc, new
    <3> PICK r : r = [req[p] EXCEPT !.pc = pc, !.new = new]
      OBVIOUS
    <3>3. req' = [req EXCEPT ![p] = r]
      BY <2>1 DEF GuardInv, TypeOK
    <3>4. r.pc = pc /\ r.byCookie = req[p].byCookie /\ r.sid = req[p].sid /\ r.new = new
      BY <1>1 DEF Request
    <3>5. ByCookie(r) /\ (UsesCookie(r) <=> UsesCookie(req[p]))
      BY <3>1, <3>2, <3>4 DEF ByCookie, UsesCookie
    <3>6. Belongs(req[p]) => Belongs(r) /\ (Carries(req[p]) => Carries(r))
      BY <3>1, <3>2, <3>4 DEF Carries, Belongs, Unrenewed, Answered
    <3> QED BY <1>1, <3>3, <3>5, <3>6, QuietCookie
  <2> QED BY <1>2, <1>11, <2>1 DEF CheckBan
<1>12. CASE RotateGet(p)
  <2>1. req[p].pc = "rotGet"
    BY <1>12 DEF RotateGet
  <2>2. CASE req' = [req EXCEPT ![p].pc = "rotSet", ![p].data = sessions[req[p].sid]]
    <3> PICK r : r = [req[p] EXCEPT !.pc = "rotSet", !.data = sessions[req[p].sid]]
      OBVIOUS
    <3>1. req' = [req EXCEPT ![p] = r]
      BY <2>2 DEF GuardInv, TypeOK
    <3>2. r.pc = "rotSet" /\ r.byCookie = req[p].byCookie /\ r.sid = req[p].sid /\ r.new = req[p].new
      BY <1>1 DEF Request
    <3> QED BY <1>4, <2>1, <3>1, <3>2
  <2>3. CASE ~Live(req[p].sid) /\ req' = [req EXCEPT ![p].pc = "authorize", ![p].new = req[p].sid]
    <3> PICK r : r = [req[p] EXCEPT !.pc = "authorize", !.new = req[p].sid]
      OBVIOUS
    <3>1. req' = [req EXCEPT ![p] = r]
      BY <2>3 DEF GuardInv, TypeOK
    <3>2. r.pc = "authorize" /\ r.byCookie = req[p].byCookie
      BY <1>1 DEF Request
    <3>3. ByCookie(r) /\ UsesCookie(r) /\ UsesCookie(req[p])
      BY <1>1, <2>1, <3>2 DEF ByCookie, UsesCookie
    <3>4. r.new = req[p].sid
      BY <1>1 DEF Request
    <3>5. Belongs(req[p]) => Belongs(r) /\ ~Carries(req[p])
      BY <2>1, <2>3, <3>2, <3>4 DEF Carries, Belongs, Answered
    <3> QED BY <1>1, <3>1, <3>3, <3>5, QuietCookie
  <2> QED BY <1>12, <2>2, <2>3 DEF RotateGet
<1>13. CASE Authorize(p)
  <2>1. ASSUME NEW route, req' = [req EXCEPT ![p].pc = "admitted", ![p].route = route]
        PROVE  CookieInv'
    <3> PICK r : r = [req[p] EXCEPT !.pc = "admitted", !.route = route]
      OBVIOUS
    <3>1. req' = [req EXCEPT ![p] = r]
      BY <2>1 DEF GuardInv, TypeOK
    <3>2. r.pc = "admitted" /\ r.byCookie = req[p].byCookie /\ r.sid = req[p].sid /\ r.new = req[p].new
      BY <1>1 DEF Request
    <3>3. req[p].pc = "authorize"
      BY <1>13 DEF Authorize
    <3> QED BY <1>4, <3>1, <3>2, <3>3
  <2> QED BY <1>2, <1>13, <2>1 DEF Authorize
<1>14. CASE GetForSafeAuth(p)
  <2>1. req[p].pc \in {"open", "close"}
    BY <1>14 DEF GetForSafeAuth
  <2>2. CASE req' = [req EXCEPT ![p].pc = "set", ![p].data = sessions[req[p].sid]]
    <3> PICK r : r = [req[p] EXCEPT !.pc = "set", !.data = sessions[req[p].sid]]
      OBVIOUS
    <3>1. req' = [req EXCEPT ![p] = r]
      BY <2>2 DEF GuardInv, TypeOK
    <3>2. r.pc = "set" /\ r.byCookie = req[p].byCookie /\ r.sid = req[p].sid /\ r.new = req[p].new
      BY <1>1 DEF Request
    <3> QED BY <1>4, <2>1, <3>1, <3>2
  <2> QED BY <1>3, <1>14, <2>1, <2>2 DEF GetForSafeAuth, Answered
<1> QED BY <1>6, <1>7, <1>8, <1>9, <1>10, <1>11, <1>12, <1>13, <1>14

\* Rotation stores the new token before it deletes the old one.
LEMMA RotationKeepsCookie ==
  ASSUME GuardInv, CookieInv, NEW p \in Process, RotateSet(p) \/ RotateDelete(p)
  PROVE  CookieInv'
<1> DEFINE i == req[p].sid
           n == issued + 1
<1>1. /\ req[p] \in Request /\ UsesCookie(req[p]) /\ i \in 1..issued
      /\ req[p].data \in Session \/ RotateDelete(p)
      /\ UNCHANGED <<cookie, disturbed, touched>>
  BY RequestOf, ByCookieOf
     DEF GuardInv, RequestsAreSound, Sound, Located, HasCopies, Writing, RotateSet, RotateDelete,
         ByCookie, UsesCookie, world
<1>2. /\ issued \in Nat /\ 1..issued \subseteq Ids /\ n \notin 1..issued
      /\ RotateSet(p) => n \in Ids /\ n # NoId
      /\ cookie # NoId => cookie \in 1..issued
  BY BoundsAreNaturals DEF GuardInv, TypeOK, Ids, NoId, RotateSet
<1>3. ~disturbed' => \A q \in Process \ {p} : ~UsesCookie(req[q])
  BY <1>1 DEF CookieInv, OneAtATime
<1>4. \A j \in 1..issued : tokens'[j] = tokens[j]
  BY <1>2 DEF RotateSet, RotateDelete, GuardInv, TypeOK
<1>5. LoginLasts' => LoginLasts /\ cookie \in 1..issued
  BY <1>1, <1>2, <1>4 DEF LoginLasts
<1>6. (LoginLasts' => Carries(req[p])) /\ (~disturbed' => Belongs(req[p]) /\ cookie \in 1..issued)
  BY <1>1, <1>2, <1>5 DEF CookieInv, Belongs
<1>7. CASE RotateSet(p)
  <2>1. /\ req[p].pc = "rotSet"
        /\ sessions' = [sessions EXCEPT ![n] = req[p].data]
        /\ tokens' = [tokens EXCEPT ![n] = tokens[i]]
    BY <1>7 DEF RotateSet
  <2> HIDE DEF n
  <2> PICK r : r = [req[p] EXCEPT !.pc = "rotDelete", !.data = None, !.new = n]
    OBVIOUS
  <2>2. req'[p] = r /\ \A q \in Process \ {p} : req'[q] = req[q]
    BY <1>7 DEF RotateSet, GuardInv, TypeOK, n
  <2>3. r.pc = "rotDelete" /\ r.byCookie = req[p].byCookie /\ r.sid = i /\ r.new = n
    BY <1>1 DEF Request
  <2>4. ByCookie(req'[p]) /\ UsesCookie(req'[p])
    BY <1>1, <2>2, <2>3 DEF ByCookie, UsesCookie
  <2>5. /\ tokens'[n] = tokens[i] /\ sessions'[n] = req[p].data
        /\ \A j \in 1..issued : sessions'[j] = sessions[j]
    BY <1>2, <1>7, <2>1 DEF GuardInv, TypeOK
  <2>6. sessions'[n] # None
    BY <1>1, <1>7, <2>1, <2>5 DEF GuardInv, RequestsAreSound, Sound, HasCopies, Writing, Session, None
  <2>7. ~disturbed' => i = cookie /\ Belongs(req[p])'
    <3>1. ~disturbed' => i = cookie /\ tokens'[cookie] = tokens[cookie] /\ cookie # NoId
      BY <1>4, <1>6, <2>1 DEF Belongs, Answered
    <3> QED BY <1>1, <2>2, <2>3, <2>5, <3>1 DEF Belongs, Answered
  <2>8. ASSUME LoginLasts' PROVE Carries(req[p])'
    <3>1. i = cookie /\ Live(cookie)
      BY <1>6, <2>1, <2>7, <2>8 DEF Carries, Answered, LoginLasts
    <3>2. sessions'[cookie] # None /\ n # cookie
      BY <1>1, <1>2, <2>5, <3>1 DEF Live
    <3> QED BY <1>1, <1>2, <1>7, <2>2, <2>3, <2>6, <3>1, <3>2
          DEF Carries, Live, Unrenewed, Answered
  <2> QED BY <1>3, <2>2, <2>4, <2>7, <2>8, OwnStep
<1>8. CASE RotateDelete(p)
  <2>1. /\ req[p].pc = "rotDelete" /\ sessions' = [sessions EXCEPT ![i] = None]
        /\ req' = [req EXCEPT ![p].pc = "authorize"] /\ UNCHANGED <<issued, tokens>>
    BY <1>8 DEF RotateDelete, Goto
  <2> PICK r : r = [req[p] EXCEPT !.pc = "authorize"]
    OBVIOUS
  <2>2. req'[p] = r /\ \A q \in Process \ {p} : req'[q] = req[q]
    BY <2>1 DEF GuardInv, TypeOK
  <2>3. r.pc = "authorize" /\ r.byCookie = req[p].byCookie /\ r.sid = i /\ r.new = req[p].new
    BY <1>1 DEF Request
  <2>4. ByCookie(req'[p]) /\ UsesCookie(req'[p])
    BY <1>1, <2>2, <2>3 DEF ByCookie, UsesCookie
  <2>5. ~disturbed' => Belongs(req[p])'
    BY <1>1, <1>6, <2>1, <2>2, <2>3 DEF Belongs, Answered
  <2>6. ASSUME LoginLasts' PROVE Carries(req[p])'
    <3>1. /\ i = cookie /\ req[p].new \notin {NoId, cookie} /\ Live(req[p].new)
      BY <1>6, <2>1, <2>6 DEF Carries, Belongs, Answered, LoginLasts
    <3>2. req[p].new \in Ids
      BY <1>1, <3>1 DEF Request, Ids, NoId
    <3>3. sessions'[req[p].new] = sessions[req[p].new]
      BY <2>1, <3>1, <3>2 DEF GuardInv, TypeOK
    <3> QED BY <1>1, <2>1, <2>2, <2>3, <3>1, <3>3 DEF Carries, Live, Unrenewed, Answered
  <2> QED BY <1>3, <2>2, <2>4, <2>5, <2>6, OwnStep
<1> QED BY <1>7, <1>8

\* The response: the browser keeps the cookie it has, or the new one.
LEMMA ResponseKeepsCookie ==
  ASSUME GuardInv, CookieInv, NEW p \in Process, Respond(p) \/ LoseResponse(p)
  PROVE  CookieInv'
<1>1. /\ req'[p] = Idle /\ \A q \in Process \ {p} : req'[q] = req[q]
      /\ UNCHANGED <<sessions, issued, tokens, touched>> /\ (disturbed => disturbed')
      /\ req[p].pc \in {"admitted", "refused"}
  BY DEF Respond, LoseResponse, store, GuardInv, TypeOK
<1>2. CASE UsesCookie(req[p])
  <2>1. ~disturbed' => \A q \in Process \ {p} : ~UsesCookie(req[q])
    BY <1>1, <1>2 DEF CookieInv, OneAtATime
  <2>2. ASSUME LoginLasts' PROVE Live(cookie)'
    <3>1. ~disturbed' /\ Respond(p) /\ disturbed' = disturbed
      BY <2>2 DEF LoginLasts, LoseResponse, Respond
    <3>2. cookie' = IF req[p].new # NoId THEN req[p].new ELSE cookie
      BY <3>1 DEF Respond
    <3>3. Belongs(req[p])
      BY <1>2, <3>1 DEF CookieInv
    <3>4. cookie # NoId /\ tokens'[cookie'].login = tokens[cookie].login
      BY <1>1, <3>2, <3>3 DEF Belongs
    <3>5. LoginLasts
      BY <1>1, <2>2, <3>1, <3>4 DEF LoginLasts
    <3>6. Carries(req[p])
      BY <1>2, <3>5 DEF CookieInv
    <3> QED BY <1>1, <3>2, <3>6 DEF Carries, Live
  <2> QED BY <1>1, <2>1, <2>2, IdleIsByCookie, OwnStep
<1>3. CASE ~UsesCookie(req[p])
  <2>1. req[p].new = NoId
    BY <1>1, <1>3, ByCookieOf DEF ByCookie, UsesCookie
  <2>2. req' = [req EXCEPT ![p] = Idle] /\ UNCHANGED <<cookie, disturbed>>
    BY <2>1 DEF Respond, LoseResponse
  <2> QED BY <1>1, <1>3, <2>2, IdleIsByCookie, QuietCookie
<1> QED BY <1>2, <1>3

\* A delete whose answer is lost disturbs the browser.
LEMMA LoseDeleteKeepsCookie ==
  ASSUME GuardInv, CookieInv, NEW p \in Process, LoseDelete(p)
  PROVE  CookieInv'
<1>1. /\ disturbed' = TRUE /\ req'[p] = Idle
      /\ \A q \in Process \ {p} : req'[q] = req[q]
  BY DEF LoseDelete, GuardInv, TypeOK
<1> QED BY <1>1, IdleIsByCookie DEF CookieInv, LoginLasts

\* What a request is when its token arrives.
NewRequest(entry, byCookie, i, c) ==
    [pc |-> FirstAwait,
     entry |-> entry, byCookie |-> byCookie, sid |-> i, from |-> c,
     copy |-> None, data |-> None, new |-> NoId, route |-> None,
     ban |-> tokens[i].user \in banned, over |-> Over(tokens[i].login),
     closed |-> lapsed \cup shut]

\* A token arrives; a second request of the browser disturbs it.
LEMMA ArrivalsKeepCookie ==
  ASSUME GuardInv, CookieInv, NEW p \in Process,
         \/ \E entry, i, c : Received(p, entry, FALSE, i, c) /\ disturbed' = disturbed
         \/ \E c : ArriveByCookie(p, c)
         \/ \E call, i : BeginSafeAuth(p, call, i) /\ call \in {"open", "close"}
  PROVE  CookieInv'
<1>1. /\ req[p] \in Request /\ ByCookie(req[p]) /\ req[p].pc = "idle"
      /\ \A q \in Process \ {p} : req'[q] = req[q]
      /\ UNCHANGED <<sessions, issued, tokens, cookie, touched>>
  BY RequestOf, ByCookieOf
     DEF GuardInv, TypeOK, Received, ArriveByCookie, BeginSafeAuth, store, world
<1>2. FirstAwait \in {"verify", "get"}
  BY DEF FirstAwait
<1>3. ASSUME NEW entry, NEW i, NEW c, Received(p, entry, FALSE, i, c), disturbed' = disturbed
      PROVE  CookieInv'
  <2> PICK r : r = NewRequest(entry, FALSE, i, c)
    OBVIOUS
  <2>1. /\ req' = [req EXCEPT ![p] = r]
        /\ r.pc \in {"verify", "get"} /\ r.byCookie = FALSE /\ r.new = NoId
    BY <1>2, <1>3 DEF Received, NewRequest
  <2>2. ByCookie(r) /\ ~UsesCookie(r) /\ ~UsesCookie(req[p])
    BY <1>1, <2>1 DEF ByCookie, UsesCookie
  <2> QED BY <1>1, <1>3, <2>1, <2>2, QuietCookie
<1>4. ASSUME NEW c, ArriveByCookie(p, c)
      PROVE  CookieInv'
  <2>1. /\ Received(p, "http", TRUE, cookie, c) /\ cookie # NoId
        /\ disturbed' = (disturbed \/ \E q \in Process : CookieRequest(q))
    BY <1>4 DEF ArriveByCookie
  <2> PICK r : r = NewRequest("http", TRUE, cookie, c)
    OBVIOUS
  <2>2. /\ req' = [req EXCEPT ![p] = r]
        /\ r.pc \in {"verify", "get"} /\ r.byCookie = TRUE
        /\ r.sid = cookie /\ r.new = NoId
    BY <1>2, <2>1 DEF Received, NewRequest
  <2>3. req'[p] = r
    BY <2>2 DEF GuardInv, TypeOK
  <2>4. ByCookie(req'[p]) /\ UsesCookie(req'[p])
    BY <2>2, <2>3 DEF ByCookie, UsesCookie
  <2>5. ~disturbed' => ~disturbed /\ \A q \in Process : ~UsesCookie(req[q])
    BY <2>1 DEF CookieRequest, UsesCookie
  <2>6. Belongs(req[p])'
    BY <1>1, <2>1, <2>2, <2>3 DEF Belongs
  <2>7. LoginLasts' => Carries(req[p])'
    <3>1. LoginLasts' => ~disturbed' /\ LoginLasts
      BY <1>1, <2>5 DEF LoginLasts
    <3>2. LoginLasts' => Live(cookie)
      BY <2>5, <3>1 DEF CookieInv
    <3> QED BY <1>1, <2>2, <2>3, <3>2 DEF Carries, Live
  <2> QED BY <1>1, <2>4, <2>5, <2>6, <2>7, OwnStep
<1>5. ASSUME NEW call \in {"open", "close"}, NEW i, BeginSafeAuth(p, call, i)
      PROVE  CookieInv'
  <2> PICK r : r = [req[p] EXCEPT !.pc = call, !.entry = call, !.sid = i]
    OBVIOUS
  <2>1. req' = [req EXCEPT ![p] = r] /\ disturbed' = disturbed
    BY <1>5 DEF BeginSafeAuth, world, GuardInv, TypeOK
  <2>2. r.pc = call /\ r.byCookie = req[p].byCookie /\ r.new = req[p].new
    BY <1>1 DEF Request
  <2>3. ByCookie(r) /\ ~UsesCookie(r) /\ ~UsesCookie(req[p])
    BY <1>1, <2>2 DEF ByCookie, UsesCookie
  <2> QED BY <1>1, <2>1, <2>3, QuietCookie
<1> QED BY <1>3, <1>4, <1>5

\* openSafeAuth and closeSafeAuth leave a session where they found one.
LEMMA SetKeepsCookie ==
  ASSUME GuardInv, CookieInv, NEW p \in Process, SetSafeAuth(p)
  PROVE  CookieInv'
<1>1. /\ req[p] \in Request /\ ByCookie(req[p]) /\ req[p].data \in Session
      /\ req[p].pc = "set" /\ req'[p] = Idle /\ \A q \in Process \ {p} : req'[q] = req[q]
      /\ UNCHANGED <<issued, tokens, cookie, disturbed, touched>>
      /\ \A i \in Ids : sessions'[i] = sessions[i] \/ sessions'[i] = Marked(p)
  BY RequestOf, ByCookieOf
     DEF GuardInv, TypeOK, RequestsAreSound, Sound, HasCopies, Writing, SetSafeAuth
<1>2. \A q \in Process : ByCookie(req'[q])
  BY <1>1, IdleIsByCookie DEF CookieInv
<1>3. ~UsesCookie(req[p])
  BY <1>1 DEF ByCookie, UsesCookie
<1>4. /\ \A q \in Process : UsesCookie(req'[q]) <=> UsesCookie(req[q])
      /\ \A q \in Process : UsesCookie(req[q]) => req'[q] = req[q]
  BY <1>1, <1>3, IdleIsByCookie
<1>5. Marked(p) # None
  BY <1>1 DEF Marked, Session, None
<1>6. \A i \in 1..issued : Live(i) => Live(i)'
  BY <1>1, <1>5, TokensOfIds DEF Live
<1> QED BY <1>1, <1>2, <1>4, <1>6, BystanderStep

\* Nobody but a login touches the cookie; sessions that end are of logins touched.
LEMMA EnvironmentKeepsCookie ==
  ASSUME GuardInv, CookieInv, Environment \/ UNCHANGED vars
  PROVE  CookieInv'
<1>1. ASSUME NEW u, NEW c, LogIn(u, c) PROVE CookieInv'
  <2>1. /\ req' = req /\ cookie' = issued + 1 /\ sessions'[issued + 1] # None
        /\ disturbed' = (disturbed \/ \E p \in Process : CookieRequest(p))
    <3> DEFINE s == [user |-> u, from |-> c, safe |-> 0]
    <3>1. s # None
      BY DEF None
    <3>2. issued + 1 \in Ids
      BY <1>1, BoundsAreNaturals DEF LogIn, GuardInv, TypeOK, Ids
    <3> QED BY <1>1, <3>1, <3>2 DEF LogIn, GuardInv, TypeOK
  <2>2. ~disturbed' => ~disturbed /\ \A p \in Process : ~UsesCookie(req[p])
    BY <2>1 DEF CookieRequest, UsesCookie
  <2>3. LoginLasts' => ~disturbed' /\ Live(cookie)'
    BY <2>1 DEF LoginLasts, Live
  <2> QED BY <2>1, <2>2, <2>3 DEF CookieInv, OneAtATime
\* The other steps keep what the cookie and its request depend on.
<1>2. ASSUME UNCHANGED <<issued, tokens, cookie, disturbed>>, touched \subseteq touched',
             \A i \in 1..issued : Live(i) => Live(i)' \/ tokens[i].login \in touched',
             \A q \in Process : /\ req'[q].pc = req[q].pc /\ req'[q].byCookie = req[q].byCookie
                                /\ req'[q].sid = req[q].sid /\ req'[q].new = req[q].new
      PROVE  CookieInv'
  <2>1. \A q \in Process : ByCookie(req'[q]) /\ (UsesCookie(req'[q]) <=> UsesCookie(req[q]))
    BY <1>2 DEF CookieInv, ByCookie, UsesCookie
  <2>2. \A i \in 1..issued :
            LoginLasts' /\ Live(i) /\ tokens[i].login = tokens[cookie].login => Live(i)'
    BY <1>2 DEF LoginLasts
  <2> QED BY <1>2, <2>1, <2>2, BystanderStep
<1>3. ASSUME NEW u, KickUser(u) PROVE CookieInv'
  <2>1. /\ UNCHANGED <<issued, tokens, cookie, disturbed, req>>
        /\ sessions' = [i \in Ids |-> IF Live(i) /\ sessions[i].user = u THEN None ELSE sessions[i]]
        /\ touched' = touched \cup {tokens[i].login : i \in {j \in Ids : Live(j) /\ sessions[j].user = u}}
    BY <1>3 DEF KickUser
  <2>2. ASSUME NEW i \in 1..issued, Live(i) PROVE Live(i)' \/ tokens[i].login \in touched'
    BY <2>1, <2>2, TokensOfIds DEF Live
  <2> QED BY <1>2, <2>1, <2>2
<1>4. ASSUME NEW i \in Ids, EndSession(i) PROVE CookieInv'
  <2>1. ASSUME NEW j \in 1..issued, Live(j) PROVE Live(j)' \/ tokens[j].login \in touched'
    BY <1>4, <2>1, TokensOfIds DEF EndSession, Live, GuardInv, TypeOK
  <2> QED BY <1>2, <1>4, <2>1 DEF EndSession
<1>5. ASSUME NEW u, UnbanUser(u) PROVE CookieInv'
  <2>1. UNCHANGED <<sessions, issued, tokens, cookie, disturbed, touched>>
    BY <1>5 DEF UnbanUser, store
  <2>2. ASSUME NEW q \in Process
        PROVE  /\ req'[q].pc = req[q].pc /\ req'[q].byCookie = req[q].byCookie
               /\ req'[q].sid = req[q].sid /\ req'[q].new = req[q].new
    <3>1. req[q] \in Request
      BY RequestOf DEF GuardInv
    <3>2. req'[q] = req[q] \/ req'[q] = [req[q] EXCEPT !.ban = FALSE]
      BY <1>5 DEF UnbanUser
    <3> QED BY <3>1, <3>2 DEF Request
  <2> QED BY <1>2, <2>1, <2>2 DEF Live
<1>6. CASE \/ \E u : BanUser(u)
           \/ \E n : LapseSafeAuth(n)
           \/ UNCHANGED vars
  <2>1. UNCHANGED <<sessions, issued, tokens, cookie, disturbed, touched, req>>
    BY <1>6 DEF BanUser, LapseSafeAuth, vars, store
  <2> QED BY <1>2, <2>1 DEF Live
<1> QED BY <1>1, <1>3, <1>4, <1>5, <1>6 DEF Environment

THEOREM CookieInvHolds == Spec => [](GuardInv /\ CookieInv)
<1>1. Init => CookieInv
  <2> SUFFICES ASSUME Init PROVE CookieInv
    OBVIOUS
  <2>1. \A p \in Process : ByCookie(req[p]) /\ ~UsesCookie(req[p])
    BY IdleIsByCookie DEF Init
  <2>2. ~LoginLasts
    BY DEF Init, LoginLasts
  <2> QED BY <2>1, <2>2 DEF CookieInv, OneAtATime
<1>2. GuardInv /\ CookieInv /\ [Next]_vars => CookieInv'
  <2> SUFFICES ASSUME GuardInv, CookieInv, [Next]_vars PROVE CookieInv'
    OBVIOUS
  <2>1. ASSUME NEW p \in Process, Step(p) PROVE CookieInv'
    BY <2>1, ChecksKeepCookie, RotationKeepsCookie, ResponseKeepsCookie, LoseDeleteKeepsCookie,
       SetKeepsCookie DEF Step
  <2>2. ASSUME NEW p \in Process, NEW c, ArriveByCookie(p, c) PROVE CookieInv'
    BY <2>2, ArrivalsKeepCookie
  <2>3. ASSUME NEW p \in Process, NEW i, NEW c,
               \/ ArriveByHeader(p, i, c) \/ ArriveByRpc(p, i, c) \/ ArriveBySocket(p, i, c)
               \/ ArriveAtConsole(p, i, c) \/ ArriveByCallback(p, i, c)
        PROVE  CookieInv'
    BY <2>3, ArrivalsKeepCookie
       DEF ArriveByHeader, ArriveByRpc, ArriveBySocket, ArriveAtConsole, ArriveByCallback
  <2>4. ASSUME NEW p \in Process, NEW i, NEW call \in {"open", "close"}, BeginSafeAuth(p, call, i)
        PROVE  CookieInv'
    BY <2>4, ArrivalsKeepCookie
  <2>5. CASE Environment \/ UNCHANGED vars
    BY <2>5, EnvironmentKeepsCookie
  <2> QED BY <2>1, <2>2, <2>3, <2>4, <2>5 DEF Next
<1> QED BY <1>1, <1>2, GuardInvHolds, PTL DEF Spec

\* The browser's cookie is good for as long as its login is, whatever fails in
\* between: rotation stores the new token before it deletes the old one
\* (random-token.strategy.ts:150-169, auth.guard.ts:154-158).
THEOREM CookiesStayUsable == Spec => []CookieStaysUsable
<1>1. CookieInv => CookieStaysUsable
  BY DEF CookieInv, CookieStaysUsable, LoginLasts, CookieRequest, UsesCookie
<1> QED BY <1>1, CookieInvHolds, PTL

------------------------------------------------------------------------------
\* Bans where every entry asks

\* The application takes requests only where the blacklist is asked.
EveryEntryAsks ==
    \A c \in Configs :
        c.calls \cap {"ws", "admin", "sso"} = {} /\ ("http" \in c.calls => ~c.random)

\* Where a request can be after its call.
Served == PC \ {"idle", "refused", "open", "close", "set"}

\* A request under way came by an entry the application makes use of.
Called(r) == r.pc \in Served => r.entry \in Entries \cap config.calls

EntriesAreCalled == \A p \in Process : Called(req[p])

LEMMA IdleIsCalled ==
  ASSUME NEW r
  PROVE  Called(Idle) /\ Called(Refused(r)) /\ Called(Idle)' /\ Called(Refused(r))'
<1>1. Idle.pc \notin Served
  BY DEF Idle, Served
<1>2. Refused(r).pc \notin Served
  BY <1>1 DEF Refused, Served, Idle
<1> QED BY <1>1, <1>2 DEF Called

\* One request moves on to r.
LEMMA OneIsCalled ==
  ASSUME TypeOK, EntriesAreCalled, NEW p \in Process, NEW r, req' = [req EXCEPT ![p] = r],
         UNCHANGED config, Called(r)
  PROVE  EntriesAreCalled'
<1>1. \A q \in Process : req'[q] = IF q = p THEN r ELSE req[q]
  BY DEF TypeOK
<1> QED BY <1>1 DEF EntriesAreCalled, Called

\* The same when r keeps the entry of the request it was, or is of none.
LEMMA EntryStays ==
  ASSUME TypeOK, EntriesAreCalled, NEW p \in Process, NEW r, req' = [req EXCEPT ![p] = r],
         UNCHANGED config, req[p].pc \in Served \/ r.pc \notin Served,
         r.entry = req[p].entry
  PROVE  EntriesAreCalled'
<1>1. Called(req[p])
  BY DEF EntriesAreCalled
<1>2. Called(r)
  BY <1>1 DEF Called
<1> QED BY <1>2, OneIsCalled

LEMMA GotoIsCalled ==
  ASSUME TypeOK, EntriesAreCalled, NEW p \in Process, NEW pc, Goto(p, pc), UNCHANGED config,
         req[p].pc \in Served
  PROVE  EntriesAreCalled'
<1> DEFINE r == [req[p] EXCEPT !.pc = pc]
<1>1. req' = [req EXCEPT ![p] = r] /\ r.entry = req[p].entry
  BY RequestOf DEF Goto, Request
<1> HIDE DEF r
<1> QED BY <1>1, EntryStays

LEMMA RefuseIsCalled ==
  ASSUME TypeOK, EntriesAreCalled, NEW p \in Process, Refuse(p), UNCHANGED config
  PROVE  EntriesAreCalled'
<1>1. req' = [req EXCEPT ![p] = Refused(req[p])] /\ Called(Refused(req[p]))
  BY IdleIsCalled DEF Refuse
<1> QED BY <1>1, OneIsCalled

LEMMA EndIsCalled ==
  ASSUME TypeOK, EntriesAreCalled, NEW p \in Process, req' = [req EXCEPT ![p] = Idle],
         UNCHANGED config
  PROVE  EntriesAreCalled'
  BY IdleIsCalled, OneIsCalled

LEMMA StepIsCalled ==
  ASSUME TypeOK, EntriesAreCalled, NEW p \in Process, Step(p)
  PROVE  EntriesAreCalled'
<1>0. req[p] \in Request
  BY RequestOf
<1>1. CASE Verify(p) \/ RotateDelete(p) \/ Renew(p) \/ Admit(p) \/ AuthorizeAdmin(p)
  <2>1. req[p].pc \in Served /\ UNCHANGED config /\ (Refuse(p) \/ \E pc : Goto(p, pc))
    BY <1>1 DEF Verify, RotateDelete, Renew, Admit, AuthorizeAdmin, Served, PC, world
  <2> QED BY <2>1, GotoIsCalled, RefuseIsCalled
<1>2. CASE Get(p)
  <2> DEFINE s == sessions[req[p].sid]
             pc == IF AsksBan(req[p].entry) THEN "ban" ELSE AfterBan(p)
             r == [req[p] EXCEPT !.copy = s, !.pc = pc]
  <2>1. req[p].pc \in Served /\ UNCHANGED config
    BY <1>2 DEF Get, Served, PC, world
  <2>2. Refuse(p) \/ req' = [req EXCEPT ![p].copy = s, ![p].pc = pc]
    BY <1>2 DEF Get
  <2>3. r.entry = req[p].entry
    BY <1>0 DEF Request
  <2> HIDE DEF s, pc
  <2>4. Refuse(p) \/ req' = [req EXCEPT ![p] = r]
    BY <2>2 DEF TypeOK
  <2> HIDE DEF r
  <2> QED BY <2>1, <2>3, <2>4, EntryStays, RefuseIsCalled
<1>3. CASE CheckBan(p)
  <2> DEFINE pc == AfterBan(p)
             new == IF req[p].byCookie /\ ~config.random THEN req[p].sid ELSE NoId
             r == [req[p] EXCEPT !.pc = pc, !.new = new]
  <2>1. req[p].pc \in Served /\ UNCHANGED config
    BY <1>3 DEF CheckBan, Served, PC, world
  <2>2. Refuse(p) \/ req' = [req EXCEPT ![p].pc = pc, ![p].new = new]
    BY <1>3 DEF CheckBan
  <2>3. r.entry = req[p].entry
    BY <1>0 DEF Request
  <2> HIDE DEF new, pc
  <2>4. Refuse(p) \/ req' = [req EXCEPT ![p] = r]
    BY <2>2 DEF TypeOK
  <2> HIDE DEF r
  <2> QED BY <2>1, <2>3, <2>4, EntryStays, RefuseIsCalled
<1>4. CASE RotateGet(p)
  <2> DEFINE s == sessions[req[p].sid]
             a == [req[p] EXCEPT !.pc = "rotSet", !.data = s]
             b == [req[p] EXCEPT !.pc = "authorize", !.new = req[p].sid]
  <2>1. req[p].pc \in Served /\ UNCHANGED config
    BY <1>4 DEF RotateGet, Served, PC, world
  <2>2. a.entry = req[p].entry /\ b.entry = req[p].entry
    BY <1>0 DEF Request
  <2>3. req' = [req EXCEPT ![p] = a] \/ req' = [req EXCEPT ![p] = b]
    BY <1>4 DEF RotateGet, TypeOK
  <2> HIDE DEF a, b
  <2> QED BY <2>1, <2>2, <2>3, EntryStays
<1>5. CASE RotateSet(p)
  <2> DEFINE r == [req[p] EXCEPT !.pc = "rotDelete", !.data = None, !.new = issued + 1]
  <2>1. req[p].pc \in Served /\ UNCHANGED config
    BY <1>5 DEF RotateSet, Served, PC, world
  <2>2. r.entry = req[p].entry
    BY <1>0 DEF Request
  <2>3. req' = [req EXCEPT ![p] = r]
    BY <1>5 DEF RotateSet, TypeOK
  <2> HIDE DEF r
  <2> QED BY <2>1, <2>2, <2>3, EntryStays
<1>6. CASE Authorize(p)
  <2>1. req[p].pc \in Served /\ UNCHANGED config
    BY <1>6 DEF Authorize, Served, PC, world
  <2>2. CASE Refuse(p)
    BY <2>1, <2>2, RefuseIsCalled
  <2>3. ASSUME NEW route \in Routes,
               req' = [req EXCEPT ![p].pc = "admitted", ![p].route = route]
        PROVE  EntriesAreCalled'
    <3> DEFINE r == [req[p] EXCEPT !.pc = "admitted", !.route = route]
    <3>1. r.entry = req[p].entry
      BY <1>0 DEF Request
    <3>2. req' = [req EXCEPT ![p] = r]
      BY <2>3 DEF TypeOK
    <3> HIDE DEF r
    <3> QED BY <2>1, <3>1, <3>2, EntryStays
  <2> QED BY <1>6, <2>2, <2>3 DEF Authorize
<1>7. CASE Respond(p) \/ LoseResponse(p) \/ Fail(p) \/ LoseDelete(p)
  BY <1>7, EndIsCalled DEF Respond, LoseResponse, Fail, LoseDelete, world
<1>8. CASE GetForSafeAuth(p)
  <2> DEFINE s == sessions[req[p].sid]
             r == [req[p] EXCEPT !.pc = "set", !.data = s]
  <2>1. UNCHANGED config
    BY <1>8 DEF GetForSafeAuth, world
  <2>2. r.entry = req[p].entry /\ r.pc \notin Served
    BY <1>0 DEF Request, Served
  <2>3. req' = [req EXCEPT ![p] = r] \/ req' = [req EXCEPT ![p] = Idle]
    BY <1>8 DEF GetForSafeAuth, TypeOK
  <2> HIDE DEF r
  <2> QED BY <2>1, <2>2, <2>3, EntryStays, EndIsCalled
<1>9. CASE SetSafeAuth(p)
  BY <1>9, EndIsCalled DEF SetSafeAuth
<1> QED BY <1>1, <1>2, <1>3, <1>4, <1>5, <1>6, <1>7, <1>8, <1>9 DEF Step

LEMMA ReceivedIsCalled ==
  ASSUME TypeOK, EntriesAreCalled, NEW p \in Process, NEW entry \in Entries, NEW byCookie,
         NEW i, NEW c, Received(p, entry, byCookie, i, c)
  PROVE  EntriesAreCalled'
<1>1. entry \in config.calls /\ UNCHANGED config
  BY DEF Received
<1> DEFINE r == [pc |-> FirstAwait,
                 entry |-> entry, byCookie |-> byCookie, sid |-> i, from |-> c,
                 copy |-> None, data |-> None, new |-> NoId, route |-> None,
                 ban |-> tokens[i].user \in banned, over |-> Over(tokens[i].login),
                 closed |-> lapsed \cup shut]
<1>2. req' = [req EXCEPT ![p] = r] /\ r.entry = entry
  BY DEF Received
<1> HIDE DEF r
<1>3. Called(r)
  BY <1>1, <1>2 DEF Called
<1> QED BY <1>1, <1>2, <1>3, OneIsCalled

LEMMA BeginIsCalled ==
  ASSUME TypeOK, EntriesAreCalled, NEW p \in Process, NEW call \in {"open", "close"}, NEW i,
         BeginSafeAuth(p, call, i)
  PROVE  EntriesAreCalled'
<1> DEFINE r == [req[p] EXCEPT !.pc = call, !.entry = call, !.sid = i]
<1>1. req' = [req EXCEPT ![p] = r] /\ UNCHANGED config
  BY DEF BeginSafeAuth, TypeOK, world
<1>2. r.pc = call
  BY RequestOf DEF Request
<1>3. Called(r)
  BY <1>2 DEF Called, Served
<1> HIDE DEF r
<1> QED BY <1>1, <1>3, OneIsCalled

LEMMA EnvironmentIsCalled ==
  ASSUME TypeOK, EntriesAreCalled, Environment
  PROVE  EntriesAreCalled'
<1>1. UNCHANGED config
  BY DEF Environment, LogIn, KickUser, BanUser, UnbanUser, EndSession, LapseSafeAuth
<1>2. UNCHANGED req \/ \E u \in config.users : UnbanUser(u)
  BY DEF Environment, LogIn, KickUser, BanUser, EndSession, LapseSafeAuth
<1>3. CASE UNCHANGED req
  BY <1>1, <1>3 DEF EntriesAreCalled, Called
<1>4. ASSUME NEW u, UnbanUser(u)
      PROVE  EntriesAreCalled'
  <2>1. ASSUME NEW p \in Process
        PROVE  req'[p].pc = req[p].pc /\ req'[p].entry = req[p].entry
    <3>1. req'[p] = req[p] \/ req'[p] = [req[p] EXCEPT !.ban = FALSE]
      BY <1>4 DEF UnbanUser
    <3> QED BY <3>1, RequestOf DEF Request
  <2> QED BY <1>1, <2>1 DEF EntriesAreCalled, Called
<1> QED BY <1>2, <1>3, <1>4

LEMMA CalledHolds == Spec => []EntriesAreCalled
<1>1. Init => EntriesAreCalled
  BY IdleIsCalled DEF Init, EntriesAreCalled
<1>2. ASSUME TypeOK, EntriesAreCalled, [Next]_vars
      PROVE  EntriesAreCalled'
  <2>1. ASSUME NEW p \in Process, Step(p) PROVE EntriesAreCalled'
    BY <1>2, <2>1, StepIsCalled
  <2>2. ASSUME NEW p \in Process, NEW c, ArriveByCookie(p, c) PROVE EntriesAreCalled'
    BY <1>2, <2>2, ReceivedIsCalled DEF ArriveByCookie, Entries
  <2>3. ASSUME NEW p \in Process, NEW i, NEW c,
               \/ ArriveByHeader(p, i, c) \/ ArriveByRpc(p, i, c) \/ ArriveBySocket(p, i, c)
               \/ ArriveAtConsole(p, i, c) \/ ArriveByCallback(p, i, c)
        PROVE  EntriesAreCalled'
    <3>1. \E entry \in Entries : Received(p, entry, FALSE, i, c)
      BY <2>3 DEF ArriveByHeader, ArriveByRpc, ArriveBySocket, ArriveAtConsole,
                  ArriveByCallback, Entries
    <3> QED BY <1>2, <3>1, ReceivedIsCalled
  <2>4. ASSUME NEW p \in Process, NEW i, NEW call \in {"open", "close"}, BeginSafeAuth(p, call, i)
        PROVE  EntriesAreCalled'
    BY <1>2, <2>4, BeginIsCalled
  <2>5. CASE Environment
    BY <1>2, <2>5, EnvironmentIsCalled
  <2>6. CASE UNCHANGED vars
    BY <1>2, <2>6 DEF vars, EntriesAreCalled, Called
  <2> QED BY <1>2, <2>1, <2>2, <2>3, <2>4, <2>5, <2>6 DEF Next
<1> QED BY <1>1, <1>2, TypeCorrect, PTL DEF Spec

\* What banUser promises (auth.service.ts:459-461) does hold where every entry in
\* use asks the blacklist: AuthGuard with JWTs and the guard of microservices
\* (auth.guard.ts:142-148, 301-305).  Random tokens over http, sockets, the admin
\* console and the callback of SSO are the only ways around a ban.
THEOREM BansReachEveryEntry ==
  ASSUME EveryEntryAsks
  PROVE  Spec => []BannedUsersAreRefused
<1>1. TypeOK /\ EntriesAreCalled /\ BanIsEnforced => BannedUsersAreRefused
  <2> SUFFICES ASSUME TypeOK, EntriesAreCalled, BanIsEnforced, NEW p \in Admitted
               PROVE  ~req[p].ban
    BY DEF BannedUsersAreRefused
  <2>1. req[p].pc \in Served /\ p \in Process
    BY DEF Admitted, Served, PC
  <2>2. req[p].entry \in Entries \cap config.calls
    BY <2>1 DEF EntriesAreCalled, Called
  <2>3. config \in Configs
    BY DEF TypeOK
  <2>4. AsksBan(req[p].entry)
    BY <2>2, <2>3 DEF EveryEntryAsks, AsksBan, Entries
  <2> QED BY <2>4 DEF BanIsEnforced, AsksBan
<1> QED BY <1>1, TypeCorrect, CalledHolds, BansAreEnforced, PTL

===============================================================================
