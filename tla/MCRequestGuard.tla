--------------------------- MODULE MCRequestGuard ---------------------------
EXTENDS RequestGuard, TLC

CONSTANTS u1, u2, here, there, app, web, a, b, any, admin

\* The second client differs from the first in its ip, the third in its user
\* agent and names no ip.
c1 == [ip |-> here, agent |-> app]
MCClient == {c1, [ip |-> there, agent |-> app], [ip |-> Unknown, agent |-> web]}

Cfg(random, strict, autoRenew, calls, users, clients) ==
    [random |-> random, strict |-> strict, autoRenew |-> autoRenew,
     calls |-> calls, users |-> users, clients |-> clients]

\* Rotation among other requests, and with safe auth; bans with renewal; the
\* entries without a cookie, from every client.
MCConfigs ==
    {Cfg(TRUE, FALSE, FALSE, {"http", "ws", "kick", "relogin"}, {u1}, {c1}),
     Cfg(TRUE, FALSE, FALSE, {"http", "open", "close"}, {u1}, {c1}),
     Cfg(FALSE, FALSE, TRUE, {"http", "ban", "kick", "relogin"}, User, {c1}),
     Cfg(FALSE, FALSE, TRUE, {"http", "open", "close", "kick"}, {u1}, {c1}),
     Cfg(FALSE, TRUE, FALSE, {"rpc", "admin", "ban"}, User, Client),
     Cfg(TRUE, TRUE, FALSE, {"rpc", "sso", "ban"}, User, Client)}

\* Bans of a user with random tokens.
BanConfigs == {Cfg(TRUE, FALSE, FALSE, {"http", "ban"}, {u1}, {c1})}

MCRolesOf == (u1 :> {admin} @@ u2 :> {})
MCGrantsOf == (u1 :> {<<a, any>>} @@ u2 :> {<<b>>, <<any, a>>})
MCAdminGrants == {<<any>>}

\* A handler u1 may call, one it may call with safe auth, and three it may not,
\* one of them for want of a wildcard; u2 may call this one and the first of the
\* others.
MCRoutes ==
    {[roles |-> {}, permissions |-> {<<a, b>>}, safe |-> FALSE],
     [roles |-> {admin}, permissions |-> {}, safe |-> TRUE],
     [roles |-> {}, permissions |-> {<<b, a>>}, safe |-> FALSE],
     [roles |-> {}, permissions |-> {<<b, b>>}, safe |-> FALSE],
     [roles |-> {}, permissions |-> {<<any, a>>}, safe |-> FALSE]}

\* Any two requests are alike.
Symmetry == Permutations(Process)

=============================================================================
