---------------------------- MODULE MCAdmission ----------------------------
EXTENDS Admission, TLC

CONSTANTS n1, n2

\* Workers are interchangeable; the two nonces are not, they have dates.
Symmetry == Permutations(Worker)

\* n1 is stamped on time, n2 two ticks ahead of the server's clock.
MCDate == [n \in Nonce |-> IF n = n1 THEN 1 ELSE 2]

Application(entry, jwt, signature, useRedis, redisClient, limit) ==
    [entry |-> entry, jwt |-> jwt, signature |-> signature,
     randomToken |-> FALSE, valid |-> TRUE,
     useRedis |-> useRedis, redisClient |-> redisClient, limit |-> limit]

Both == {"module", "service"}

\* Guarded and limited on both backends, each of the two without the other, and
\* the settings a start refuses.
MCApplications ==
    {Application("register", "own", "own", FALSE, FALSE, Both),
     Application("registerAsync", "own", "own", TRUE, FALSE, Both),
     Application("register", "absent", "absent", FALSE, FALSE, Both),
     Application("register", "absent", "absent", TRUE, TRUE, Both),
     Application("register", "own", "own", FALSE, FALSE, {"service"}),
     Application("forConfig", "own", "own", TRUE, FALSE, Both),
     Application("forConfig", "own", "absent", TRUE, FALSE, Both),
     Application("forConfig", "absent", "own", FALSE, FALSE, {}),
     Application("registerAsync", "absent", "absent", FALSE, FALSE, {}),
     Application("registerAsync", "own", "default", FALSE, TRUE, {}),
     Application("register", "default", "own", FALSE, FALSE, Both),
     [Application("forConfig", "own", "own", FALSE, FALSE, {}) EXCEPT !.valid = FALSE]}

=============================================================================
