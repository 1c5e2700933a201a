----------------------------- MODULE MCRedisStore -----------------------------
EXTENDS RedisStore, TLC

CONSTANT u1

\* The session without a device: SET alone runs, or SADD too but not EXPIRE.
MCBreaking == {<<<<u1, NoDevice, 1>>, 3>>}

\* Any two calls are alike.
Symmetry == Permutations(Process)

==============================================================================
