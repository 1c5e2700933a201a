----------------------------- MODULE Deployment -----------------------------
(***************************************************************************)
(* What the parts of one server process share: the clock they read with    *)
(* Date.now, and whether the process has a Redis client.  auth.module.ts   *)
(* gives the nonce store, the rate limiter and the lock service the same   *)
(* optional REDIS_CLIENT, so one variable decides for all of them.         *)
(***************************************************************************)
EXTENDS Integers

CONSTANT MaxClock  \* BOUND: ticks of a run

ASSUME ClockAssumption == MaxClock \in Nat

VARIABLES
    clock,   \* Date.now() of the process, and TIME of Redis
    backend  \* "memory" without a Redis client, "redis" with one

shared == <<clock, backend>>

Backends == {"memory", "redis"}

SharedTypeOK == clock \in 0..MaxClock /\ backend \in Backends

SharedInit == clock = 0 /\ backend \in Backends

Tick == clock < MaxClock /\ clock' = clock + 1

=============================================================================
