----------------------------- MODULE NonceStore -----------------------------
(***************************************************************************)
(* MemoryNonceStore and RedisNonceStore of nonce-store.ts, as the guard of *)
(* request signatures uses them: setIfAbsent(nonce, timestampTolerance).   *)
(*                                                                         *)
(* setIfAbsent has no await in memory and is one SET PX NX in Redis: one   *)
(* step either way.  The Map keeps its keys in the order of insertion,     *)
(* which is the order of seq here.                                         *)
(***************************************************************************)
EXTENDS Deployment, FiniteSets

CONSTANTS
    Nonce,
    Tolerance,    \* timestampTolerance, in ticks; also the ttl of a nonce
    MaxSize,      \* capacity of the memory store
    MaxRecorded   \* BOUND: nonces recorded in a run

ASSUME NonceAssumption ==
    /\ Tolerance \in Nat
    /\ MaxSize \in Nat \ {0}
    /\ MaxRecorded \in Nat

VARIABLES
    records,   \* the Map, or the keys in Redis
    issued,    \* how many nonces were recorded
    recorded   \* history: every nonce recorded, and when

nonceVars == <<records, issued, recorded>>

Entry == [nonce : Nonce, seq : 1..MaxRecorded, expireAt : 0..(MaxClock + Tolerance)]
Receipt == [nonce : Nonce, seq : 1..MaxRecorded, at : 0..MaxClock]

NonceTypeOK ==
    /\ records \subseteq Entry
    /\ issued \in 0..MaxRecorded
    /\ recorded \subseteq Receipt

NonceInit == records = {} /\ issued = 0 /\ recorded = {}

------------------------------------------------------------------------------

\* MUTANT of Gone: the Map forgets a nonce one tick before its date.
GoneEarly(e) == e.expireAt - 1 <= clock

\* evictExpired drops a date that has come; Redis drops a key after its date.
Gone(e) ==
    \/ backend = "memory" /\ e.expireAt <= clock
    \/ backend = "redis" /\ e.expireAt < clock

Kept == {e \in records : ~Gone(e)}

Has(n) == \E e \in Kept : e.nonce = n

\* records.keys().next(): the first key of the Map.
Oldest(S) == {e \in S : \A f \in S : e.seq <= f.seq}

\* The entries left when a new one is written.
MakeRoom ==
    IF backend = "memory" /\ Cardinality(Kept) >= MaxSize THEN Kept \ Oldest(Kept) ELSE Kept

\* setIfAbsent answers true.
Record(n) ==
    /\ ~Has(n)
    /\ issued < MaxRecorded
    /\ records' = MakeRoom \cup
           {[nonce |-> n, seq |-> issued + 1, expireAt |-> clock + Tolerance]}
    /\ issued' = issued + 1
    /\ recorded' = recorded \cup {[nonce |-> n, seq |-> issued + 1, at |-> clock]}

\* setIfAbsent answers false.
Duplicate(n) ==
    /\ Has(n)
    /\ records' = Kept
    /\ UNCHANGED <<issued, recorded>>

NonceNext ==
    \/ \E n \in Nonce : (Record(n) \/ Duplicate(n)) /\ UNCHANGED shared
    \/ Tick /\ UNCHANGED <<backend, records, issued, recorded>>

NonceSpec == SharedInit /\ NonceInit /\ [][NonceNext]_<<shared, nonceVars>>

------------------------------------------------------------------------------

\* A nonce recorded twice was recorded again only after its ttl was over, or,
\* in memory, after more nonces than the store holds: eviction takes the oldest
\* and no other call makes the store forget (nonce-store.ts:95-120).
NonceOncePerWindow ==
    \A e, f \in recorded :
        e.nonce = f.nonce /\ e.seq < f.seq =>
            \/ f.at >= e.at + Tolerance
            \/ backend = "memory" /\ f.seq > e.seq + MaxSize

=============================================================================
