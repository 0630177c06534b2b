------------------------------ MODULE LossyCache ------------------------------
(***************************************************************************)
(* What an in-process cache promises its callers, whatever it does to keep *)
(* its memory bounded: a read returns nothing or the value of the last set *)
(* of that key, never one that has expired or was deleted since.  The      *)
(* cache may forget any other entry whenever it runs.                      *)
(***************************************************************************)
EXTENDS Naturals, KeyValue

CONSTANTS Keys, Values, NoValue, Ttls, Times, Prefixes

VARIABLES now, held, reply

vars == <<now, held, reply>>

Held == [value : Values, expiresAt : Nat]

Init == now \in Times /\ held = Empty /\ reply = NoValue

\* The entries of store but those the cache forgets.
Remains(store, K) == \E D \in SUBSET K : held' = Drop(store, D)

Live(k) == k \in DOMAIN held /\ held[k].expiresAt > now

Get(k) ==
    /\ reply' = IF Live(k) THEN held[k].value ELSE NoValue
    /\ Remains(held, Keys)
    /\ UNCHANGED now

Set(k, v, ttl) ==
    /\ Remains(Put(held, k, [value |-> v, expiresAt |-> now + ttl]), Keys \ {k})
    /\ UNCHANGED <<now, reply>>

Delete(K) ==
    /\ Remains(Drop(held, K), Keys)
    /\ UNCHANGED <<now, reply>>

ClockMoves == now' \in Times /\ UNCHANGED <<held, reply>>

Next ==
    \/ \E k \in Keys : Get(k) \/ Delete({k})
    \/ \E k \in Keys, v \in Values, ttl \in Ttls : Set(k, v, ttl)
    \/ \E K \in Prefixes : Delete(K)
    \/ ClockMoves

Spec == Init /\ [][Next]_vars
===============================================================================
