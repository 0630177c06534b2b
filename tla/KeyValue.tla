------------------------------- MODULE KeyValue -------------------------------
(***************************************************************************)
(* A key-value store as a function whose domain is the set of keys that    *)
(* are present: Redis as @upstash/redis shows it, and the Map inside a     *)
(* LocalCache.                                                             *)
(***************************************************************************)
EXTENDS Functions

\* The store that holds no key.
Empty == [k \in {} |-> k]

\* SET: bind key k to entry e, whether or not k was present.
Put(store, k, e) ==
    [j \in DOMAIN store \cup {k} |-> IF j = k THEN e ELSE store[j]]

\* DEL: remove the keys of K; a key that is absent is not an error.
Drop(store, K) == Restrict(store, DOMAIN store \ K)

\* A store that binds keys of K to entries of V.
IsStore(store, K, V) ==
    /\ DOMAIN store \subseteq K
    /\ store \in [DOMAIN store -> V]
===============================================================================
