------------------------------ MODULE LocalCache ------------------------------
(***************************************************************************)
(* utils/localCache.ts: the TTL cache with a cap on its entries that keeps *)
(* the process from reading Redis on every request.                        *)
(*                                                                         *)
(* The Map is a function from the keys present to their entries and, for   *)
(* its iteration order, the relation `before` between them.  A prefix is   *)
(* the set of keys it matches.  Date.now() is the wall clock: it moves to  *)
(* any of Times, backwards too.                                            *)
(***************************************************************************)
EXTENDS Naturals, FiniteSets, KeyValue

CONSTANTS Keys, Values, NoValue, Ttls, Prefixes,
          MaxEntries,   \* the cap
          Times         \* bound: what the clock may read

ASSUME SetsAssumption ==
    /\ NoValue \notin Values
    /\ Ttls \subseteq Nat /\ Times \subseteq Nat
    /\ \A P \in Prefixes : P \subseteq Keys
ASSUME CapAssumption == MaxEntries \in Nat \ {0}

VARIABLES
    now,
    entries,
    before,    \* <<j, k>>: the Map holds j before k
    reply      \* what the last get returned

mapVars == <<now, entries, before, reply>>

MapEntry == [value : Values, expiresAt : Nat]

\* Every variable holds a value of its type, and only keys present are ordered.
MapTypeOK ==
    /\ now \in Times
    /\ IsStore(entries, Keys, MapEntry)
    /\ before \subseteq (DOMAIN entries) \X (DOMAIN entries)
    /\ reply \in Values \cup {NoValue}

MapInit ==
    /\ now \in Times
    /\ entries = Empty
    /\ before = {}
    /\ reply = NoValue

-------------------------------------------------------------------------------
Expired(k) == entries[k].expiresAt <= now

\* Map.delete of the keys of K.
Remove(K) ==
    /\ entries' = Drop(entries, K)
    /\ before' = {p \in before : p[1] \notin K /\ p[2] \notin K}

\* Mutant: an entry is still good at the very moment it expires.
Get_OffByOne(k) ==
    /\ IF k \in DOMAIN entries /\ entries[k].expiresAt < now
       THEN Remove({k})
       ELSE UNCHANGED <<entries, before>>
    /\ reply' = IF k \in DOMAIN entries /\ entries[k].expiresAt >= now
                THEN entries[k].value ELSE NoValue
    /\ UNCHANGED now

Get(k) ==
    /\ IF k \in DOMAIN entries /\ Expired(k)
       THEN Remove({k})
       ELSE UNCHANGED <<entries, before>>
    /\ reply' = IF k \in DOMAIN entries /\ ~Expired(k) THEN entries[k].value ELSE NoValue
    /\ UNCHANGED now

\* The key of K that entered the Map first.
Oldest(K) == {k \in K : \A j \in K \ {k} : <<k, j>> \in before}

\* Mutants of evict(): no sweep; nothing but the sweep.
Evicted_NoSweep == Oldest(DOMAIN entries)
Evicted_OnlySweep == {k \in DOMAIN entries : Expired(k)}

\* What evict() removes: the expired entries and, if the rest still fills the
\* cache, the oldest of the rest.
Evicted ==
    LET expired == {k \in DOMAIN entries : Expired(k)}
        rest    == DOMAIN entries \ expired
    IN  expired \cup (IF Cardinality(rest) >= MaxEntries THEN Oldest(rest) ELSE {})

\* A key that is present keeps its place in the Map; a new one goes to its end.
Set(k, v, ttl) ==
    LET full == k \notin DOMAIN entries /\ Cardinality(DOMAIN entries) >= MaxEntries
        gone == IF full THEN Evicted ELSE {}
        kept == DOMAIN entries \ gone
    IN  /\ entries' = Put(Drop(entries, gone), k, [value |-> v, expiresAt |-> now + ttl])
        /\ before' = (before \cap (kept \X kept))
                     \cup (IF k \in kept THEN {} ELSE kept \X {k})
        /\ UNCHANGED <<now, reply>>

Delete(k) == Remove({k}) /\ UNCHANGED <<now, reply>>

DeleteByPrefix(P) == Remove(P) /\ UNCHANGED <<now, reply>>

ClockMoves == now' \in Times /\ UNCHANGED <<entries, before, reply>>

MapNext ==
    \/ \E k \in Keys : Get(k) \/ Delete(k)
    \/ \E k \in Keys, v \in Values, ttl \in Ttls : Set(k, v, ttl)
    \/ \E P \in Prefixes : DeleteByPrefix(P)
    \/ ClockMoves

MapSpec == MapInit /\ [][MapNext]_mapVars

-------------------------------------------------------------------------------
\* The cap holds whatever is stored: the cache cannot outgrow its memory.
Bounded ==
    /\ IsFiniteSet(DOMAIN entries)
    /\ Cardinality(DOMAIN entries) <= MaxEntries

\* evict() always finds its victim, and only one: whatever was set, set again,
\* swept and deleted, each group of keys has one that entered first.
HasOldest ==
    \A K \in SUBSET DOMAIN entries : K # {} => \E k \in K : Oldest(K) = {k}

\* A new key pushes an entry that has not expired out only when the cache is full
\* of such entries, and then the one that entered first.
EvictsOldest ==
    [][\A k \in DOMAIN entries' \ DOMAIN entries :
          \A gone \in DOMAIN entries \ DOMAIN entries' :
              ~Expired(gone) =>
                  /\ \A j \in DOMAIN entries : ~Expired(j)
                  /\ \A j \in DOMAIN entries \ {gone} : <<gone, j>> \in before /\ j \in DOMAIN entries'
      ]_mapVars

\* The cache keeps the promise of LossyCache.
Lossy == INSTANCE LossyCache WITH held <- entries

KeepsPromise == Lossy!Spec
===============================================================================
