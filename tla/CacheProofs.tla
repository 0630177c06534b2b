------------------------------ MODULE CacheProofs ------------------------------
(***************************************************************************)
(* The two tiers of caches.  UserCache: type correctness, and that the     *)
(* views and the batches no invalidation raced are fresh, for any number   *)
(* of requests in progress, cards, views and answers, and whatever fails,  *)
(* expires or restarts.  LocalCache: for every set of keys, cap, TTL and   *)
(* clock, the cache never outgrows its cap, evicts in the order of         *)
(* insertion and only when full of live entries, and implements the        *)
(* promise LossyCache that UserCache relies on.                            *)
(***************************************************************************)
EXTENDS UserCache, LocalCache, TLAPS, FiniteSetTheorems

-------------------------------------------------------------------------------
(* Stores: what Put and Drop of KeyValue do to one.                        *)

\* The store without keys is a store of any kind.
LEMMA EmptyStore ==
    ASSUME NEW K, NEW V
    PROVE  IsStore(Empty, K, V) /\ DOMAIN Empty = {}
BY DEF IsStore, Empty

\* SET of a key and an entry of the store's kind keeps it a store of that kind.
LEMMA PutStore ==
    ASSUME NEW K, NEW V, NEW store, IsStore(store, K, V), NEW k \in K, NEW e \in V
    PROVE  IsStore(Put(store, k, e), K, V)
BY DEF IsStore, Put

\* DEL removes its keys and leaves the other keys as they were.
LEMMA DropEntries ==
    ASSUME NEW store, NEW D
    PROVE  /\ DOMAIN Drop(store, D) = DOMAIN store \ D
           /\ \A j \in DOMAIN store \ D : Drop(store, D)[j] = store[j]
BY DEF Drop, Restrict

\* DEL keeps a store's kind.
LEMMA DropStore ==
    ASSUME NEW K, NEW V, NEW store, IsStore(store, K, V), NEW D
    PROVE  IsStore(Drop(store, D), K, V)
BY DEF IsStore, Drop, Restrict

-------------------------------------------------------------------------------
(* Typing.                                                                 *)

LEMMA NoRequestType == NoRequest \in Request
BY DEF NoRequest, Request, NoFetch, Fetch

LEMMA ArrivedType == TypeOK => Arrived \in Request
BY NoRequestType DEF TypeOK, Arrived, NoRequest, Request, NoFetch, Fetch, Invalidating

\* The components of a request, as the provers need them.
LEMMA RequestFields ==
    ASSUME NEW r \in Request
    PROVE  /\ r = [pc |-> r.pc, cards |-> r.cards, ver |-> r.ver, fetch |-> r.fetch,
                   page |-> r.page, todo |-> r.todo, must |-> r.must, clean |-> r.clean]
           /\ r.cards \subseteq Cards /\ r.ver \in Nat /\ r.fetch \in [Views -> Fetch]
           /\ r.page \subseteq Cards /\ r.todo \subseteq Views \cup {"incr"}
           /\ r.must \subseteq Cards /\ r.clean \in BOOLEAN
BY DEF Request

LEMMA InitType == Init => TypeOK
<1> SUFFICES ASSUME Init PROVE TypeOK
  OBVIOUS
<1>1. /\ IsStore(rView, Views, Entry) /\ IsStore(rBatch, Nat \ {0}, Entry)
      /\ IsStore(lView, Views, Entry) /\ IsStore(lBatch, Nat \ {0}, Entry)
  BY EmptyStore DEF Init
<1>2. req \in [Slots -> Request]
  BY NoRequestType DEF Init
<1> QED BY <1>1, <1>2, BoundsAssumption DEF Init, TypeOK, VersionEntry

LEMMA StartFetchType ==
    ASSUME TypeOK, NEW r \in Request, NEW K
    PROVE  StartFetch(r, K) \in Request
<1>1. \A k \in Views : k \in DOMAIN lView => lView[k] \in Entry
  BY DEF TypeOK, IsStore
<1>2. (\A k \in K \cap DOMAIN lView : lView[k].clean) \in BOOLEAN
  OBVIOUS
<1> QED BY <1>1, <1>2 DEF StartFetch, Request, Entry, Fetch, NoFetch

LEMMA WithVersionType ==
    ASSUME TypeOK, NEW r \in Request, NEW v \in Nat \ {0}
    PROVE  WithVersion(r, v) \in Request
<1>1. CASE v \in DOMAIN lBatch
  <2>1. lBatch[v].seen \in SUBSET Cards /\ lBatch[v].clean \in BOOLEAN
    BY <1>1 DEF TypeOK, IsStore, Entry
  <2>2. [r EXCEPT !.pc = "served", !.ver = 0, !.page = lBatch[v].seen,
                  !.clean = @ /\ lBatch[v].clean] \in Request
    BY <2>1 DEF Request
  <2> QED BY <1>1, <2>2 DEF WithVersion
<1>2. CASE v \notin DOMAIN lBatch
  <2>1. v \in Nat /\ v > 0
    OBVIOUS
  <2>2. [r EXCEPT !.pc = "bget", !.ver = v] \in Request
    BY <2>1 DEF Request
  <2> QED BY <1>2, <2>2 DEF WithVersion
<1> QED BY <1>1, <1>2

LEMMA AfterCommandType ==
    ASSUME NEW r \in Request, NEW x
    PROVE  AfterCommand(r, x) \in Request
BY NoRequestType DEF AfterCommand, Request

LEMMA FetchedType ==
    ASSUME TypeOK, NEW s \in Slots, NEW k \in Views,
           NEW stage \in {"get", "db", "set", "reply", "ok"}, NEW value \in SUBSET Cards
    PROVE  Fetched(s, k, stage, value) \in Request
<1>1. req[s] \in Request
  BY DEF TypeOK
<1> QED BY <1>1 DEF Fetched, Request, Fetch

\* A step that only moves one request on, to a request of the right type.
LEMMA ContinueType ==
    ASSUME TypeOK, NEW s \in Slots, NEW r \in Request, Continue(s, r),
           UNCHANGED <<answered, cacheVars, answers, observerVars>>
    PROVE  TypeOK'
BY DEF TypeOK, Continue, cacheVars, observerVars

LEMMA StepType ==
    ASSUME TypeOK, NEW s \in Slots, Step(s)
    PROVE  TypeOK'
<1> USE DEF At
<1>r. req[s] \in Request
  BY DEF TypeOK
<1>1. CASE VersionGet(s)
  <2>1. [req[s] EXCEPT !.pc = "vreply", !.ver = rVer] \in Request
    BY <1>r DEF Request, TypeOK
  <2> QED BY <1>1, <2>1, ContinueType DEF VersionGet
<1>2. CASE VersionGetFails(s)
  <2>1. [req[s] EXCEPT !.pc = "vreply", !.ver = 0, !.clean = FALSE] \in Request
    BY <1>r DEF Request
  <2> QED BY <1>2, <2>1, ContinueType DEF VersionGetFails
<1>3. CASE VersionFound(s)
  <2>1. WithVersion(req[s], req[s].ver) \in Request /\ lVer' \in VersionEntry
    BY <1>3, <1>r, RequestFields, WithVersionType DEF VersionFound, VersionEntry
  <2> QED BY <1>3, <2>1 DEF VersionFound, Continue, TypeOK, observerVars
<1>4. CASE VersionAbsent(s)
  BY <1>4, <1>r, WithVersionType, ContinueType DEF VersionAbsent
<1>5. CASE BatchHit(s)
  <2>1. rBatch[req[s].ver] \in Entry
    BY <1>5 DEF BatchHit, TypeOK, IsStore
  <2>2. [req[s] EXCEPT !.pc = "breply", !.page = rBatch[req[s].ver].seen,
                       !.clean = @ /\ rBatch[req[s].ver].clean] \in Request
    BY <1>5, <1>r, <2>1 DEF BatchHit, Request, Entry
  <2> QED BY <1>5, <2>2, ContinueType DEF BatchHit
<1>6. CASE BatchMiss(s)
  <2>1. [req[s] EXCEPT !.pc = "bmiss"] \in Request
    BY <1>6, <1>r DEF BatchMiss, Request
  <2> QED BY <1>6, <2>1, ContinueType DEF BatchMiss
<1>7. CASE FetchViews(s)
  <2>1. [req[s] EXCEPT !.pc = "views"] \in Request
    BY <1>7, <1>r DEF FetchViews, Request
  <2> QED BY <1>7, <2>1, StartFetchType, ContinueType DEF FetchViews
<1>8. CASE RankPage(s)
  <2>1. NoRequest.fetch \in [Views -> Fetch] /\ req[s].fetch["seen_cards"].seen \subseteq Cards
    BY <1>r, NoRequestType, ViewsAssumption DEF Request, Fetch, Views
  <2>2. [req[s] EXCEPT !.pc = "bset", !.page = req[s].fetch["seen_cards"].seen,
                       !.fetch = NoRequest.fetch] \in Request
    BY <1>8, <1>r, <2>1 DEF RankPage, Request
  <2> QED BY <1>8, <2>2, ContinueType DEF RankPage
<1>9. CASE BatchSet(s)
  <2>0. req[s].ver \in Nat \ {0}
    BY <1>9, <1>r DEF BatchSet, Request
  <2>1. [seen |-> req[s].page, clean |-> req[s].clean] \in Entry
    BY <1>r DEF Request, Entry
  <2>2. IsStore(rBatch', Nat \ {0}, Entry)
    BY <1>9, <1>r, <2>1, <2>0, PutStore DEF BatchSet, TypeOK
  <2>3. [req[s] EXCEPT !.pc = "breply"] \in Request
    BY <1>9, <1>r DEF BatchSet, Request
  <2> QED BY <1>9, <2>2, <2>3 DEF BatchSet, Continue, TypeOK, observerVars
<1>10. CASE BatchSetFails(s)
  <2>1. [req[s] EXCEPT !.pc = "breply"] \in Request
    BY <1>10, <1>r DEF BatchSetFails, Request
  <2> QED BY <1>10, <2>1, ContinueType DEF BatchSetFails
<1>11. CASE BatchFill(s)
  <2>0. req[s].ver \in Nat \ {0}
    BY <1>11, <1>r DEF BatchFill, Request
  <2>1. [seen |-> req[s].page, clean |-> req[s].clean] \in Entry
    BY <1>r DEF Request, Entry
  <2>2. IsStore(lBatch', Nat \ {0}, Entry)
    BY <1>11, <1>r, <2>1, <2>0, PutStore DEF BatchFill, TypeOK
  <2>3. [req[s] EXCEPT !.pc = "served", !.ver = 0] \in Request
    BY <1>r DEF Request
  <2> QED BY <1>11, <2>2, <2>3 DEF BatchFill, Continue, TypeOK, observerVars
<1>12. CASE ReadServe(s)
  <2>1. NoRequest.fetch \in [Views -> Fetch]
    BY NoRequestType DEF Request
  <2> DEFINE joined == {c \in Cards : \A k \in Views :
                          req[s].fetch[k].at = "ok" => c \in req[s].fetch[k].seen}
  <2>2. [req[s] EXCEPT !.pc = "served", !.fetch = NoRequest.fetch, !.page = joined] \in Request
    <3> HIDE DEF joined
    <3>1. joined \in SUBSET Cards
      BY DEF joined
    <3> QED BY <1>r, <2>1, <3>1 DEF Request
  <2> QED BY <1>12, <2>2, ContinueType DEF ReadServe
<1>13. CASE Finish(s)
  BY <1>13, NoRequestType, ContinueType DEF Finish
<1>14. CASE InvalidateIncr(s)
  <2>1. [req[s] EXCEPT !.ver = rVer + 1] \in Request /\ rVer + 1 \in Nat
    BY <1>r DEF Request, TypeOK
  <2>2. AfterCommand([req[s] EXCEPT !.ver = rVer + 1], "incr") \in Request
    BY <2>1, AfterCommandType
  <2> QED BY <1>14, <2>1, <2>2 DEF InvalidateIncr, Continue, TypeOK, observerVars
<1>15. CASE InvalidateDone(s)
  <2>1. IsStore(lView', Views, Entry) /\ IsStore(lBatch', Nat \ {0}, Entry)
    BY <1>15, EmptyStore DEF InvalidateDone
  <2>2. lVer' \in VersionEntry /\ acked' \subseteq Cards
    BY <1>15, <1>r DEF InvalidateDone, VersionEntry, Request, TypeOK
  <2> QED BY <1>15, <2>1, <2>2, NoRequestType DEF InvalidateDone, Continue, TypeOK
<1>16. CASE InvalidateFails(s)
  <2> DEFINE r == IF req[s].todo = {} THEN NoRequest ELSE [req[s] EXCEPT !.pc = "leftover"]
  <2>1. r \in Request
    BY <1>r, NoRequestType DEF Request
  <2>2. Continue(s, r)
    BY <1>16 DEF InvalidateFails
  <2>3. acked' \subseteq Cards /\ unpurged' \subseteq Cards
    BY <1>16, <1>r DEF InvalidateFails, Request, TypeOK
  <2> HIDE DEF r
  <2> QED BY <1>16, <2>1, <2>2, <2>3 DEF InvalidateFails, Continue, TypeOK, cacheVars
<1>17. ASSUME NEW k \in Views, ViewHit(s, k) PROVE TypeOK'
  <2>1. rView[k] \in Entry
    BY <1>17 DEF ViewHit, TypeOK, IsStore
  <2>2. Fetched(s, k, "reply", rView[k].seen) \in Request
    BY <2>1, FetchedType DEF Entry
  <2>3. [Fetched(s, k, "reply", rView[k].seen) EXCEPT !.clean = @ /\ rView[k].clean] \in Request
    BY <2>1, <2>2 DEF Request, Entry
  <2> QED BY <1>17, <2>3, ContinueType DEF ViewHit
<1>18. ASSUME NEW k \in Views, ViewMiss(s, k) PROVE TypeOK'
  BY <1>18, FetchedType, ContinueType DEF ViewMiss
<1>19. ASSUME NEW k \in Views, ViewQuery(s, k) PROVE TypeOK'
  <2>1. answered \in SUBSET Cards
    BY DEF TypeOK
  <2> QED BY <1>19, <2>1, FetchedType, ContinueType DEF ViewQuery
<1>20. ASSUME NEW k \in Views PROVE req[s].fetch[k].seen \in SUBSET Cards
  BY <1>r DEF Request, Fetch
<1>21. ASSUME NEW k \in Views, ViewSet(s, k) PROVE TypeOK'
  <2>1. [seen |-> req[s].fetch[k].seen, clean |-> req[s].clean] \in Entry
    BY <1>r, <1>20 DEF Request, Entry
  <2>2. IsStore(rView', Views, Entry)
    BY <1>21, <2>1, PutStore DEF ViewSet, TypeOK
  <2>3. Fetched(s, k, "reply", req[s].fetch[k].seen) \in Request
    BY <1>20, FetchedType
  <2> QED BY <1>21, <2>2, <2>3 DEF ViewSet, Continue, TypeOK, observerVars
<1>22. ASSUME NEW k \in Views, ViewSetFails(s, k) PROVE TypeOK'
  BY <1>22, <1>20, FetchedType, ContinueType DEF ViewSetFails
<1>23. ASSUME NEW k \in Views, ViewFill(s, k) PROVE TypeOK'
  <2>1. [seen |-> req[s].fetch[k].seen, clean |-> req[s].clean] \in Entry
    BY <1>r, <1>20 DEF Request, Entry
  <2>2. IsStore(lView', Views, Entry)
    BY <1>23, <2>1, PutStore DEF ViewFill, TypeOK
  <2>3. Fetched(s, k, "ok", req[s].fetch[k].seen) \in Request
    BY <1>20, FetchedType
  <2> QED BY <1>23, <2>2, <2>3 DEF ViewFill, Continue, TypeOK, observerVars
<1>24. ASSUME NEW k \in Views, InvalidateDel(s, k) PROVE TypeOK'
  <2>1. IsStore(rView', Views, Entry)
    BY <1>24, DropStore DEF InvalidateDel, TypeOK
  <2> QED BY <1>24, <1>r, <2>1, AfterCommandType DEF InvalidateDel, Continue, TypeOK, observerVars
<1>25. ASSUME NEW x \in Views \cup {"incr"}, LeftoverLost(s, x) PROVE TypeOK'
  BY <1>25, <1>r, AfterCommandType, ContinueType DEF LeftoverLost
<1> QED
  BY <1>1, <1>2, <1>3, <1>4, <1>5, <1>6, <1>7, <1>8, <1>9, <1>10, <1>11, <1>12, <1>13, <1>14,
     <1>15, <1>16, <1>17, <1>18, <1>19, <1>21, <1>22, <1>23, <1>24, <1>25 DEF Step

LEMMA ArrivalType ==
    ASSUME TypeOK, NEW s \in Slots, Arrival(s)
    PROVE  TypeOK'
<1>a. Arrived \in Request
  BY ArrivedType
<1>1. CASE BatchStart(s)
  <2>1. CASE lVer.v # 0
    <3>1. [Arrived EXCEPT !.clean = @ /\ lVer.clean] \in Request /\ lVer.v \in Nat
      BY <1>a DEF Request, TypeOK, VersionEntry
    <3> QED BY <1>1, <2>1, <3>1, WithVersionType, ContinueType DEF BatchStart
  <2>2. CASE lVer.v = 0
    <3>1. [Arrived EXCEPT !.pc = "vget"] \in Request
      BY <1>a DEF Request
    <3> QED BY <1>1, <2>2, <3>1, ContinueType DEF BatchStart
  <2> QED BY <2>1, <2>2
<1>2. ASSUME NEW e, NEW K, ReadStart(s, e, K) PROVE TypeOK'
  <2>1. [Arrived EXCEPT !.pc = "read"] \in Request
    BY <1>a DEF Request
  <2> QED BY <1>2, <2>1, StartFetchType, ContinueType DEF ReadStart
<1>3. ASSUME NEW e, NEW K \in SUBSET Cards, Write(s, e, K) PROVE TypeOK'
  <2>1. [NoRequest EXCEPT !.pc = "purge", !.cards = K, !.todo = Views \cup {"incr"},
                          !.clean = ~Invalidating] \in Request
    BY NoRequestType DEF Request
  <2>2. \A t \in Slots : [req[t] EXCEPT !.clean = FALSE] \in Request
    BY DEF Request, TypeOK
  <2>3. req' \in [Slots -> Request]
    BY <1>3, <2>1, <2>2 DEF Write, TypeOK
  <2>4. answers' \in 0..MaxAnswers /\ answered' \subseteq Cards
    BY <1>3, BoundsAssumption DEF Write, MayWrite, TypeOK
  <2> QED BY <1>3, <2>3, <2>4 DEF Write, TypeOK, cacheVars, observerVars
<1>4. ASSUME NEW e, NEW K \in SUBSET Cards, WriteFails(s, e, K) PROVE TypeOK'
  <2>1. answers' \in 0..MaxAnswers /\ answered' \subseteq Cards
    BY <1>4, BoundsAssumption DEF WriteFails, MayWrite, TypeOK
  <2> QED BY <1>4, <2>1 DEF WriteFails, TypeOK, cacheVars, observerVars
<1> QED BY <1>1, <1>2, <1>3, <1>4 DEF Arrival

LEMMA ExpiryType ==
    ASSUME TypeOK, Expiry \/ Crash
    PROVE  TypeOK'
<1>1. ASSUME NEW k \in Views, RedisViewExpires(k) PROVE TypeOK'
  <2>1. IsStore(rView', Views, Entry)
    BY <1>1, DropStore DEF RedisViewExpires, TypeOK
  <2> QED BY <1>1, <2>1 DEF RedisViewExpires, TypeOK, observerVars
<1>2. ASSUME NEW k \in Views, LocalViewExpires(k) PROVE TypeOK'
  <2>1. IsStore(lView', Views, Entry)
    BY <1>2, DropStore DEF LocalViewExpires, TypeOK
  <2> QED BY <1>2, <2>1 DEF LocalViewExpires, TypeOK, observerVars
<1>3. ASSUME NEW v, RedisBatchExpires(v) PROVE TypeOK'
  <2>1. IsStore(rBatch', Nat \ {0}, Entry)
    BY <1>3, DropStore DEF RedisBatchExpires, TypeOK
  <2> QED BY <1>3, <2>1 DEF RedisBatchExpires, TypeOK, observerVars
<1>4. ASSUME NEW v, LocalBatchExpires(v) PROVE TypeOK'
  <2>1. IsStore(lBatch', Nat \ {0}, Entry)
    BY <1>4, DropStore DEF LocalBatchExpires, TypeOK
  <2> QED BY <1>4, <2>1 DEF LocalBatchExpires, TypeOK, observerVars
<1>5. CASE RedisVersionExpires
  BY <1>5 DEF RedisVersionExpires, TypeOK, observerVars
<1>6. CASE LocalVersionExpires
  BY <1>6 DEF LocalVersionExpires, TypeOK, VersionEntry, observerVars
<1>7. CASE Crash
  <2>1. IsStore(lView', Views, Entry) /\ IsStore(lBatch', Nat \ {0}, Entry)
    BY <1>7, EmptyStore DEF Crash
  <2>2. \A t \in Slots : [req[t] EXCEPT !.pc = "leftover"] \in Request
    BY DEF Request, TypeOK
  <2>3. req' \in [Slots -> Request]
    BY <1>7, <2>2, NoRequestType DEF Crash, TypeOK
  <2> QED BY <1>7, <2>1, <2>3 DEF Crash, TypeOK, VersionEntry, observerVars
<1> QED BY <1>1, <1>2, <1>3, <1>4, <1>5, <1>6, <1>7 DEF Expiry

\* Every variable keeps its type, whatever the requests in progress, the faults
\* and the expiries.
THEOREM TypeCorrect == Spec => []TypeOK
<1>1. TypeOK /\ [Next]_vars => TypeOK'
  <2> SUFFICES ASSUME TypeOK, [Next]_vars PROVE TypeOK'
    OBVIOUS
  <2>1. CASE UNCHANGED vars
    BY <2>1 DEF vars, cacheVars, observerVars, TypeOK
  <2>2. CASE Next
    BY <2>2, ArrivalType, StepType, ExpiryType DEF Next
  <2> QED BY <2>1, <2>2
<1> QED BY <1>1, InitType, PTL DEF Spec

-------------------------------------------------------------------------------
(* Freshness of the views.                                                 *)

\* What ViewInv says of one request.
RequestInv(r) ==
    /\ r.cards \subseteq answered
    /\ CommandsOwned(r)
    /\ CleanAlone(r)
    /\ FetchesFresh(r)
    /\ DeletedNotClean(r)

Purging(r) == r.pc \in {"purge", "leftover"}

LEMMA NoRequestInv == RequestInv(NoRequest)
BY DEF RequestInv, NoRequest, CommandsOwned, CleanAlone, FetchesFresh, DeletedNotClean

\* A request that moves on, other than by ending an invalidation, leaves the
\* answers and the other requests' invariant alone.
LEMMA ReadStep ==
    ASSUME TypeOK, ViewInv, NEW s \in Slots, NEW r, Continue(s, r),
           ~Purging(req[s]), ~Purging(r), RequestInv(r),
           UNCHANGED <<answered, rView, lView, observerVars>>
    PROVE  ViewInv'
<1>1. Invalidating' = Invalidating
  BY DEF Continue, Invalidating, Purging, TypeOK
<1>2. \A t \in Slots : RequestInv(req'[t])
  BY DEF Continue, ViewInv, RequestInv, TypeOK
<1>3. \A t \in Slots : RequestInv(req[t])'
  BY <1>1, <1>2 DEF RequestInv, CommandsOwned, CleanAlone, FetchesFresh, DeletedNotClean, Purged, observerVars
<1>4. ViewsFresh' /\ (acked \subseteq answered)'
  BY DEF ViewInv, ViewsFresh, Purged, observerVars
<1> QED BY <1>3, <1>4 DEF ViewInv, RequestInv

\* A fetch that has moved on keeps its request's invariant if a clean request's
\* new value is fresh.
LEMMA FetchedInv ==
    ASSUME TypeOK, ViewInv, NEW s \in Slots, NEW k \in Views,
           req[s].pc \in {"views", "read"},
           NEW stage \in {"get", "db", "set", "reply", "ok"}, NEW value \in SUBSET Cards,
           req[s].clean /\ stage \in {"set", "reply", "ok"} => Purged \subseteq value
    PROVE  /\ RequestInv(Fetched(s, k, stage, value))
           /\ Fetched(s, k, stage, value).pc = req[s].pc
           /\ Fetched(s, k, stage, value).clean = req[s].clean
<1> DEFINE r == Fetched(s, k, stage, value)
<1>1. req[s] \in Request
  BY DEF TypeOK
<1>2. /\ r.pc = req[s].pc /\ r.clean = req[s].clean /\ r.cards = req[s].cards /\ r.todo = req[s].todo
      /\ r.fetch = [req[s].fetch EXCEPT ![k] = [at |-> stage, seen |-> value]]
  BY <1>1 DEF Fetched, Request
<1>3. \A j \in Views : r.fetch[j] = IF j = k THEN [at |-> stage, seen |-> value] ELSE req[s].fetch[j]
  BY <1>1, <1>2 DEF Request
<1>4. RequestInv(req[s])
  BY DEF ViewInv, RequestInv
<1> HIDE DEF r
<1>5. RequestInv(r)
  BY <1>2, <1>3, <1>4 DEF RequestInv, CommandsOwned, CleanAlone, FetchesFresh, DeletedNotClean
<1> QED BY <1>2, <1>5 DEF r

\* Starting to fetch views keeps the invariant: a local hit of a clean entry is fresh.
LEMMA StartFetchInv ==
    ASSUME TypeOK, ViewInv, NEW r \in Request, NEW K, r.pc \in {"views", "read"},
           r.cards \subseteq answered, r.todo = {}, r.clean => ~Invalidating
    PROVE  /\ RequestInv(StartFetch(r, K))
           /\ ~Purging(StartFetch(r, K))
<1> DEFINE q == StartFetch(r, K)
<1>1. /\ q.pc = r.pc /\ q.cards = r.cards /\ q.todo = r.todo
      /\ q.clean = (r.clean /\ \A k \in K \cap DOMAIN lView : lView[k].clean)
      /\ q.fetch = [k \in Views |->
                      IF k \notin K THEN NoFetch
                      ELSE IF k \in DOMAIN lView
                           THEN [at |-> "ok", seen |-> lView[k].seen]
                           ELSE [at |-> "get", seen |-> {}]]
  BY DEF StartFetch, Request
<1> HIDE DEF q
<1>2. FetchesFresh(q)
  <2> SUFFICES ASSUME q.clean, NEW k \in Views, q.fetch[k].at \in {"set", "reply", "ok"}
               PROVE  Purged \subseteq q.fetch[k].seen
    BY DEF FetchesFresh
  <2>1. k \in K \cap DOMAIN lView /\ q.fetch[k].seen = lView[k].seen
    BY <1>1 DEF NoFetch
  <2>2. lView[k].clean
    BY <1>1, <2>1
  <2> QED BY <2>1, <2>2 DEF ViewInv, ViewsFresh
<1>3. RequestInv(q) /\ ~Purging(q)
  BY <1>1, <1>2 DEF RequestInv, CommandsOwned, CleanAlone, DeletedNotClean, Purging
<1> QED BY <1>3 DEF q

\* Looking a batch up leaves nothing of the views in hand.
LEMMA WithVersionInv ==
    ASSUME TypeOK, NEW r \in Request, NEW v \in Nat, r.pc \notin {"purge", "leftover"},
           r.cards \subseteq answered, r.todo = {}, r.clean => ~Invalidating
    PROVE  RequestInv(WithVersion(r, v)) /\ ~Purging(WithVersion(r, v))
<1> DEFINE q == WithVersion(r, v)
<1>1. q.pc \in {"served", "bget"} /\ q.cards = r.cards /\ q.todo = r.todo /\ (q.clean => r.clean)
  BY DEF WithVersion, Request
<1> HIDE DEF q
<1>2. RequestInv(q) /\ ~Purging(q)
  BY <1>1 DEF RequestInv, CommandsOwned, CleanAlone, FetchesFresh, DeletedNotClean, Purging
<1> QED BY <1>2 DEF q

LEMMA InitViewInv == Init => ViewInv
<1> SUFFICES ASSUME Init PROVE ViewInv
  OBVIOUS
<1>1. \A s \in Slots : RequestInv(req[s])
  BY NoRequestInv DEF Init
<1>2. ViewsFresh
  BY EmptyStore DEF Init, ViewsFresh, Empty
<1> QED BY <1>1, <1>2 DEF Init, ViewInv, RequestInv

\* A read that has no view in hand moves on without becoming clean.
LEMMA PlainStep ==
    ASSUME TypeOK, ViewInv, NEW s \in Slots, NEW r, Continue(s, r),
           req[s].pc \notin {"idle", "purge", "leftover"},
           r.pc \notin {"views", "read", "purge", "leftover"},
           r.cards = req[s].cards, r.todo = req[s].todo, r.clean => req[s].clean,
           UNCHANGED <<answered, rView, lView, observerVars>>
    PROVE  ViewInv'
<1>1. RequestInv(r)
  BY DEF ViewInv, RequestInv, CommandsOwned, CleanAlone, FetchesFresh, DeletedNotClean
<1> QED BY <1>1, ReadStep DEF Purging

\* Of the requests in progress while an invalidation is, the reads are not clean.
LEMMA ReadsNotClean ==
    ASSUME ViewInv, Invalidating, NEW t \in Slots, req[t].pc \notin {"idle", "purge", "leftover"}
    PROVE  ~req[t].clean
BY DEF ViewInv, CleanAlone

LEMMA ReadStepInv ==
    ASSUME TypeOK, ViewInv, NEW s \in Slots,
           \/ VersionGet(s) \/ VersionGetFails(s) \/ VersionFound(s) \/ VersionAbsent(s)
           \/ BatchHit(s) \/ BatchMiss(s) \/ FetchViews(s) \/ RankPage(s)
           \/ BatchSet(s) \/ BatchSetFails(s) \/ BatchFill(s) \/ ReadServe(s) \/ Finish(s)
    PROVE  ViewInv'
<1> USE DEF At
<1>r. req[s] \in Request
  BY DEF TypeOK
<1>i. /\ req[s].cards \subseteq answered
      /\ req[s].pc \notin {"idle", "purge", "leftover"} =>
           req[s].todo = {} /\ (req[s].clean => ~Invalidating)
  BY DEF ViewInv, CommandsOwned, CleanAlone
<1>1. CASE VersionGet(s)
  BY <1>1, <1>r, PlainStep DEF VersionGet, cacheVars, Request
<1>2. CASE VersionGetFails(s)
  BY <1>2, <1>r, PlainStep DEF VersionGetFails, cacheVars, Request
<1>3. CASE VersionFound(s)
  <2>1. RequestInv(WithVersion(req[s], req[s].ver)) /\ ~Purging(WithVersion(req[s], req[s].ver))
    BY <1>3, <1>r, <1>i, RequestFields, WithVersionInv DEF VersionFound
  <2> QED BY <1>3, <2>1, ReadStep DEF VersionFound, Purging
<1>4. CASE VersionAbsent(s)
  <2>1. RequestInv(WithVersion(req[s], 1)) /\ ~Purging(WithVersion(req[s], 1))
    BY <1>4, <1>r, <1>i, WithVersionInv DEF VersionAbsent
  <2> QED BY <1>4, <2>1, ReadStep DEF VersionAbsent, Purging, cacheVars
<1>5. CASE BatchHit(s)
  BY <1>5, <1>r, PlainStep DEF BatchHit, cacheVars, Request
<1>6. CASE BatchMiss(s)
  BY <1>6, <1>r, PlainStep DEF BatchMiss, cacheVars, Request
<1>7. CASE FetchViews(s)
  <2> DEFINE r == [req[s] EXCEPT !.pc = "views"]
  <2>1. /\ r \in Request /\ r.pc = "views" /\ r.cards = req[s].cards /\ r.todo = req[s].todo
        /\ r.clean = req[s].clean
    BY <1>7, <1>r DEF FetchViews, Request
  <2>2. Continue(s, StartFetch(r, BatchViews))
    BY <1>7 DEF FetchViews
  <2> HIDE DEF r
  <2>3. RequestInv(StartFetch(r, BatchViews)) /\ ~Purging(StartFetch(r, BatchViews))
    BY <1>7, <1>i, <2>1, StartFetchInv DEF FetchViews
  <2> QED BY <1>7, <2>2, <2>3, ReadStep DEF FetchViews, Purging, cacheVars
<1>8. CASE RankPage(s)
  BY <1>8, <1>r, PlainStep DEF RankPage, cacheVars, Request
<1>9. CASE BatchSet(s)
  BY <1>9, <1>r, PlainStep DEF BatchSet, Request
<1>10. CASE BatchSetFails(s)
  BY <1>10, <1>r, PlainStep DEF BatchSetFails, cacheVars, Request
<1>11. CASE BatchFill(s)
  BY <1>11, <1>r, PlainStep DEF BatchFill, Request
<1>12. CASE ReadServe(s)
  BY <1>12, <1>r, PlainStep DEF ReadServe, cacheVars, Request
<1>13. CASE Finish(s)
  BY <1>13, NoRequestInv, ReadStep DEF Finish, Purging, NoRequest, cacheVars
<1> QED BY <1>1, <1>2, <1>3, <1>4, <1>5, <1>6, <1>7, <1>8, <1>9, <1>10, <1>11, <1>12, <1>13

LEMMA FetchStepInv ==
    ASSUME TypeOK, ViewInv, NEW s \in Slots, NEW k \in Views,
           \/ ViewHit(s, k) \/ ViewMiss(s, k) \/ ViewQuery(s, k)
           \/ ViewSet(s, k) \/ ViewSetFails(s, k) \/ ViewFill(s, k)
    PROVE  ViewInv'
<1>r. req[s] \in Request /\ req[s].fetch[k].seen \in SUBSET Cards
  BY DEF TypeOK, Request, Fetch
<1>a. answered \in SUBSET Cards /\ Purged \subseteq answered
  BY DEF TypeOK, ViewInv, Purged
<1>p. req[s].pc \in {"views", "read"}
  BY DEF ViewHit, ViewMiss, ViewQuery, ViewSet, ViewSetFails, ViewFill, Fetching
<1>f. req[s].clean /\ req[s].fetch[k].at \in {"set", "reply", "ok"} =>
        Purged \subseteq req[s].fetch[k].seen
  BY <1>p DEF ViewInv, FetchesFresh
<1>1. CASE ViewHit(s, k)
  <2> DEFINE hit == Fetched(s, k, "reply", rView[k].seen)
             r   == [hit EXCEPT !.clean = @ /\ rView[k].clean]
  <2>1. rView[k] \in Entry /\ k \in DOMAIN rView
    BY <1>1 DEF ViewHit, TypeOK, IsStore
  <2>2. hit \in Request
    BY <2>1, FetchedType DEF Entry
  <2>3. /\ hit.pc = req[s].pc /\ hit.cards = req[s].cards /\ hit.todo = req[s].todo
        /\ hit.clean = req[s].clean
        /\ hit.fetch = [req[s].fetch EXCEPT ![k] = [at |-> "reply", seen |-> rView[k].seen]]
    BY <1>r DEF Fetched, Request
  <2>4. Continue(s, r)
    BY <1>1 DEF ViewHit
  <2>5. /\ r.pc = req[s].pc /\ r.cards = req[s].cards /\ r.todo = req[s].todo
        /\ r.clean = (req[s].clean /\ rView[k].clean)
        /\ r.fetch = [req[s].fetch EXCEPT ![k] = [at |-> "reply", seen |-> rView[k].seen]]
    BY <2>2, <2>3 DEF Request
  <2> HIDE DEF r, hit
  <2>6. FetchesFresh(r)
    <3> SUFFICES ASSUME r.clean, NEW j \in Views, r.fetch[j].at \in {"set", "reply", "ok"}
                 PROVE  Purged \subseteq r.fetch[j].seen
      BY DEF FetchesFresh
    <3>1. CASE j = k
      <4>1. r.fetch[k].seen = rView[k].seen
        BY <1>r, <2>5 DEF Request
      <4>2. rView[k].clean
        BY <2>5
      <4> QED BY <2>1, <3>1, <4>1, <4>2 DEF ViewInv, ViewsFresh
    <3>2. CASE j # k
      BY <1>r, <1>p, <2>5, <3>2 DEF ViewInv, FetchesFresh, Request
    <3> QED BY <3>1, <3>2
  <2>7. RequestInv(r)
    BY <1>p, <2>5, <2>6 DEF ViewInv, RequestInv, CommandsOwned, CleanAlone, DeletedNotClean
  <2> QED BY <1>1, <1>p, <2>4, <2>5, <2>7, ReadStep DEF ViewHit, Purging, cacheVars
<1>2. CASE ViewMiss(s, k)
  BY <1>2, <1>p, FetchedInv, ReadStep DEF ViewMiss, Purging, cacheVars
<1>3. CASE ViewQuery(s, k)
  BY <1>3, <1>p, <1>a, FetchedInv, ReadStep DEF ViewQuery, Purging, cacheVars
<1>4. CASE ViewSetFails(s, k)
  BY <1>4, <1>p, <1>r, <1>f, FetchedInv, ReadStep DEF ViewSetFails, Fetching, Purging, cacheVars
<1>5. CASE ViewSet(s, k)
  <2> DEFINE r == Fetched(s, k, "reply", req[s].fetch[k].seen)
             e == [seen |-> req[s].fetch[k].seen, clean |-> req[s].clean]
  <2>1. RequestInv(r) /\ r.pc = req[s].pc /\ r.clean = req[s].clean
    BY <1>5, <1>p, <1>r, <1>f, FetchedInv DEF ViewSet, Fetching
  <2>2. e \in Entry /\ (e.clean => Purged \subseteq e.seen) /\ (e.clean => ~Invalidating)
    BY <1>5, <1>r, <1>p, <1>f DEF ViewSet, Fetching, Entry, Request, ViewInv, CleanAlone
  <2>3. Continue(s, r) /\ rView' = Put(rView, k, e)
    BY <1>5 DEF ViewSet
  <2> HIDE DEF r, e
  <2>4. /\ DOMAIN rView' = DOMAIN rView \cup {k}
        /\ rView'[k] = e
        /\ \A j \in DOMAIN rView : j # k => rView'[j] = rView[j]
    <3>1. /\ DOMAIN Put(rView, k, e) = DOMAIN rView \cup {k}
          /\ Put(rView, k, e)[k] = e
          /\ \A j \in DOMAIN rView : j # k => Put(rView, k, e)[j] = rView[j]
      BY DEF Put
    <3> QED BY <2>3, <3>1
  <2>5. Invalidating' = Invalidating
    BY <1>p, <2>1, <2>3 DEF Continue, Invalidating, TypeOK
  <2>6. ViewsFresh'
    BY <1>5, <2>2, <2>4 DEF ViewSet, ViewInv, ViewsFresh, Purged, observerVars
  <2>7. ASSUME NEW t \in Slots PROVE RequestInv(req'[t]) /\ (Purging(req'[t]) => Invalidating)
    BY <1>p, <2>1, <2>3 DEF Continue, TypeOK, ViewInv, RequestInv, Purging, Invalidating
  <2>8. ASSUME NEW t \in Slots PROVE RequestInv(req[t])'
    <3>1. DeletedNotClean(req[t])'
      BY <2>2, <2>4, <2>7 DEF DeletedNotClean, RequestInv, Purging
    <3> QED BY <1>5, <2>5, <2>7, <3>1
         DEF ViewSet, RequestInv, CommandsOwned, CleanAlone, FetchesFresh, Purged, observerVars
  <2> QED BY <1>5, <2>6, <2>8 DEF ViewSet, ViewInv, RequestInv, observerVars
<1>6. CASE ViewFill(s, k)
  <2> DEFINE r == Fetched(s, k, "ok", req[s].fetch[k].seen)
             e == [seen |-> req[s].fetch[k].seen, clean |-> req[s].clean]
  <2>1. RequestInv(r) /\ r.pc = req[s].pc
    BY <1>6, <1>p, <1>r, <1>f, FetchedInv DEF ViewFill, Fetching
  <2>2. e \in Entry /\ (e.clean => Purged \subseteq e.seen)
    BY <1>6, <1>r, <1>f DEF ViewFill, Fetching, Entry, Request
  <2>3. Continue(s, r) /\ lView' = Put(lView, k, e)
    BY <1>6 DEF ViewFill
  <2> HIDE DEF r, e
  <2>4. /\ DOMAIN lView' = DOMAIN lView \cup {k}
        /\ lView'[k] = e
        /\ \A j \in DOMAIN lView : j # k => lView'[j] = lView[j]
    <3>1. /\ DOMAIN Put(lView, k, e) = DOMAIN lView \cup {k}
          /\ Put(lView, k, e)[k] = e
          /\ \A j \in DOMAIN lView : j # k => Put(lView, k, e)[j] = lView[j]
      BY DEF Put
    <3> QED BY <2>3, <3>1
  <2>5. Invalidating' = Invalidating
    BY <1>p, <2>1, <2>3 DEF Continue, Invalidating, TypeOK
  <2>6. ViewsFresh'
    BY <1>6, <2>2, <2>4 DEF ViewFill, ViewInv, ViewsFresh, Purged, observerVars
  <2>7. \A t \in Slots : RequestInv(req'[t])
    BY <2>1, <2>3 DEF Continue, TypeOK, ViewInv, RequestInv
  <2>8. \A t \in Slots : RequestInv(req[t])'
    BY <1>6, <2>5, <2>7 DEF ViewFill, RequestInv, CommandsOwned, CleanAlone, FetchesFresh,
                            DeletedNotClean, Purged, observerVars
  <2> QED BY <1>6, <2>6, <2>8 DEF ViewFill, ViewInv, RequestInv, observerVars
<1> QED BY <1>1, <1>2, <1>3, <1>4, <1>5, <1>6

\* A step after which every entry still stored is as it was, no answer is newly
\* due, and every request is as it was or keeps its own invariant, keeps ViewInv.
LEMMA ShrinkStep ==
    ASSUME TypeOK, ViewInv,
           (acked \subseteq answered)', answered \subseteq answered', Purged' \subseteq Purged,
           DOMAIN rView' \subseteq DOMAIN rView, \A k \in DOMAIN rView' : rView'[k] = rView[k],
           DOMAIN lView' \subseteq DOMAIN lView, \A k \in DOMAIN lView' : lView'[k] = lView[k],
           \A t \in Slots :
              /\ req'[t].cards \subseteq answered'
              /\ CommandsOwned(req'[t])
              /\ CleanAlone(req[t])'
              /\ FetchesFresh(req'[t])
              /\ DeletedNotClean(req[t])'
    PROVE  ViewInv'
<1>1. ViewsFresh'
  BY DEF ViewInv, ViewsFresh
<1>2. \A t \in Slots : FetchesFresh(req[t])' /\ CommandsOwned(req[t])'
  BY DEF FetchesFresh, CommandsOwned
<1> QED BY <1>1, <1>2 DEF ViewInv

LEMMA InvalidateStepInv ==
    ASSUME TypeOK, ViewInv, NEW s \in Slots,
           \/ InvalidateIncr(s) \/ InvalidateDone(s) \/ InvalidateFails(s)
           \/ \E k \in Views : InvalidateDel(s, k)
           \/ \E x \in Views \cup {"incr"} : LeftoverLost(s, x)
    PROVE  ViewInv'
<1> USE DEF At
<1>r. req[s] \in Request /\ NoRequest \in Request
  BY NoRequestType DEF TypeOK
<1>i. \A t \in Slots : RequestInv(req[t])
  BY DEF ViewInv, RequestInv
<1>c. ASSUME NEW t \in Slots, req[t].pc \notin {"idle", "purge", "leftover"}, req[t].clean
      PROVE  ~Invalidating
  BY <1>c DEF ViewInv, CleanAlone
<1>n. NoRequest.pc = "idle" /\ NoRequest.cards = {} /\ NoRequest.todo = {}
  BY DEF NoRequest
<1>p. Purging(req[s]) /\ Invalidating
  BY <1>i DEF InvalidateIncr, InvalidateDone, InvalidateFails, InvalidateDel, LeftoverLost,
              RequestInv, CommandsOwned, Purging, Invalidating
\* After one more command the request is over, or has that command less to wait for.
<1>a. ASSUME NEW q \in Request, NEW x, q.pc = req[s].pc, q.cards = req[s].cards, q.todo = req[s].todo,
             Continue(s, AfterCommand(q, x)), x \in req[s].todo
      PROVE  \/ req'[s] = NoRequest
             \/ /\ req'[s].pc = req[s].pc /\ req'[s].cards = req[s].cards
                /\ req'[s].todo = req[s].todo \ {x}
  <2>1. req'[s] = AfterCommand(q, x)
    BY <1>a DEF Continue, TypeOK
  <2> QED BY <1>a, <2>1 DEF AfterCommand, Request
\* Such a step keeps the invariant if the view it has deleted is gone.
<1>b. ASSUME NEW x,
             \/ req'[s] = NoRequest
             \/ /\ req'[s].pc = req[s].pc /\ req'[s].cards = req[s].cards
                /\ req'[s].todo = req[s].todo \ {x},
             \A t \in Slots \ {s} : req'[t] = req[t],
             UNCHANGED <<answered, lView, observerVars>>,
             DOMAIN rView' \subseteq DOMAIN rView, \A k \in DOMAIN rView' : rView'[k] = rView[k],
             req[s].pc = "purge" /\ x \in Views => x \notin DOMAIN rView'
      PROVE  ViewInv'
  <2>1. ASSUME NEW t \in Slots
        PROVE  /\ req'[t].cards \subseteq answered'
               /\ CommandsOwned(req'[t])
               /\ FetchesFresh(req'[t])
    BY <1>b, <1>i, <1>n, <1>p DEF RequestInv, CommandsOwned, FetchesFresh, Purging
  <2>2. ASSUME NEW t \in Slots PROVE DeletedNotClean(req[t])'
    BY <1>b, <1>i, <1>n DEF RequestInv, DeletedNotClean
  <2>3. ASSUME NEW t \in Slots PROVE CleanAlone(req[t])'
    BY <1>b, <1>c, <1>n, <1>p DEF CleanAlone, Purging
  <2>4. (acked \subseteq answered)' /\ Purged' = Purged
    BY <1>b DEF ViewInv, Purged, observerVars
  <2> QED BY <1>b, <2>1, <2>2, <2>3, <2>4, ShrinkStep
<1>1. CASE InvalidateIncr(s)
  <2> DEFINE q == [req[s] EXCEPT !.ver = rVer + 1]
  <2>1. q \in Request /\ q.pc = req[s].pc /\ q.cards = req[s].cards /\ q.todo = req[s].todo
    BY <1>r DEF Request, TypeOK
  <2>2. Continue(s, AfterCommand(q, "incr"))
    BY <1>1 DEF InvalidateIncr
  <2> HIDE DEF q
  <2>3. "incr" \notin Views /\ \A t \in Slots \ {s} : req'[t] = req[t]
    BY <2>2, ViewsAssumption DEF Continue, TypeOK, Views
  <2> QED BY <1>1, <1>a, <1>b, <2>1, <2>2, <2>3 DEF InvalidateIncr
<1>2. ASSUME NEW k \in Views, InvalidateDel(s, k) PROVE ViewInv'
  <2>1. k \in req[s].todo /\ Continue(s, AfterCommand(req[s], k))
    BY <1>2 DEF InvalidateDel
  <2>2. \A t \in Slots \ {s} : req'[t] = req[t]
    BY <2>1 DEF Continue, TypeOK
  <2>3. DOMAIN rView' = DOMAIN rView \ {k} /\ \A j \in DOMAIN rView' : rView'[j] = rView[j]
    <3>1. rView' = Drop(rView, {k})
      BY <1>2 DEF InvalidateDel
    <3>2. /\ DOMAIN Drop(rView, {k}) = DOMAIN rView \ {k}
          /\ \A j \in DOMAIN rView \ {k} : Drop(rView, {k})[j] = rView[j]
      BY DropEntries
    <3> QED BY <3>1, <3>2
  <2> QED BY <1>2, <1>r, <1>a, <1>b, <2>1, <2>2, <2>3 DEF InvalidateDel
<1>3. ASSUME NEW x \in Views \cup {"incr"}, LeftoverLost(s, x) PROVE ViewInv'
  <2>1. x \in req[s].todo /\ Continue(s, AfterCommand(req[s], x)) /\ req[s].pc = "leftover"
    BY <1>3 DEF LeftoverLost
  <2>2. \A t \in Slots \ {s} : req'[t] = req[t]
    BY <2>1 DEF Continue, TypeOK
  <2> QED BY <1>3, <1>r, <1>a, <1>b, <2>1, <2>2 DEF LeftoverLost, cacheVars
<1>4. CASE InvalidateFails(s)
  <2>1. /\ \A t \in Slots \ {s} : req'[t] = req[t]
        /\ req'[s] = IF req[s].todo = {} THEN NoRequest ELSE [req[s] EXCEPT !.pc = "leftover"]
    BY <1>4 DEF InvalidateFails, Continue, TypeOK
  <2>2. \/ req'[s] = NoRequest
        \/ req'[s].pc = "leftover" /\ req'[s].cards = req[s].cards
    BY <1>r, <2>1 DEF Request
  <2>3. /\ (acked \subseteq answered)' /\ answered' = answered /\ Purged' \subseteq Purged
        /\ rView' = rView /\ lView' = lView
    BY <1>4, <1>i DEF InvalidateFails, ViewInv, Purged, RequestInv, cacheVars
  <2>4. ASSUME NEW t \in Slots
        PROVE  /\ req'[t].cards \subseteq answered' /\ CommandsOwned(req'[t])
               /\ FetchesFresh(req'[t]) /\ DeletedNotClean(req[t])'
    BY <1>i, <1>n, <2>1, <2>2, <2>3
    DEF RequestInv, CommandsOwned, FetchesFresh, DeletedNotClean
  <2>5. ASSUME NEW t \in Slots PROVE CleanAlone(req[t])'
    BY <1>c, <1>n, <1>p, <2>1, <2>2 DEF CleanAlone, Purging
  <2> QED BY <2>3, <2>4, <2>5, ShrinkStep
<1>5. CASE InvalidateDone(s)
  <2>1. req'[s] = NoRequest /\ \A t \in Slots \ {s} : req'[t] = req[t]
    BY <1>5 DEF InvalidateDone, Continue, TypeOK
  <2>2. ViewsFresh'
    <3>1. \A k \in DOMAIN rView : ~rView[k].clean
      BY <1>5, <1>i DEF InvalidateDone, RequestInv, DeletedNotClean, TypeOK, IsStore
    <3>2. rView' = rView /\ DOMAIN lView' = {}
      BY <1>5, EmptyStore DEF InvalidateDone
    <3> QED BY <3>1, <3>2 DEF ViewsFresh
  <2>3. ASSUME NEW t \in Slots
        PROVE  /\ CleanAlone(req[t])' /\ FetchesFresh(req[t])'
    BY <1>c, <1>n, <1>p, <2>1 DEF CleanAlone, FetchesFresh, Purging
  <2>4. ASSUME NEW t \in Slots
        PROVE  /\ (req[t].cards \subseteq answered)' /\ CommandsOwned(req[t])'
               /\ DeletedNotClean(req[t])'
    BY <1>5, <1>i, <1>n, <2>1 DEF InvalidateDone, RequestInv, CommandsOwned, DeletedNotClean
  <2>5. (acked \subseteq answered)'
    BY <1>5, <1>i DEF InvalidateDone, ViewInv, RequestInv
  <2> QED BY <2>2, <2>3, <2>4, <2>5 DEF ViewInv
<1> QED BY <1>1, <1>2, <1>3, <1>4, <1>5

LEMMA ArrivalInv ==
    ASSUME TypeOK, ViewInv, NEW s \in Slots, Arrival(s)
    PROVE  ViewInv'
<1> USE DEF At
<1>i. \A t \in Slots : RequestInv(req[t])
  BY DEF ViewInv, RequestInv
<1>a. /\ Arrived \in Request /\ Arrived.pc = "idle" /\ Arrived.cards = {} /\ Arrived.todo = {}
      /\ Arrived.clean => ~Invalidating
  BY ArrivedType DEF Arrived, NoRequest
<1>1. CASE BatchStart(s)
  <2>1. CASE lVer.v # 0
    <3> DEFINE r == [Arrived EXCEPT !.clean = @ /\ lVer.clean]
    <3>1. /\ r \in Request /\ r.pc = "idle" /\ r.cards = {} /\ r.todo = {}
          /\ r.clean => Arrived.clean
          /\ lVer.v \in Nat
      BY <1>a DEF Request, TypeOK, VersionEntry
    <3>2. Continue(s, WithVersion(r, lVer.v))
      BY <1>1, <2>1 DEF BatchStart
    <3> HIDE DEF r
    <3>3. RequestInv(WithVersion(r, lVer.v)) /\ ~Purging(WithVersion(r, lVer.v))
      BY <1>a, <3>1, WithVersionInv
    <3> QED BY <1>1, <3>2, <3>3, ReadStep DEF BatchStart, Purging, cacheVars
  <2>2. CASE lVer.v = 0
    <3> DEFINE r == [Arrived EXCEPT !.pc = "vget"]
    <3>1. r.pc = "vget" /\ r.cards = {} /\ r.todo = {} /\ r.clean = Arrived.clean
      BY <1>a DEF Request
    <3>2. Continue(s, r)
      BY <1>1, <2>2 DEF BatchStart
    <3> HIDE DEF r
    <3>3. RequestInv(r)
      BY <1>a, <3>1 DEF RequestInv, CommandsOwned, CleanAlone, FetchesFresh, DeletedNotClean
    <3> QED BY <1>1, <3>1, <3>2, <3>3, ReadStep DEF BatchStart, Purging, cacheVars
  <2> QED BY <2>1, <2>2
<1>2. ASSUME NEW e, NEW K, ReadStart(s, e, K) PROVE ViewInv'
  <2> DEFINE r == [Arrived EXCEPT !.pc = "read"]
  <2>1. /\ r \in Request /\ r.pc = "read" /\ r.cards = {} /\ r.todo = {}
        /\ r.clean = Arrived.clean
    BY <1>a DEF Request
  <2>2. Continue(s, StartFetch(r, K))
    BY <1>2 DEF ReadStart
  <2> HIDE DEF r
  <2>3. RequestInv(StartFetch(r, K)) /\ ~Purging(StartFetch(r, K))
    BY <1>a, <2>1, StartFetchInv
  <2> QED BY <1>2, <2>2, <2>3, ReadStep DEF ReadStart, Purging, cacheVars
\* From here on every other read in progress is not clean, and the new
\* invalidation has deleted nothing yet.
<1>3. ASSUME NEW e, NEW K \in SUBSET Cards, Write(s, e, K) PROVE ViewInv'
  <2> DEFINE r == [NoRequest EXCEPT !.pc = "purge", !.cards = K, !.todo = Views \cup {"incr"},
                                    !.clean = ~Invalidating]
  <2>1. r.pc = "purge" /\ r.cards = K /\ r.todo = Views \cup {"incr"}
    BY DEF NoRequest
  <2>2. req'[s] = r
    BY <1>3 DEF Write
  <2> HIDE DEF r
  <2>3. ASSUME NEW t \in Slots, t # s
        PROVE  /\ req'[t].pc = req[t].pc /\ req'[t].cards = req[t].cards
               /\ req'[t].todo = req[t].todo
               /\ req[t].pc # "idle" => ~req'[t].clean
    BY <1>3, <2>3 DEF Write, TypeOK, Request
  <2>4. /\ (acked \subseteq answered)' /\ answered' = answered \cup K
        /\ Purged' = Purged /\ rView' = rView /\ lView' = lView
    BY <1>3 DEF Write, ViewInv, Purged, cacheVars, observerVars
  <2>5. ASSUME NEW t \in Slots
        PROVE  /\ req'[t].cards \subseteq answered' /\ CommandsOwned(req'[t])
               /\ DeletedNotClean(req[t])'
    BY <1>i, <2>1, <2>2, <2>3, <2>4 DEF RequestInv, CommandsOwned, DeletedNotClean
  <2>6. ASSUME NEW t \in Slots PROVE CleanAlone(req[t])' /\ FetchesFresh(req'[t])
    BY <2>1, <2>2, <2>3 DEF CleanAlone, FetchesFresh
  <2> QED BY <2>4, <2>5, <2>6, ShrinkStep
<1>4. ASSUME NEW e, NEW K \in SUBSET Cards, WriteFails(s, e, K) PROVE ViewInv'
  <2>1. /\ (acked \subseteq answered)' /\ answered \subseteq answered'
        /\ Purged' = Purged /\ rView' = rView /\ lView' = lView /\ req' = req
    BY <1>4 DEF WriteFails, ViewInv, Purged, cacheVars, observerVars
  <2>2. \A t \in Slots : RequestInv(req[t])'
    BY <1>i, <2>1 DEF RequestInv, CommandsOwned, CleanAlone, FetchesFresh, DeletedNotClean, Invalidating
  <2> QED BY <2>1, <2>2, ShrinkStep DEF RequestInv, CommandsOwned, FetchesFresh
<1> QED BY <1>1, <1>2, <1>3, <1>4 DEF Arrival

LEMMA ExpiryInv ==
    ASSUME TypeOK, ViewInv, Expiry \/ Crash
    PROVE  ViewInv'
<1>i. \A t \in Slots : RequestInv(req[t])
  BY DEF ViewInv, RequestInv
\* An entry that leaves a cache takes nothing else with it.
<1>e. ASSUME UNCHANGED <<answered, req, observerVars>>,
             DOMAIN rView' \subseteq DOMAIN rView, \A k \in DOMAIN rView' : rView'[k] = rView[k],
             DOMAIN lView' \subseteq DOMAIN lView, \A k \in DOMAIN lView' : lView'[k] = lView[k]
      PROVE  ViewInv'
  <2>1. (acked \subseteq answered)' /\ Purged' = Purged
    BY <1>e DEF ViewInv, Purged, observerVars
  <2>2. \A t \in Slots : RequestInv(req[t])'
    BY <1>e, <1>i, <2>1
    DEF RequestInv, CommandsOwned, CleanAlone, FetchesFresh, DeletedNotClean, Invalidating
  <2> QED BY <1>e, <2>1, <2>2, ShrinkStep DEF RequestInv, CommandsOwned, FetchesFresh
<1>1. ASSUME NEW k \in Views, RedisViewExpires(k) PROVE ViewInv'
  <2>1. rView' = Drop(rView, {k})
    BY <1>1 DEF RedisViewExpires
  <2>2. DOMAIN rView' = DOMAIN rView \ {k} /\ \A j \in DOMAIN rView' : rView'[j] = rView[j]
    <3>1. /\ DOMAIN Drop(rView, {k}) = DOMAIN rView \ {k}
          /\ \A j \in DOMAIN rView \ {k} : Drop(rView, {k})[j] = rView[j]
      BY DropEntries
    <3> QED BY <2>1, <3>1
  <2> QED BY <1>1, <1>e, <2>2 DEF RedisViewExpires
<1>2. ASSUME NEW k \in Views, LocalViewExpires(k) PROVE ViewInv'
  <2>1. lView' = Drop(lView, {k})
    BY <1>2 DEF LocalViewExpires
  <2>2. DOMAIN lView' = DOMAIN lView \ {k} /\ \A j \in DOMAIN lView' : lView'[j] = lView[j]
    <3>1. /\ DOMAIN Drop(lView, {k}) = DOMAIN lView \ {k}
          /\ \A j \in DOMAIN lView \ {k} : Drop(lView, {k})[j] = lView[j]
      BY DropEntries
    <3> QED BY <2>1, <3>1
  <2> QED BY <1>2, <1>e, <2>2 DEF LocalViewExpires
<1>3. ASSUME \/ RedisVersionExpires \/ LocalVersionExpires
             \/ \E v \in DOMAIN rBatch : RedisBatchExpires(v)
             \/ \E v \in DOMAIN lBatch : LocalBatchExpires(v)
      PROVE  ViewInv'
  BY <1>3, <1>e DEF RedisBatchExpires, LocalBatchExpires, RedisVersionExpires, LocalVersionExpires
<1>4. CASE Crash
  <2>1. ASSUME NEW t \in Slots
        PROVE  \/ req'[t] = NoRequest
               \/ req'[t].pc = "leftover" /\ req'[t].cards = req[t].cards
    <3>1. req'[t] = IF req[t].todo = {} THEN NoRequest ELSE [req[t] EXCEPT !.pc = "leftover"]
      BY <1>4 DEF Crash
    <3>2. req[t] \in Request
      BY DEF TypeOK
    <3> QED BY <3>1, <3>2 DEF Request
  <2>2. NoRequest.pc = "idle" /\ NoRequest.cards = {} /\ NoRequest.todo = {}
    BY DEF NoRequest
  <2>3. (acked \subseteq answered)' /\ Purged' = Purged /\ answered' = answered /\ rView' = rView
    <3>1. UNCHANGED <<answered, rView, observerVars>>
      BY <1>4 DEF Crash
    <3> QED BY <3>1 DEF ViewInv, Purged, observerVars
  <2>4. DOMAIN lView' = {}
    BY <1>4, EmptyStore DEF Crash
  <2>5. ASSUME NEW t \in Slots
        PROVE  /\ req'[t].cards \subseteq answered' /\ CommandsOwned(req'[t])
               /\ CleanAlone(req[t])' /\ FetchesFresh(req'[t]) /\ DeletedNotClean(req[t])'
    BY <1>i, <2>1, <2>2, <2>3
    DEF RequestInv, CommandsOwned, CleanAlone, FetchesFresh, DeletedNotClean
  <2> QED BY <2>3, <2>4, <2>5, ShrinkStep
<1> QED BY <1>1, <1>2, <1>3, <1>4 DEF Expiry

\* The invariant behind the next theorem is inductive.
THEOREM ViewInvariant == Spec => []ViewInv
<1>1. TypeOK /\ ViewInv /\ [Next]_vars => ViewInv'
  <2> SUFFICES ASSUME TypeOK, ViewInv, [Next]_vars PROVE ViewInv'
    OBVIOUS
  <2>1. CASE UNCHANGED vars
    BY <2>1 DEF vars, cacheVars, observerVars, ViewInv, ViewsFresh, CommandsOwned, CleanAlone,
                FetchesFresh, DeletedNotClean, Purged, Invalidating
  <2>2. ASSUME NEW s \in Slots, Step(s) PROVE ViewInv'
    BY <2>2, ReadStepInv, FetchStepInv, InvalidateStepInv DEF Step
  <2> QED BY <2>1, <2>2, ArrivalInv, ExpiryInv DEF Next
<1> QED BY <1>1, InitViewInv, TypeCorrect, PTL DEF Spec

\* A view in Redis or in the process that no invalidation raced reflects every
\* answer acknowledged and purged, whatever fails, expires or restarts.
THEOREM ViewFreshness == Spec => []ViewsFresh
<1>1. ViewInv => ViewsFresh
  BY DEF ViewInv
<1> QED BY <1>1, ViewInvariant, PTL

-------------------------------------------------------------------------------
(* The batches.  INCR orphans them: for a user whose version key exists    *)
(* and stays in Redis, a batch that no invalidation raced and that is      *)
(* still looked up is fresh, and so is every reply drawn from such values. *)

\* What is stored under version v, and not raced, is fresh.
FreshUnder(v) ==
    /\ v \in DOMAIN rBatch /\ rBatch[v].clean => Purged \subseteq rBatch[v].seen
    /\ v \in DOMAIN lBatch /\ lBatch[v].clean => Purged \subseteq lBatch[v].seen

\* What BatchInv says of one request.
BatchRequestInv(r) ==
    /\ r.ver <= rVer
    /\ LooksUp(r) => FreshUnder(r.ver)
    /\ VersionKnown(r)
    /\ SeenFetched(r)
    /\ PageFresh(r)
    /\ OrphanedNotClean(r)

\* What BatchInv says of the caches.
BatchCacheInv ==
    /\ rVer > 0
    /\ lVer.v <= rVer
    /\ DOMAIN rBatch \subseteq 1..rVer
    /\ DOMAIN lBatch \subseteq 1..rVer
    /\ FreshUnder(rVer)
    /\ lVer.clean => FreshUnder(lVer.v)

\* BatchInv request by request.
LEMMA BatchInvParts ==
    BatchInv <=> BatchCacheInv /\ \A s \in Slots : BatchRequestInv(req[s])
<1>1. BatchesFresh <=> /\ FreshUnder(rVer)
                       /\ lVer.clean => FreshUnder(lVer.v)
                       /\ \A s \in Slots : LooksUp(req[s]) => FreshUnder(req[s].ver)
  BY DEF BatchesFresh, LiveVersions, FreshUnder
<1> QED BY <1>1 DEF BatchInv, BatchCacheInv, BatchRequestInv, VersionsBounded

\* The same of the next state.
LEMMA BatchInvNext ==
    ASSUME BatchCacheInv', \A s \in Slots : BatchRequestInv(req[s])'
    PROVE  BatchInv'
<1>1. BatchesFresh'
  BY DEF BatchesFresh, LiveVersions, FreshUnder, BatchCacheInv, BatchRequestInv
<1> QED BY <1>1 DEF BatchInv, BatchCacheInv, BatchRequestInv, VersionsBounded

\* The request that is over satisfies its part.
LEMMA NoRequestBatchInv == TypeOK => BatchRequestInv(NoRequest)
BY DEF TypeOK, BatchRequestInv, NoRequest, LooksUp, VersionKnown, SeenFetched, PageFresh, OrphanedNotClean

\* A step after which every batch still stored is as it was, no answer is newly
\* due, the version is the same, and every request keeps its part.
LEMMA BatchShrinkStep ==
    ASSUME TypeOK, BatchInv, rVer' = rVer,
           lVer'.v <= rVer, lVer'.clean => FreshUnder(lVer'.v),
           DOMAIN rBatch' \subseteq DOMAIN rBatch, \A v \in DOMAIN rBatch' : rBatch'[v] = rBatch[v],
           DOMAIN lBatch' \subseteq DOMAIN lBatch, \A v \in DOMAIN lBatch' : lBatch'[v] = lBatch[v],
           Purged' \subseteq Purged, acked \subseteq acked',
           \A t \in Slots : BatchRequestInv(req'[t])
    PROVE  BatchInv'
<1>1. BatchCacheInv
  BY BatchInvParts
<1>2. ASSUME NEW v, FreshUnder(v)
      PROVE  /\ v \in DOMAIN rBatch' /\ rBatch'[v].clean => Purged' \subseteq rBatch'[v].seen
             /\ v \in DOMAIN lBatch' /\ lBatch'[v].clean => Purged' \subseteq lBatch'[v].seen
  BY <1>2 DEF FreshUnder
<1>3. BatchCacheInv'
  BY <1>1, <1>2 DEF BatchCacheInv, FreshUnder
<1>4. ASSUME NEW t \in Slots PROVE BatchRequestInv(req[t])'
  BY <1>2 DEF BatchRequestInv, FreshUnder, LooksUp, VersionKnown, SeenFetched, PageFresh, OrphanedNotClean
<1> QED BY <1>3, <1>4, BatchInvNext

\* A step that moves one request on and stores nothing.
LEMMA BatchReadStep ==
    ASSUME TypeOK, BatchInv, NEW s \in Slots, NEW r, Continue(s, r), BatchRequestInv(r),
           UNCHANGED <<rVer, rBatch, lVer, lBatch, observerVars>>
    PROVE  BatchInv'
<1>1. BatchCacheInv /\ \A t \in Slots : BatchRequestInv(req[t])
  BY BatchInvParts
<1>2. \A t \in Slots : BatchRequestInv(req'[t])
  BY <1>1 DEF Continue, TypeOK
<1>3. Purged' = Purged /\ acked' = acked
  BY DEF Purged, observerVars
<1> QED BY <1>1, <1>2, <1>3, BatchShrinkStep DEF BatchCacheInv

\* A request that moves on with the version and the page it has, and no cleaner.
LEMMA SameVersionStep ==
    ASSUME TypeOK, BatchInv, NEW s \in Slots, NEW r, Continue(s, r),
           r.ver = req[s].ver, r.must = req[s].must, r.clean => req[s].clean,
           LooksUp(r) => LooksUp(req[s]), r.pc \notin {"vreply", "views", "purge"},
           r.pc \in {"bset", "breply", "served"} =>
               r.page = req[s].page /\ req[s].pc \in {"bset", "breply", "served"},
           UNCHANGED <<rVer, rBatch, lVer, lBatch, observerVars>>
    PROVE  BatchInv'
<1>1. BatchRequestInv(req[s])
  BY BatchInvParts
<1>2. BatchRequestInv(r)
  BY <1>1 DEF BatchRequestInv, VersionKnown, SeenFetched, PageFresh, OrphanedNotClean
<1> QED BY <1>2, BatchReadStep

\* A batch looked up in the local cache is fresh if the request is clean.
LEMMA WithVersionBatchInv ==
    ASSUME TypeOK, BatchInv, NEW r \in Request, NEW v \in Nat \ {0}, v <= rVer,
           r.clean => FreshUnder(v), r.must \subseteq acked
    PROVE  BatchRequestInv(WithVersion(r, v))
<1>0. rVer \in Nat
  BY DEF TypeOK
<1>1. CASE v \in DOMAIN lBatch
  <2> DEFINE q == [r EXCEPT !.pc = "served", !.ver = 0, !.page = lBatch[v].seen,
                            !.clean = @ /\ lBatch[v].clean]
  <2>1. /\ q.pc = "served" /\ q.ver = 0 /\ q.page = lBatch[v].seen /\ q.must = r.must
        /\ q.clean = (r.clean /\ lBatch[v].clean)
    BY DEF Request
  <2>2. WithVersion(r, v) = q
    BY <1>1 DEF WithVersion
  <2> HIDE DEF q
  <2>3. q.clean => r.clean /\ lBatch[v].clean
    BY <2>1
  <2>4. q.clean => Purged \subseteq q.page
    BY <1>1, <2>1, <2>3 DEF FreshUnder
  <2>5. BatchRequestInv(q)
    BY <1>0, <2>1, <2>4 DEF BatchRequestInv, LooksUp, VersionKnown, SeenFetched, PageFresh, OrphanedNotClean
  <2> QED BY <2>2, <2>5
<1>2. CASE v \notin DOMAIN lBatch
  <2> DEFINE q == [r EXCEPT !.pc = "bget", !.ver = v]
  <2>1. q.pc = "bget" /\ q.ver = v /\ q.must = r.must /\ q.clean = r.clean
    BY DEF Request
  <2>2. WithVersion(r, v) = q
    BY <1>2 DEF WithVersion
  <2> HIDE DEF q
  <2>3. BatchRequestInv(q)
    BY <2>1 DEF BatchRequestInv, LooksUp, VersionKnown, SeenFetched, PageFresh, OrphanedNotClean
  <2> QED BY <2>2, <2>3
<1> QED BY <1>1, <1>2

LEMMA InitBatchInv ==
    ASSUME InitVersion > 0, Init
    PROVE  BatchInv
<1>1. rVer \in Nat /\ rVer > 0 /\ lVer.v = 0 /\ DOMAIN rBatch = {} /\ DOMAIN lBatch = {}
  BY BoundsAssumption, EmptyStore DEF Init
<1>2. BatchCacheInv
  BY <1>1 DEF BatchCacheInv, FreshUnder
<1>3. \A s \in Slots : BatchRequestInv(req[s])
  BY InitType, NoRequestBatchInv DEF Init
<1> QED BY <1>2, <1>3, BatchInvParts

LEMMA BatchReadStepInv ==
    ASSUME TypeOK, ViewInv, BatchInv, NEW s \in Slots,
           \/ VersionGet(s) \/ VersionGetFails(s) \/ VersionFound(s) \/ VersionAbsent(s)
           \/ BatchHit(s) \/ BatchMiss(s) \/ FetchViews(s) \/ RankPage(s)
           \/ BatchSetFails(s) \/ ReadServe(s) \/ Finish(s)
    PROVE  BatchInv'
<1> USE DEF At
<1>r. req[s] \in Request /\ rVer \in Nat
  BY DEF TypeOK
<1>i. BatchRequestInv(req[s]) /\ BatchCacheInv
  BY BatchInvParts
<1>1. CASE VersionGet(s)
  <2> DEFINE r == [req[s] EXCEPT !.pc = "vreply", !.ver = rVer]
  <2>1. r.pc = "vreply" /\ r.ver = rVer /\ r.must = req[s].must
    BY <1>r DEF Request
  <2>2. Continue(s, r)
    BY <1>1 DEF VersionGet
  <2> HIDE DEF r
  <2>3. BatchRequestInv(r)
    BY <1>i, <1>r, <2>1 DEF BatchRequestInv, BatchCacheInv, VersionKnown, SeenFetched, PageFresh, OrphanedNotClean
  <2> QED BY <1>1, <2>2, <2>3, BatchReadStep DEF VersionGet, cacheVars
<1>2. CASE VersionGetFails(s)
  <2> DEFINE r == [req[s] EXCEPT !.pc = "vreply", !.ver = 0, !.clean = FALSE]
  <2>1. r.pc = "vreply" /\ r.ver = 0 /\ r.must = req[s].must /\ ~r.clean
    BY <1>r DEF Request
  <2>2. Continue(s, r)
    BY <1>2 DEF VersionGetFails
  <2> HIDE DEF r
  <2>3. BatchRequestInv(r)
    BY <1>i, <1>r, <2>1 DEF BatchRequestInv, LooksUp, VersionKnown, SeenFetched, PageFresh, OrphanedNotClean
  <2> QED BY <1>2, <2>2, <2>3, BatchReadStep DEF VersionGetFails, cacheVars
<1>3. CASE VersionFound(s)
  <2>1. /\ req[s].ver \in Nat \ {0} /\ req[s].ver <= rVer /\ req[s].must \subseteq acked
        /\ req[s].clean => FreshUnder(req[s].ver)
    BY <1>3, <1>i, RequestFields, <1>r DEF VersionFound, BatchRequestInv, LooksUp, PageFresh
  <2>2. BatchRequestInv(WithVersion(req[s], req[s].ver))
    BY <1>r, <2>1, WithVersionBatchInv
  <2>3. \A t \in Slots : BatchRequestInv(req'[t])
    BY <1>3, <2>2, BatchInvParts DEF VersionFound, Continue, TypeOK
  <2>4. /\ lVer'.v = req[s].ver /\ lVer'.clean = req[s].clean
        /\ UNCHANGED <<rVer, rBatch, lBatch>> /\ Purged' = Purged /\ acked' = acked
    BY <1>3 DEF VersionFound, Purged, observerVars
  <2> QED BY <2>1, <2>3, <2>4, BatchShrinkStep
<1>4. CASE VersionAbsent(s)
  <2>1. ~req[s].clean /\ 1 <= rVer /\ req[s].must \subseteq acked
    BY <1>4, <1>i, <1>r DEF VersionAbsent, BatchRequestInv, BatchCacheInv, VersionKnown, PageFresh
  <2>2. BatchRequestInv(WithVersion(req[s], 1))
    BY <1>r, <2>1, WithVersionBatchInv
  <2> QED BY <1>4, <2>2, BatchReadStep DEF VersionAbsent, cacheVars
<1>5. CASE BatchHit(s)
  <2> DEFINE v == req[s].ver
             r == [req[s] EXCEPT !.pc = "breply", !.page = rBatch[v].seen,
                                 !.clean = @ /\ rBatch[v].clean]
  <2>1. /\ r.pc = "breply" /\ r.ver = v /\ r.must = req[s].must /\ r.page = rBatch[v].seen
        /\ r.clean = (req[s].clean /\ rBatch[v].clean)
    BY <1>r DEF Request
  <2>2. Continue(s, r) /\ v \in DOMAIN rBatch /\ req[s].pc = "bget"
    BY <1>5 DEF BatchHit
  <2> HIDE DEF r
  <2>3. r.clean => req[s].clean /\ rBatch[v].clean
    BY <2>1
  <2>4. r.clean => FreshUnder(v)
    BY <1>i, <2>2, <2>3 DEF BatchRequestInv, LooksUp
  <2>5. r.clean => Purged \subseteq r.page
    BY <2>1, <2>2, <2>3, <2>4 DEF FreshUnder
  <2>6. BatchRequestInv(r)
    BY <1>i, <2>1, <2>4, <2>5 DEF BatchRequestInv, LooksUp, VersionKnown, SeenFetched, PageFresh, OrphanedNotClean
  <2> QED BY <1>5, <2>2, <2>6, BatchReadStep DEF BatchHit, cacheVars
<1>6. CASE BatchMiss(s)
  BY <1>6, <1>r, SameVersionStep DEF BatchMiss, cacheVars, Request, LooksUp
<1>7. CASE BatchSetFails(s)
  BY <1>7, <1>r, SameVersionStep DEF BatchSetFails, cacheVars, Request, LooksUp
<1>8. CASE FetchViews(s)
  <2> DEFINE q == [req[s] EXCEPT !.pc = "views"]
             r == StartFetch(q, BatchViews)
  <2>1. q \in Request /\ q.ver = req[s].ver /\ q.must = req[s].must /\ q.clean = req[s].clean /\ q.pc = "views"
    BY <1>8, <1>r DEF FetchViews, Request
  <2>2. Continue(s, r) /\ req[s].pc = "bmiss"
    BY <1>8 DEF FetchViews
  <2> HIDE DEF q
  <2>3. /\ r.pc = "views" /\ r.ver = q.ver /\ r.must = q.must /\ (r.clean => q.clean)
        /\ r.fetch["seen_cards"].at # "off"
    BY <2>1, ViewsAssumption DEF StartFetch, Request, Views
  <2> HIDE DEF r
  <2>4. BatchRequestInv(r)
    BY <1>i, <2>1, <2>2, <2>3 DEF BatchRequestInv, LooksUp, VersionKnown, SeenFetched, PageFresh, OrphanedNotClean
  <2> QED BY <1>8, <2>2, <2>4, BatchReadStep DEF FetchViews, cacheVars
<1>9. CASE RankPage(s)
  <2> DEFINE page == req[s].fetch["seen_cards"].seen
             r    == [req[s] EXCEPT !.pc = "bset", !.page = page, !.fetch = NoRequest.fetch]
  <2>1. /\ r.pc = "bset" /\ r.ver = req[s].ver /\ r.must = req[s].must /\ r.page = page
        /\ r.clean = req[s].clean
    BY <1>r DEF Request
  <2>2. Continue(s, r) /\ req[s].pc = "views"
    BY <1>9 DEF RankPage
  <2>3. req[s].clean => Purged \subseteq page
    <3>1. "seen_cards" \in Views /\ req[s].fetch["seen_cards"].at = "ok"
      BY <1>9, <1>i, ViewsAssumption DEF RankPage, AllFetched, BatchRequestInv, SeenFetched, Views
    <3> QED BY <2>2, <3>1 DEF ViewInv, FetchesFresh
  <2> HIDE DEF r, page
  <2>4. BatchRequestInv(r)
    BY <1>i, <2>1, <2>2, <2>3 DEF BatchRequestInv, LooksUp, VersionKnown, SeenFetched, PageFresh, OrphanedNotClean
  <2> QED BY <1>9, <2>2, <2>4, BatchReadStep DEF RankPage, cacheVars
<1>10. CASE ReadServe(s)
  <2> DEFINE page == {c \in Cards : \A k \in Views :
                        req[s].fetch[k].at = "ok" => c \in req[s].fetch[k].seen}
             r    == [req[s] EXCEPT !.pc = "served", !.fetch = NoRequest.fetch, !.page = page]
  <2>1. /\ r.pc = "served" /\ r.ver = req[s].ver /\ r.must = req[s].must /\ r.page = page
        /\ r.clean = req[s].clean
    <3> HIDE DEF page
    <3> QED BY <1>r DEF Request
  <2>2. Continue(s, r) /\ req[s].pc = "read"
    BY <1>10 DEF ReadServe
  <2>3. req[s].clean => Purged \subseteq page
    BY <2>2 DEF ViewInv, FetchesFresh, TypeOK, Purged
  <2> HIDE DEF r, page
  <2>4. BatchRequestInv(r)
    BY <1>i, <2>1, <2>3 DEF BatchRequestInv, LooksUp, VersionKnown, SeenFetched, PageFresh, OrphanedNotClean
  <2> QED BY <1>10, <2>2, <2>4, BatchReadStep DEF ReadServe, cacheVars
<1>11. CASE Finish(s)
  BY <1>11, NoRequestBatchInv, BatchReadStep DEF Finish, cacheVars
<1> QED BY <1>1, <1>2, <1>3, <1>4, <1>5, <1>6, <1>7, <1>8, <1>9, <1>10, <1>11

\* The steps that store a batch.  While an invalidation runs the batch is not
\* clean, so what OrphanedNotClean says of the stored batches stays true.
LEMMA BatchStoreInv ==
    ASSUME TypeOK, ViewInv, BatchInv, NEW s \in Slots, BatchSet(s) \/ BatchFill(s)
    PROVE  BatchInv'
<1> USE DEF At
<1>r. req[s] \in Request /\ rVer \in Nat
  BY DEF TypeOK
<1>i. BatchCacheInv /\ \A t \in Slots : BatchRequestInv(req[t])
  BY BatchInvParts
<1> DEFINE v == req[s].ver
           e == [seen |-> req[s].page, clean |-> req[s].clean]
<1>e. e.clean => Purged \subseteq e.seen
  BY <1>i DEF BatchSet, BatchFill, BatchRequestInv, PageFresh
<1>v. v \in 1..rVer
  BY <1>i, <1>r DEF BatchSet, BatchFill, Request, BatchRequestInv
<1>c. ASSUME NEW t \in Slots, req[t].pc = "purge" PROVE ~e.clean
  BY <1>c DEF BatchSet, BatchFill, ViewInv, CleanAlone, Invalidating
<1> HIDE DEF e
<1>1. CASE BatchSet(s)
  <2> DEFINE r == [req[s] EXCEPT !.pc = "breply"]
  <2>1. r.pc = "breply" /\ r.ver = v /\ r.must = req[s].must /\ r.page = req[s].page /\ r.clean = req[s].clean
    BY <1>r DEF Request
  <2>2. /\ Continue(s, r) /\ req[s].pc = "bset" /\ rBatch' = Put(rBatch, v, e)
        /\ UNCHANGED <<rVer, lVer, lBatch, observerVars>>
    BY <1>1 DEF BatchSet, e
  <2> HIDE DEF r, v
  <2>3. /\ DOMAIN rBatch' = DOMAIN rBatch \cup {v} /\ rBatch'[v] = e
        /\ \A u \in DOMAIN rBatch : u # v => rBatch'[u] = rBatch[u]
    <3>1. /\ DOMAIN Put(rBatch, v, e) = DOMAIN rBatch \cup {v} /\ Put(rBatch, v, e)[v] = e
          /\ \A u \in DOMAIN rBatch : u # v => Put(rBatch, v, e)[u] = rBatch[u]
      BY DEF Put
    <3> QED BY <2>2, <3>1
  <2>4. Purged' = Purged /\ acked' = acked
    BY <2>2 DEF Purged, observerVars
  <2>5. ASSUME NEW u, FreshUnder(u) PROVE FreshUnder(u)'
    BY <1>e, <2>2, <2>3, <2>4, <2>5 DEF FreshUnder
  <2>6. BatchCacheInv'
    BY <1>i, <1>v, <2>2, <2>3, <2>5 DEF BatchCacheInv
  <2>7. ASSUME NEW t \in Slots PROVE BatchRequestInv(req'[t])
    BY <1>i, <1>v, <2>1, <2>2 DEF Continue, TypeOK, BatchRequestInv, LooksUp, VersionKnown,
                                  SeenFetched, PageFresh, OrphanedNotClean, v
  <2>8. ASSUME NEW t \in Slots PROVE OrphanedNotClean(req[t])'
    <3>1. req'[t].pc = "purge" => req'[t] = req[t] /\ ~e.clean
      BY <1>c, <2>1, <2>2 DEF Continue, TypeOK
    <3> QED BY <2>3, <2>7, <3>1 DEF OrphanedNotClean, BatchRequestInv
  <2>9. ASSUME NEW t \in Slots PROVE BatchRequestInv(req[t])'
    BY <2>2, <2>4, <2>5, <2>7, <2>8 DEF BatchRequestInv, LooksUp, VersionKnown, SeenFetched, PageFresh
  <2> QED BY <2>6, <2>9, BatchInvNext
<1>2. CASE BatchFill(s)
  <2> DEFINE r == [req[s] EXCEPT !.pc = "served", !.ver = 0]
  <2>1. r.pc = "served" /\ r.ver = 0 /\ r.must = req[s].must /\ r.page = req[s].page /\ r.clean = req[s].clean
    BY <1>r DEF Request
  <2>2. /\ Continue(s, r) /\ req[s].pc = "breply" /\ lBatch' = Put(lBatch, v, e)
        /\ UNCHANGED <<rVer, rBatch, lVer, observerVars>>
    BY <1>2 DEF BatchFill, e
  <2> HIDE DEF r, v
  <2>3. /\ DOMAIN lBatch' = DOMAIN lBatch \cup {v} /\ lBatch'[v] = e
        /\ \A u \in DOMAIN lBatch : u # v => lBatch'[u] = lBatch[u]
    <3>1. /\ DOMAIN Put(lBatch, v, e) = DOMAIN lBatch \cup {v} /\ Put(lBatch, v, e)[v] = e
          /\ \A u \in DOMAIN lBatch : u # v => Put(lBatch, v, e)[u] = lBatch[u]
      BY DEF Put
    <3> QED BY <2>2, <3>1
  <2>4. Purged' = Purged /\ acked' = acked
    BY <2>2 DEF Purged, observerVars
  <2>5. ASSUME NEW u, FreshUnder(u) PROVE FreshUnder(u)'
    BY <1>e, <2>2, <2>3, <2>4, <2>5 DEF FreshUnder
  <2>6. BatchCacheInv'
    BY <1>i, <1>v, <2>2, <2>3, <2>5 DEF BatchCacheInv
  <2>7. ASSUME NEW t \in Slots PROVE BatchRequestInv(req'[t])
    BY <1>i, <1>r, <2>1, <2>2 DEF Continue, TypeOK, BatchRequestInv, LooksUp, VersionKnown,
                                  SeenFetched, PageFresh, OrphanedNotClean
  <2>8. ASSUME NEW t \in Slots PROVE BatchRequestInv(req[t])'
    BY <2>2, <2>4, <2>5, <2>7 DEF BatchRequestInv, LooksUp, VersionKnown, SeenFetched,
                                  PageFresh, OrphanedNotClean
  <2> QED BY <2>6, <2>8, BatchInvNext
<1> QED BY <1>1, <1>2

\* Fetching a view touches neither the version nor the page.
LEMMA BatchFetchInv ==
    ASSUME TypeOK, BatchInv, NEW s \in Slots, NEW k \in Views,
           \/ ViewHit(s, k) \/ ViewMiss(s, k) \/ ViewQuery(s, k)
           \/ ViewSet(s, k) \/ ViewSetFails(s, k) \/ ViewFill(s, k)
    PROVE  BatchInv'
<1>r. req[s] \in Request /\ BatchRequestInv(req[s]) /\ req[s].pc \in {"views", "read"}
  BY BatchInvParts DEF TypeOK, ViewHit, ViewMiss, ViewQuery, ViewSet, ViewSetFails, ViewFill, Fetching
<1>a. ASSUME NEW r, r.pc = req[s].pc, r.ver = req[s].ver, r.must = req[s].must,
             r.clean => req[s].clean,
             NEW stage, stage # "off", NEW value,
             r.fetch = [req[s].fetch EXCEPT ![k] = [at |-> stage, seen |-> value]]
      PROVE  BatchRequestInv(r)
  <2>1. SeenFetched(r)
    BY <1>a, <1>r, ViewsAssumption DEF SeenFetched, BatchRequestInv, Request, Views
  <2> QED BY <1>a, <1>r, <2>1 DEF BatchRequestInv, LooksUp, VersionKnown, PageFresh, OrphanedNotClean
<1>b. ASSUME NEW stage, stage # "off", NEW value PROVE BatchRequestInv(Fetched(s, k, stage, value))
  <2> DEFINE q == Fetched(s, k, stage, value)
  <2>1. /\ q.pc = req[s].pc /\ q.ver = req[s].ver /\ q.must = req[s].must /\ q.clean = req[s].clean
        /\ q.fetch = [req[s].fetch EXCEPT ![k] = [at |-> stage, seen |-> value]]
    BY <1>b, <1>r DEF Fetched, Request
  <2> HIDE DEF q
  <2>2. q.clean => req[s].clean
    BY <2>1
  <2>3. BatchRequestInv(q)
    BY <1>a, <1>b, <2>1, <2>2
  <2> QED BY <2>3 DEF q
<1>u. UNCHANGED <<rVer, rBatch, lVer, lBatch, observerVars>>
  BY DEF ViewHit, ViewMiss, ViewQuery, ViewSet, ViewSetFails, ViewFill, cacheVars
<1>1. CASE ViewHit(s, k)
  <2> DEFINE q == Fetched(s, k, "reply", rView[k].seen)
             r == [q EXCEPT !.clean = @ /\ rView[k].clean]
  <2>1. /\ r.pc = q.pc /\ r.ver = q.ver /\ r.must = q.must /\ r.fetch = q.fetch
        /\ r.clean = (q.clean /\ rView[k].clean)
    BY <1>r DEF Fetched, Request
  <2>2. /\ q.pc = req[s].pc /\ q.ver = req[s].ver /\ q.must = req[s].must /\ q.clean = req[s].clean
        /\ q.fetch = [req[s].fetch EXCEPT ![k] = [at |-> "reply", seen |-> rView[k].seen]]
    BY <1>r DEF Fetched, Request
  <2>3. Continue(s, r)
    BY <1>1 DEF ViewHit
  <2> HIDE DEF r, q
  <2>4. r.clean => req[s].clean
    BY <2>1, <2>2
  <2>5. BatchRequestInv(r)
    BY <1>a, <2>1, <2>2, <2>4
  <2> QED BY <1>u, <2>3, <2>5, BatchReadStep
<1>2. CASE ViewMiss(s, k)
  BY <1>2, <1>b, <1>u, BatchReadStep DEF ViewMiss
<1>3. CASE ViewQuery(s, k)
  BY <1>3, <1>b, <1>u, BatchReadStep DEF ViewQuery
<1>4. CASE ViewSet(s, k) \/ ViewSetFails(s, k)
  BY <1>4, <1>b, <1>u, BatchReadStep DEF ViewSet, ViewSetFails
<1>5. CASE ViewFill(s, k)
  BY <1>5, <1>b, <1>u, BatchReadStep DEF ViewFill
<1> QED BY <1>1, <1>2, <1>3, <1>4, <1>5

\* A request whose command executed or was lost stays an invalidation or is over.
LEMMA AfterCommandBatchInv ==
    ASSUME TypeOK, NEW r \in Request, NEW x, r.pc \in {"purge", "leftover"}, BatchRequestInv(r),
           x # "incr" \/ r.pc = "leftover"
    PROVE  BatchRequestInv(AfterCommand(r, x))
<1>1. CASE AfterCommand(r, x) = NoRequest
  BY <1>1, NoRequestBatchInv
<1>2. CASE AfterCommand(r, x) # NoRequest
  <2> DEFINE q == [r EXCEPT !.todo = @ \ {x}]
  <2>1. AfterCommand(r, x) = q
    BY <1>2 DEF AfterCommand
  <2>2. q.pc = r.pc /\ q.ver = r.ver /\ q.must = r.must /\ q.todo = r.todo \ {x}
    BY DEF Request
  <2> HIDE DEF q
  <2>4. OrphanedNotClean(q)
    BY <2>2 DEF OrphanedNotClean, BatchRequestInv
  <2>5. BatchRequestInv(q)
    BY <2>2, <2>4 DEF BatchRequestInv, LooksUp, VersionKnown, SeenFetched, PageFresh
  <2> QED BY <2>1, <2>5
<1> QED BY <1>1, <1>2

\* INCR takes a version under which nothing is stored.
LEMMA BatchIncrInv ==
    ASSUME TypeOK, ViewInv, BatchInv, NEW s \in Slots, InvalidateIncr(s)
    PROVE  BatchInv'
<1>i. BatchCacheInv /\ \A t \in Slots : BatchRequestInv(req[t])
  BY BatchInvParts
<1>r. req[s] \in Request /\ rVer \in Nat /\ req[s].pc \in {"purge", "leftover"}
  BY DEF TypeOK, InvalidateIncr, ViewInv, CommandsOwned
<1> DEFINE r == [req[s] EXCEPT !.ver = rVer + 1]
           q == AfterCommand(r, "incr")
<1>1. r \in Request /\ r.pc = req[s].pc /\ r.ver = rVer + 1 /\ r.must = req[s].must
  BY <1>r DEF Request
<1>2. /\ Continue(s, q) /\ rVer' = rVer + 1
      /\ UNCHANGED <<rBatch, lVer, lBatch, observerVars>>
  BY DEF InvalidateIncr
<1> HIDE DEF r
<1>3. Purged' = Purged /\ acked' = acked
  BY <1>2 DEF Purged, observerVars
<1>4. ASSUME NEW u, FreshUnder(u) PROVE FreshUnder(u)'
  BY <1>2, <1>3, <1>4 DEF FreshUnder
<1>5. rVer + 1 \notin DOMAIN rBatch /\ rVer + 1 \notin DOMAIN lBatch /\ \A v \in DOMAIN rBatch : v < rVer + 1
  BY <1>i, <1>r DEF BatchCacheInv
<1>6. FreshUnder(rVer)'
  BY <1>2, <1>5 DEF FreshUnder
<1>l. lVer.v \in Nat /\ \A t \in Slots : req[t].ver \in Nat
  BY RequestFields DEF TypeOK, VersionEntry
<1>7. BatchCacheInv'
  <2>1. DOMAIN rBatch' \subseteq 1..rVer' /\ DOMAIN lBatch' \subseteq 1..rVer'
    BY <1>i, <1>r, <1>2 DEF BatchCacheInv
  <2>2. rVer' > 0 /\ lVer'.v <= rVer'
    BY <1>i, <1>r, <1>l, <1>2 DEF BatchCacheInv
  <2>3. (lVer.clean => FreshUnder(lVer.v))'
    <3>1. lVer.clean => FreshUnder(lVer.v)
      BY <1>i DEF BatchCacheInv
    <3> QED BY <1>2, <1>3, <3>1 DEF FreshUnder
  <2> QED BY <1>6, <2>1, <2>2, <2>3 DEF BatchCacheInv
<1>8. ASSUME NEW t \in Slots PROVE BatchRequestInv(req[t])'
  <2>1. CASE t = s
    <3>1. OrphanedNotClean(q) /\ q.ver \in Nat /\ q.ver <= rVer + 1
      <4>1. CASE q = NoRequest
        BY <4>1, <1>r DEF NoRequest, OrphanedNotClean
      <4>2. CASE q # NoRequest
        <5>1. q = [r EXCEPT !.todo = @ \ {"incr"}]
          BY <4>2 DEF AfterCommand
        <5>2. q.ver = rVer + 1
          BY <1>1, <5>1 DEF Request
        <5> HIDE DEF q
        <5>3. \A v \in DOMAIN rBatch : ~(v >= q.ver)
          <6>1. DOMAIN rBatch \subseteq Nat
            BY DEF TypeOK, IsStore
          <6> QED BY <1>5, <1>r, <5>2, <6>1
        <5> QED BY <1>r, <5>2, <5>3 DEF OrphanedNotClean
      <4> QED BY <4>1, <4>2
    <3>2. q.pc \in {"idle", "purge", "leftover"} /\ q.must \subseteq acked
      <4>1. req[s].must \subseteq acked
        BY <1>i DEF BatchRequestInv, PageFresh
      <4>2. r.todo \subseteq Views \cup {"incr"} /\ r.pc \in {"purge", "leftover"}
        BY <1>1, <1>r, RequestFields
      <4> QED BY <1>1, <4>1, <4>2 DEF AfterCommand, NoRequest, Request
    <3>3. req'[s] = q
      BY <1>2 DEF Continue, TypeOK
    <3> HIDE DEF q
    <3> QED BY <1>2, <1>3, <2>1, <3>1, <3>2, <3>3
        DEF BatchRequestInv, LooksUp, VersionKnown, SeenFetched, PageFresh, OrphanedNotClean
  <2>2. CASE t # s
    <3>1. req'[t] = req[t]
      BY <1>2, <2>2 DEF Continue, TypeOK
    <3>2. req[t].ver <= rVer'
      BY <1>i, <1>l, <1>r, <1>2 DEF BatchRequestInv
    <3> QED BY <1>i, <1>2, <1>3, <1>4, <3>1, <3>2
        DEF BatchRequestInv, LooksUp, VersionKnown, SeenFetched, PageFresh, OrphanedNotClean
  <2> QED BY <2>1, <2>2
<1> QED BY <1>7, <1>8, BatchInvNext

\* At its end an invalidation leaves the process with its own version and no
\* batch, and Redis with no clean batch under that version or a later one; the
\* reads it overlapped are not clean.
LEMMA BatchDoneInv ==
    ASSUME TypeOK, ViewInv, BatchInv, NEW s \in Slots, InvalidateDone(s)
    PROVE  BatchInv'
<1> USE DEF At
<1>i. BatchCacheInv /\ \A t \in Slots : BatchRequestInv(req[t])
  BY BatchInvParts
<1>r. req[s] \in Request /\ rVer \in Nat /\ req[s].ver \in Nat /\ req[s].ver <= rVer
  BY <1>i, RequestFields DEF TypeOK, BatchRequestInv
<1>1. /\ req[s].pc = "purge" /\ req[s].todo = {} /\ Continue(s, NoRequest)
      /\ lVer'.v = req[s].ver /\ DOMAIN lBatch' = {} /\ acked \subseteq acked'
      /\ rVer' = rVer /\ rBatch' = rBatch
  BY EmptyStore DEF InvalidateDone
<1>2. \A v \in DOMAIN rBatch : v >= req[s].ver => ~rBatch[v].clean
  BY <1>i, <1>1 DEF BatchRequestInv, OrphanedNotClean
<1>3. DOMAIN rBatch \subseteq Nat
  BY DEF TypeOK, IsStore
<1>4. BatchCacheInv'
  <2>1. FreshUnder(rVer)'
    BY <1>1, <1>2, <1>3, <1>r DEF FreshUnder
  <2>2. FreshUnder(lVer.v)'
    BY <1>1, <1>2, <1>3, <1>r DEF FreshUnder
  <2> QED BY <1>i, <1>r, <1>1, <2>1, <2>2 DEF BatchCacheInv
<1>5. ASSUME NEW t \in Slots PROVE BatchRequestInv(req[t])'
  <2>1. CASE t = s
    <3>1. req'[t] = NoRequest
      BY <1>1, <2>1 DEF Continue, TypeOK
    <3> QED BY <1>r, <1>1, <3>1 DEF BatchRequestInv, NoRequest, LooksUp, VersionKnown, SeenFetched,
                                PageFresh, OrphanedNotClean
  <2>2. CASE t # s
    <3>1. req'[t] = req[t]
      BY <1>1, <2>2 DEF Continue, TypeOK
    <3>2. req[t].pc \in {"idle", "purge", "leftover"} \/ ~req[t].clean
      BY <1>1, ReadsNotClean DEF Invalidating
    <3> QED BY <1>i, <1>1, <3>1, <3>2
        DEF BatchRequestInv, LooksUp, VersionKnown, SeenFetched, PageFresh, OrphanedNotClean
  <2> QED BY <2>1, <2>2
<1> QED BY <1>4, <1>5, BatchInvNext

LEMMA BatchInvalidateInv ==
    ASSUME TypeOK, ViewInv, BatchInv, NEW s \in Slots,
           \/ InvalidateIncr(s) \/ InvalidateDone(s) \/ InvalidateFails(s)
           \/ \E k \in Views : InvalidateDel(s, k)
           \/ \E x \in Views \cup {"incr"} : LeftoverLost(s, x)
    PROVE  BatchInv'
<1> USE DEF At
<1>i. BatchCacheInv /\ \A t \in Slots : BatchRequestInv(req[t])
  BY BatchInvParts
<1>r. req[s] \in Request
  BY DEF TypeOK
<1>1. ASSUME NEW k \in Views, InvalidateDel(s, k) PROVE BatchInv'
  <2>1. req[s].pc \in {"purge", "leftover"} /\ k # "incr"
    BY <1>1, ViewsAssumption DEF InvalidateDel, ViewInv, CommandsOwned, Views
  <2>2. BatchRequestInv(AfterCommand(req[s], k))
    BY <1>i, <1>r, <2>1, AfterCommandBatchInv
  <2> QED BY <1>1, <2>2, BatchReadStep DEF InvalidateDel
<1>2. ASSUME NEW x \in Views \cup {"incr"}, LeftoverLost(s, x) PROVE BatchInv'
  <2>1. BatchRequestInv(AfterCommand(req[s], x))
    BY <1>2, <1>i, <1>r, AfterCommandBatchInv DEF LeftoverLost
  <2> QED BY <1>2, <2>1, BatchReadStep DEF LeftoverLost, cacheVars
<1>3. CASE InvalidateFails(s)
  <2> DEFINE r == [req[s] EXCEPT !.pc = "leftover"]
             q == IF req[s].todo = {} THEN NoRequest ELSE r
  <2>1. r.pc = "leftover" /\ r.ver = req[s].ver /\ r.must = req[s].must
    BY <1>r DEF Request
  <2>2. Continue(s, q)
    BY <1>3 DEF InvalidateFails
  <2> HIDE DEF r
  <2>3. BatchRequestInv(r)
    BY <1>i, <2>1 DEF BatchRequestInv, LooksUp, VersionKnown, SeenFetched, PageFresh, OrphanedNotClean
  <2>4. BatchRequestInv(q)
    BY <2>3, NoRequestBatchInv
  <2> HIDE DEF q
  <2>5. \A t \in Slots : BatchRequestInv(req'[t])
    BY <1>i, <2>2, <2>4 DEF Continue, TypeOK
  <2>6. Purged' \subseteq Purged /\ acked \subseteq acked' /\ UNCHANGED <<rVer, rBatch, lVer, lBatch>>
    BY <1>3 DEF InvalidateFails, Purged, cacheVars
  <2> QED BY <1>i, <2>5, <2>6, BatchShrinkStep DEF BatchCacheInv
<1> QED BY <1>1, <1>2, <1>3, BatchIncrInv, BatchDoneInv

LEMMA BatchArrivalInv ==
    ASSUME TypeOK, ViewInv, BatchInv, NEW s \in Slots, Arrival(s)
    PROVE  BatchInv'
<1> USE DEF At
<1>i. BatchCacheInv /\ \A t \in Slots : BatchRequestInv(req[t])
  BY BatchInvParts
<1>a. Arrived \in Request /\ Arrived.must = acked /\ Arrived.ver = 0 /\ Arrived.pc = "idle"
  BY ArrivedType DEF Arrived, NoRequest
<1>n. rVer \in Nat
  BY DEF TypeOK
<1>1. CASE BatchStart(s)
  <2>1. CASE lVer.v # 0
    <3> DEFINE q == [Arrived EXCEPT !.clean = @ /\ lVer.clean]
    <3>1. lVer.v \in Nat \ {0} /\ lVer.clean \in BOOLEAN
      BY <2>1 DEF TypeOK, VersionEntry
    <3>2. q \in Request /\ q.must = acked /\ q.clean = (Arrived.clean /\ lVer.clean)
      BY <1>a, <3>1 DEF Request
    <3> HIDE DEF q
    <3>3. q.clean => lVer.clean
      BY <3>2
    <3>4. q.clean => FreshUnder(lVer.v)
      BY <1>i, <3>3 DEF BatchCacheInv
    <3>5. BatchRequestInv(WithVersion(q, lVer.v))
      BY <1>i, <3>1, <3>2, <3>4, WithVersionBatchInv DEF BatchCacheInv
    <3>6. Continue(s, WithVersion(q, lVer.v))
      BY <1>1, <2>1 DEF BatchStart, q
    <3> QED BY <1>1, <3>5, <3>6, BatchReadStep DEF BatchStart, cacheVars
  <2>2. CASE lVer.v = 0
    <3> DEFINE q == [Arrived EXCEPT !.pc = "vget"]
    <3>1. q.pc = "vget" /\ q.ver = 0 /\ q.must = acked
      BY <1>a DEF Request
    <3>2. Continue(s, q)
      BY <1>1, <2>2 DEF BatchStart
    <3> HIDE DEF q
    <3>3. BatchRequestInv(q)
      BY <1>n, <3>1 DEF BatchRequestInv, LooksUp, VersionKnown, SeenFetched, PageFresh, OrphanedNotClean
    <3> QED BY <1>1, <3>2, <3>3, BatchReadStep DEF BatchStart, cacheVars
  <2> QED BY <2>1, <2>2
<1>2. ASSUME NEW e, NEW K, ReadStart(s, e, K) PROVE BatchInv'
  <2> DEFINE q == [Arrived EXCEPT !.pc = "read"]
             r == StartFetch(q, K)
  <2>1. q \in Request /\ q.pc = "read" /\ q.ver = 0 /\ q.must = acked
    BY <1>a DEF Request
  <2>2. Continue(s, r)
    BY <1>2 DEF ReadStart
  <2> HIDE DEF q
  <2>3. r.pc = "read" /\ r.ver = 0 /\ r.must = acked
    BY <2>1 DEF StartFetch, Request
  <2> HIDE DEF r
  <2>4. BatchRequestInv(r)
    BY <1>n, <2>3 DEF BatchRequestInv, LooksUp, VersionKnown, SeenFetched, PageFresh, OrphanedNotClean
  <2> QED BY <1>2, <2>2, <2>4, BatchReadStep DEF ReadStart, cacheVars
<1>3. ASSUME NEW e, NEW K \in SUBSET Cards, Write(s, e, K) PROVE BatchInv'
  <2>1. ASSUME NEW t \in Slots PROVE BatchRequestInv(req'[t])
    <3>r. req[t] \in Request
      BY DEF TypeOK
    <3>1. CASE t = s
      <4> DEFINE q == [NoRequest EXCEPT !.pc = "purge", !.cards = K, !.todo = Views \cup {"incr"},
                                        !.clean = ~Invalidating]
      <4>1. q.pc = "purge" /\ q.ver = 0 /\ q.must = {} /\ "incr" \in q.todo
        BY DEF NoRequest
      <4>2. req'[t] = q
        BY <1>3, <3>1 DEF Write
      <4> HIDE DEF q
      <4> QED BY <1>n, <4>1, <4>2 DEF BatchRequestInv, LooksUp, VersionKnown, SeenFetched,
                                      PageFresh, OrphanedNotClean
    <3>2. CASE t # s /\ req[t].pc # "idle"
      <4> DEFINE q == [req[t] EXCEPT !.clean = FALSE]
      <4>1. /\ q.pc = req[t].pc /\ q.ver = req[t].ver /\ q.must = req[t].must
            /\ q.todo = req[t].todo /\ q.fetch = req[t].fetch /\ ~q.clean
        BY <3>r DEF Request
      <4>2. req'[t] = q
        BY <1>3, <3>2 DEF Write
      <4> HIDE DEF q
      <4> QED BY <1>i, <4>1, <4>2 DEF BatchRequestInv, LooksUp, VersionKnown, SeenFetched,
                                      PageFresh, OrphanedNotClean
    <3>3. CASE t # s /\ req[t].pc = "idle"
      BY <1>3, <1>i, <3>3 DEF Write
    <3> QED BY <3>1, <3>2, <3>3
  <2>2. Purged' = Purged /\ acked' = acked /\ UNCHANGED <<rVer, rBatch, lVer, lBatch>>
    BY <1>3 DEF Write, Purged, observerVars, cacheVars
  <2> QED BY <1>i, <2>1, <2>2, BatchShrinkStep DEF BatchCacheInv
<1>4. ASSUME NEW e, NEW K \in SUBSET Cards, WriteFails(s, e, K) PROVE BatchInv'
  <2>1. Purged' = Purged /\ acked' = acked /\ UNCHANGED <<rVer, rBatch, lVer, lBatch, req>>
    BY <1>4 DEF WriteFails, Purged, observerVars, cacheVars
  <2> QED BY <1>i, <2>1, BatchShrinkStep DEF BatchCacheInv
<1> QED BY <1>1, <1>2, <1>3, <1>4 DEF Arrival

LEMMA BatchExpiryInv ==
    ASSUME TypeOK, BatchInv, ~VersionExpires, Expiry \/ Crash
    PROVE  BatchInv'
<1>i. BatchCacheInv /\ \A t \in Slots : BatchRequestInv(req[t])
  BY BatchInvParts
<1>p. Purged' = Purged /\ acked' = acked
  <2>1. UNCHANGED observerVars
    BY DEF Expiry, RedisViewExpires, LocalViewExpires, RedisBatchExpires, LocalBatchExpires,
           RedisVersionExpires, LocalVersionExpires, Crash
  <2> QED BY <2>1 DEF Purged, observerVars
<1>z. rVer \in Nat /\ FreshUnder(0)
  BY <1>i DEF TypeOK, BatchCacheInv, FreshUnder
<1>1. ASSUME NEW k \in Views, RedisViewExpires(k) \/ LocalViewExpires(k) PROVE BatchInv'
  <2>1. UNCHANGED <<rVer, rBatch, lVer, lBatch, req>>
    BY <1>1 DEF RedisViewExpires, LocalViewExpires
  <2> QED BY <1>i, <1>p, <2>1, BatchShrinkStep DEF BatchCacheInv
<1>2. ASSUME NEW v \in DOMAIN rBatch, RedisBatchExpires(v) PROVE BatchInv'
  <2>1. rBatch' = Drop(rBatch, {v}) /\ UNCHANGED <<rVer, lVer, lBatch, req>>
    BY <1>2 DEF RedisBatchExpires
  <2>2. DOMAIN rBatch' = DOMAIN rBatch \ {v} /\ \A j \in DOMAIN rBatch' : rBatch'[j] = rBatch[j]
    <3>1. /\ DOMAIN Drop(rBatch, {v}) = DOMAIN rBatch \ {v}
          /\ \A j \in DOMAIN rBatch \ {v} : Drop(rBatch, {v})[j] = rBatch[j]
      BY DropEntries
    <3> QED BY <2>1, <3>1
  <2> QED BY <1>i, <1>p, <2>1, <2>2, BatchShrinkStep DEF BatchCacheInv
<1>3. ASSUME NEW v \in DOMAIN lBatch, LocalBatchExpires(v) PROVE BatchInv'
  <2>1. lBatch' = Drop(lBatch, {v}) /\ UNCHANGED <<rVer, lVer, rBatch, req>>
    BY <1>3 DEF LocalBatchExpires
  <2>2. DOMAIN lBatch' = DOMAIN lBatch \ {v} /\ \A j \in DOMAIN lBatch' : lBatch'[j] = lBatch[j]
    <3>1. /\ DOMAIN Drop(lBatch, {v}) = DOMAIN lBatch \ {v}
          /\ \A j \in DOMAIN lBatch \ {v} : Drop(lBatch, {v})[j] = lBatch[j]
      BY DropEntries
    <3> QED BY <2>1, <3>1
  <2> QED BY <1>i, <1>p, <2>1, <2>2, BatchShrinkStep DEF BatchCacheInv
<1>4. CASE LocalVersionExpires
  <2>1. lVer'.v = 0 /\ UNCHANGED <<rVer, rBatch, lBatch, req>>
    BY <1>4 DEF LocalVersionExpires
  <2> QED BY <1>i, <1>p, <1>z, <2>1, BatchShrinkStep
<1>5. CASE Crash
  <2>1. lVer'.v = 0 /\ DOMAIN lBatch' = {} /\ UNCHANGED <<rVer, rBatch>>
    BY <1>5, EmptyStore DEF Crash
  <2>2. ASSUME NEW t \in Slots PROVE BatchRequestInv(req'[t])
    <3> DEFINE r == [req[t] EXCEPT !.pc = "leftover"]
    <3>1. req[t] \in Request
      BY DEF TypeOK
    <3>2. r.pc = "leftover" /\ r.ver = req[t].ver /\ r.must = req[t].must
      BY <3>1 DEF Request
    <3>3. req'[t] = IF req[t].todo = {} THEN NoRequest ELSE r
      BY <1>5 DEF Crash
    <3> HIDE DEF r
    <3>4. BatchRequestInv(r)
      BY <1>i, <3>2 DEF BatchRequestInv, LooksUp, VersionKnown, SeenFetched, PageFresh, OrphanedNotClean
    <3> QED BY <3>3, <3>4, NoRequestBatchInv
  <2> QED BY <1>p, <1>z, <2>1, <2>2, BatchShrinkStep
<1> QED BY <1>1, <1>2, <1>3, <1>4, <1>5 DEF Expiry, RedisVersionExpires

\* The invariant behind the two theorems below is inductive for a user whose
\* version key exists and stays in Redis.
THEOREM BatchInvariant ==
    ASSUME InitVersion > 0, ~VersionExpires
    PROVE  Spec => []BatchInv
<1>1. TypeOK /\ ViewInv /\ BatchInv /\ [Next]_vars => BatchInv'
  <2> SUFFICES ASSUME TypeOK, ViewInv, BatchInv, [Next]_vars PROVE BatchInv'
    OBVIOUS
  <2>1. CASE UNCHANGED vars
    <3>1. Purged' = Purged /\ acked' = acked /\ UNCHANGED <<rVer, rBatch, lVer, lBatch, req>>
      BY <2>1 DEF vars, cacheVars, observerVars, Purged
    <3> QED BY <3>1, BatchInvParts, BatchShrinkStep DEF BatchCacheInv
  <2>2. ASSUME NEW s \in Slots, Step(s) PROVE BatchInv'
    BY <2>2, BatchReadStepInv, BatchStoreInv, BatchFetchInv, BatchInvalidateInv DEF Step
  <2> QED BY <2>1, <2>2, BatchArrivalInv, BatchExpiryInv DEF Next
<1>2. Init => BatchInv
  BY InitBatchInv
<1> QED BY <1>1, <1>2, TypeCorrect, ViewInvariant, PTL DEF Spec

\* INCR orphans every earlier batch: what is stored, and not raced, under a
\* version some request may still look up reflects every answer acknowledged and
\* purged.
THEOREM BatchFreshness ==
    ASSUME InitVersion > 0, ~VersionExpires
    PROVE  Spec => []BatchesFresh
<1>1. BatchInv => BatchesFresh
  BY DEF BatchInv
<1> QED BY <1>1, BatchInvariant, PTL

\* A reply that no invalidation overlapped, drawn from values none raced,
\* reflects every answer acknowledged before the request and purged.
THEOREM ReplyFreshness ==
    ASSUME InitVersion > 0, ~VersionExpires
    PROVE  Spec => []CleanRepliesFresh
<1>1. BatchInv => CleanRepliesFresh
  BY DEF BatchInv, CleanRepliesFresh, PageFresh, At, Purged
<1> QED BY <1>1, BatchInvariant, PTL

-------------------------------------------------------------------------------
(* The in-process cache.                                                   *)

\* The parts of a set, as Set's LET names them.
Full(k) == k \notin DOMAIN entries /\ Cardinality(DOMAIN entries) >= MaxEntries
Gone(k) == IF Full(k) THEN Evicted ELSE {}
Kept(k) == DOMAIN entries \ Gone(k)

MapInv == MapTypeOK /\ Bounded /\ HasOldest

LEMMA SetParts ==
    ASSUME NEW k, NEW v, NEW ttl, Set(k, v, ttl)
    PROVE  /\ entries' = Put(Drop(entries, Gone(k)), k, [value |-> v, expiresAt |-> now + ttl])
           /\ before' = (before \cap (Kept(k) \X Kept(k)))
                        \cup (IF k \in Kept(k) THEN {} ELSE Kept(k) \X {k})
           /\ UNCHANGED <<now, reply>>
BY DEF Set, Full, Gone, Kept

\* What a Set leaves in the Map: the kept entries and the new one.
LEMMA SetEntries ==
    ASSUME NEW k, NEW v, NEW ttl, Set(k, v, ttl)
    PROVE  /\ DOMAIN entries' = Kept(k) \cup {k}
           /\ \A j \in Kept(k) : j # k => entries'[j] = entries[j]
           /\ entries'[k] = [value |-> v, expiresAt |-> now + ttl]
<1> DEFINE rest == Drop(entries, Gone(k))
           e    == [value |-> v, expiresAt |-> now + ttl]
<1>1. entries' = Put(rest, k, e)
  BY SetParts
<1>2. DOMAIN rest = Kept(k) /\ \A j \in Kept(k) : rest[j] = entries[j]
  BY DropEntries DEF Kept
<1> HIDE DEF rest
<1>3. /\ DOMAIN Put(rest, k, e) = DOMAIN rest \cup {k} /\ Put(rest, k, e)[k] = e
      /\ \A j \in DOMAIN rest : j # k => Put(rest, k, e)[j] = rest[j]
  BY DEF Put
<1> QED BY <1>1, <1>2, <1>3

LEMMA RemoveEntries ==
    ASSUME NEW K, Remove(K)
    PROVE  /\ DOMAIN entries' = DOMAIN entries \ K
           /\ \A j \in DOMAIN entries' : entries'[j] = entries[j]
           /\ before' = {p \in before : p[1] \notin K /\ p[2] \notin K}
<1>1. /\ DOMAIN Drop(entries, K) = DOMAIN entries \ K
      /\ \A j \in DOMAIN entries \ K : Drop(entries, K)[j] = entries[j]
  BY DropEntries
<1> QED BY <1>1 DEF Remove

LEMMA RemoveType ==
    ASSUME MapTypeOK, NEW K, Remove(K)
    PROVE  IsStore(entries', Keys, MapEntry) /\ before' \subseteq (DOMAIN entries') \X (DOMAIN entries')
<1>1. IsStore(entries', Keys, MapEntry)
  BY DropStore DEF Remove, MapTypeOK
<1>2. ASSUME NEW p \in before' PROVE p \in (DOMAIN entries') \X (DOMAIN entries')
  <2>1. p \in (DOMAIN entries) \X (DOMAIN entries) /\ p[1] \notin K /\ p[2] \notin K
    <3>1. p \in before /\ p[1] \notin K /\ p[2] \notin K
      BY <1>2 DEF Remove
    <3> QED BY <3>1 DEF MapTypeOK
  <2>2. DOMAIN entries' = DOMAIN entries \ K
    BY RemoveEntries
  <2> QED BY <2>1, <2>2
<1> QED BY <1>1, <1>2

LEMMA SetType ==
    ASSUME MapTypeOK, NEW k \in Keys, NEW v \in Values, NEW ttl \in Ttls, Set(k, v, ttl)
    PROVE  MapTypeOK'
<1>1. [value |-> v, expiresAt |-> now + ttl] \in MapEntry
  BY SetsAssumption DEF MapTypeOK, MapEntry
<1>2. IsStore(Drop(entries, Gone(k)), Keys, MapEntry)
  BY DropStore DEF MapTypeOK
<1>3. IsStore(entries', Keys, MapEntry)
  BY <1>1, <1>2, SetParts, PutStore
<1>4. before' \subseteq (DOMAIN entries') \X (DOMAIN entries')
  <2>1. before' \subseteq (Kept(k) \X Kept(k)) \cup (Kept(k) \X {k})
    <3>1. before' = (before \cap (Kept(k) \X Kept(k)))
                    \cup (IF k \in Kept(k) THEN {} ELSE Kept(k) \X {k})
      BY SetParts
    <3> QED BY <3>1
  <2>2. DOMAIN entries' = Kept(k) \cup {k}
    BY SetEntries
  <2> QED BY <2>1, <2>2
<1> QED BY <1>3, <1>4, SetParts DEF MapTypeOK

LEMMA NextType == MapTypeOK /\ [MapNext]_mapVars => MapTypeOK'
<1> SUFFICES ASSUME MapTypeOK, [MapNext]_mapVars PROVE MapTypeOK'
  OBVIOUS
<1>1. ASSUME NEW k \in Keys, Get(k) PROVE MapTypeOK'
  <2>1. IsStore(entries', Keys, MapEntry) /\ before' \subseteq (DOMAIN entries') \X (DOMAIN entries')
    BY <1>1, RemoveType DEF Get, MapTypeOK
  <2>2. reply' \in Values \cup {NoValue} /\ now' = now
    BY <1>1 DEF Get, MapTypeOK, IsStore, MapEntry
  <2> QED BY <2>1, <2>2 DEF MapTypeOK
<1>2. ASSUME NEW K, Remove(K), UNCHANGED <<now, reply>> PROVE MapTypeOK'
  BY <1>2, RemoveType DEF MapTypeOK
<1>3. CASE ClockMoves
  BY <1>3 DEF ClockMoves, MapTypeOK
<1>4. CASE UNCHANGED mapVars
  BY <1>4 DEF mapVars, MapTypeOK
<1> QED BY <1>1, <1>2, <1>3, <1>4, SetType DEF MapNext, Delete, DeleteByPrefix

\* Every variable holds a value of its type.
THEOREM MapTypeCorrect == MapSpec => []MapTypeOK
<1>1. MapInit => MapTypeOK
  BY EmptyStore DEF MapInit, MapTypeOK
<1> QED BY <1>1, NextType, PTL DEF MapSpec

\* Removing keys keeps the oldest of the keys that stay.
LEMMA RemoveOldest ==
    ASSUME HasOldest, NEW K, Remove(K)
    PROVE  HasOldest'
<1> SUFFICES ASSUME NEW S \in SUBSET DOMAIN entries', S # {}
             PROVE  \E k \in S : Oldest(S)' = {k}
  BY DEF HasOldest, Oldest
<1>0. DOMAIN entries' = DOMAIN entries \ K
  BY RemoveEntries
<1>1. S \in SUBSET DOMAIN entries /\ S \cap K = {}
  BY <1>0
<1>2. Oldest(S)' = Oldest(S)
  BY <1>1, RemoveEntries DEF Oldest
<1> QED BY <1>1, <1>2 DEF HasOldest

\* A key set for the first time is after all the others.
LEMMA SetOldest ==
    ASSUME MapTypeOK, HasOldest, NEW k, NEW v, NEW ttl, Set(k, v, ttl)
    PROVE  HasOldest'
<1> SUFFICES ASSUME NEW S \in SUBSET DOMAIN entries', S # {}
             PROVE  \E j \in S : Oldest(S)' = {j}
  BY DEF HasOldest, Oldest
<1>k. S \subseteq Kept(k) \cup {k} /\ Kept(k) \subseteq DOMAIN entries
  BY SetEntries DEF Kept
<1>1. CASE k \in Kept(k)
  <2>1. S \subseteq Kept(k) /\ before' = before \cap (Kept(k) \X Kept(k))
    BY <1>k, <1>1, SetParts
  <2>2. Oldest(S)' = Oldest(S)
    BY <2>1 DEF Oldest
  <2> QED BY <1>k, <2>1, <2>2 DEF HasOldest
<1>2. CASE k \notin Kept(k)
  <2> DEFINE T == S \ {k}
  <2>b. before' = (before \cap (Kept(k) \X Kept(k))) \cup (Kept(k) \X {k})
    BY <1>2, SetParts
  <2>1. CASE T = {}
    <3>1. S = {k}
      BY <2>1
    <3> QED BY <3>1 DEF Oldest
  <2>2. CASE T # {}
    <3>1. T \in SUBSET DOMAIN entries /\ T \subseteq Kept(k)
      BY <1>k
    <3>2. PICK o \in T : Oldest(T) = {o}
      BY <2>2, <3>1 DEF HasOldest
    <3>3. \A j \in T \ {o} : <<o, j>> \in before'
      BY <2>b, <3>1, <3>2 DEF Oldest
    <3>4. o \in Oldest(S)'
      <4>1. <<o, k>> \in before'
        BY <2>b, <3>1
      <4> QED BY <3>3, <4>1 DEF Oldest
    <3>5. ASSUME NEW j \in Oldest(S)' PROVE j = o
      <4>1. CASE j = k
        <5>1. <<k, o>> \in before'
          BY <3>5, <4>1 DEF Oldest
        <5> QED BY <1>2, <2>b, <3>1, <5>1
      <4>2. CASE j # k
        <5>1. j \in T /\ \A i \in T \ {j} : <<j, i>> \in before'
          BY <3>5, <4>2 DEF Oldest
        <5>2. \A i \in T \ {j} : <<j, i>> \in before
          BY <1>2, <2>b, <3>1, <5>1
        <5>3. j \in Oldest(T)
          BY <5>1, <5>2 DEF Oldest
        <5> QED BY <3>2, <5>3
      <4> QED BY <4>1, <4>2
    <3> QED BY <3>2, <3>4, <3>5
  <2> QED BY <2>1, <2>2
<1> QED BY <1>1, <1>2

\* evict() makes room: it removes an entry whenever there are MaxEntries.
LEMMA EvictMakesRoom ==
    ASSUME Bounded, HasOldest
    PROVE  Cardinality(DOMAIN entries \ Evicted) < MaxEntries
<1> DEFINE dead == {k \in DOMAIN entries : Expired(k)}
           rest == DOMAIN entries \ dead
<1>1. IsFiniteSet(rest) /\ Cardinality(rest) \in Nat /\ Cardinality(rest) <= MaxEntries
  <2>1. rest \in SUBSET DOMAIN entries
    OBVIOUS
  <2>2. IsFiniteSet(rest) /\ Cardinality(rest) <= Cardinality(DOMAIN entries)
    BY <2>1, FS_Subset DEF Bounded
  <2>3. Cardinality(rest) \in Nat /\ Cardinality(DOMAIN entries) \in Nat
    BY <2>2, FS_CardinalityType DEF Bounded
  <2> QED BY <2>2, <2>3, CapAssumption DEF Bounded
<1>2. CASE Cardinality(rest) >= MaxEntries
  <2>1. rest # {}
    BY <1>2, CapAssumption, FS_EmptySet
  <2>2. PICK o \in rest : Oldest(rest) = {o}
    BY <2>1 DEF HasOldest
  <2>3. DOMAIN entries \ Evicted = rest \ {o}
    BY <1>2, <2>2 DEF Evicted
  <2>4. Cardinality(rest \ {o}) = Cardinality(rest) - 1
    BY <1>1, <2>2, FS_RemoveElement
  <2> HIDE DEF rest
  <2> QED BY <1>1, <2>3, <2>4, CapAssumption
<1>3. CASE ~(Cardinality(rest) >= MaxEntries)
  <2>1. DOMAIN entries \ Evicted = rest
    BY <1>3 DEF Evicted
  <2> HIDE DEF rest
  <2> QED BY <1>1, <1>3, <2>1, CapAssumption
<1> QED BY <1>2, <1>3

LEMMA InitInv == MapInit => MapInv
<1> SUFFICES ASSUME MapInit PROVE MapInv
  OBVIOUS
<1>1. MapTypeOK
  BY EmptyStore DEF MapInit, MapTypeOK
<1>2. DOMAIN entries = {}
  BY EmptyStore DEF MapInit
<1>3. IsFiniteSet({}) /\ Cardinality({}) = 0
  BY FS_EmptySet
<1>4. Bounded
  BY <1>2, <1>3, CapAssumption DEF Bounded
<1>5. HasOldest
  BY <1>2 DEF HasOldest
<1> QED BY <1>1, <1>4, <1>5 DEF MapInv

LEMMA RemoveBounded ==
    ASSUME Bounded, NEW K, Remove(K)
    PROVE  Bounded'
<1>1. DOMAIN entries' = DOMAIN entries \ K
  BY RemoveEntries
<1>2. DOMAIN entries' \in SUBSET DOMAIN entries
  BY <1>1
<1>3. IsFiniteSet(DOMAIN entries') /\ Cardinality(DOMAIN entries') <= Cardinality(DOMAIN entries)
  BY <1>2, FS_Subset DEF Bounded
<1>4. Cardinality(DOMAIN entries') \in Nat /\ Cardinality(DOMAIN entries) \in Nat
  BY <1>3, FS_CardinalityType DEF Bounded
<1> QED BY <1>3, <1>4, CapAssumption DEF Bounded

LEMMA SetBounded ==
    ASSUME Bounded, HasOldest, NEW k, NEW v, NEW ttl, Set(k, v, ttl)
    PROVE  Bounded'
<1>1. DOMAIN entries' = Kept(k) \cup {k} /\ Kept(k) \in SUBSET DOMAIN entries
  BY SetEntries DEF Kept
<1>2. IsFiniteSet(Kept(k)) /\ Cardinality(Kept(k)) \in Nat /\ Cardinality(DOMAIN entries) \in Nat
  BY <1>1, FS_Subset, FS_CardinalityType DEF Bounded
<1>3. CASE Full(k)
  <2>1. Cardinality(Kept(k)) < MaxEntries
    BY <1>3, EvictMakesRoom DEF Kept, Gone
  <2> QED BY <1>1, <1>2, <2>1, FS_AddElement, CapAssumption DEF Bounded
<1>4. CASE ~Full(k) /\ k \in DOMAIN entries
  <2>1. DOMAIN entries' = DOMAIN entries
    BY <1>1, <1>4 DEF Kept, Gone
  <2> QED BY <2>1 DEF Bounded
<1>5. CASE ~Full(k) /\ k \notin DOMAIN entries
  <2>1. Kept(k) = DOMAIN entries /\ Cardinality(DOMAIN entries) < MaxEntries
    BY <1>2, <1>5, CapAssumption DEF Kept, Gone, Full
  <2> QED BY <1>1, <1>2, <2>1, FS_AddElement, CapAssumption DEF Bounded
<1> QED BY <1>3, <1>4, <1>5

\* The Map changes by removals, by a Set, or not at all.
LEMMA NextCases ==
    ASSUME [MapNext]_mapVars
    PROVE  \/ \E K : Remove(K)
           \/ \E k \in Keys, v \in Values, ttl \in Ttls : Set(k, v, ttl)
           \/ UNCHANGED <<entries, before>>
BY DEF MapNext, mapVars, Get, Delete, DeleteByPrefix, ClockMoves

LEMMA NextInv == MapInv /\ [MapNext]_mapVars => MapInv'
<1> SUFFICES ASSUME MapInv, [MapNext]_mapVars PROVE MapInv'
  OBVIOUS
<1>1. MapTypeOK'
  BY NextType DEF MapInv
<1>2. ASSUME NEW K, Remove(K) PROVE Bounded' /\ HasOldest'
  BY <1>2, RemoveBounded, RemoveOldest DEF MapInv
<1>3. ASSUME NEW k \in Keys, NEW v \in Values, NEW ttl \in Ttls, Set(k, v, ttl)
      PROVE  Bounded' /\ HasOldest'
  BY <1>3, SetBounded, SetOldest DEF MapInv
<1>4. ASSUME UNCHANGED <<entries, before>> PROVE Bounded' /\ HasOldest'
  <2>1. Bounded'
    BY <1>4 DEF MapInv, Bounded
  <2>2. ASSUME NEW S \in SUBSET DOMAIN entries', S # {} PROVE \E k \in S : Oldest(S)' = {k}
    <3>1. Oldest(S)' = Oldest(S) /\ S \in SUBSET DOMAIN entries
      BY <1>4 DEF Oldest
    <3> QED BY <2>2, <3>1 DEF MapInv, HasOldest
  <2>3. HasOldest'
    BY <2>2 DEF HasOldest, Oldest
  <2> QED BY <2>1, <2>3
<1>5. Bounded' /\ HasOldest'
  <2>1. \/ \E K : Remove(K)
        \/ \E k \in Keys, v \in Values, ttl \in Ttls : Set(k, v, ttl)
        \/ UNCHANGED <<entries, before>>
    BY NextCases
  <2> QED BY <1>2, <1>3, <1>4, <2>1
<1> QED BY <1>1, <1>5 DEF MapInv

LEMMA MapInvariant == MapSpec => []MapInv
BY InitInv, NextInv, PTL DEF MapSpec

\* The cap holds whatever is stored, for every cap.
THEOREM Boundedness == MapSpec => []Bounded
<1>1. MapInv => Bounded
  BY DEF MapInv
<1> QED BY <1>1, MapInvariant, PTL

\* evict() always finds exactly one oldest key to remove.
THEOREM OldestExists == MapSpec => []HasOldest
<1>1. MapInv => HasOldest
  BY DEF MapInv
<1> QED BY <1>1, MapInvariant, PTL

\* Of the entries that have not expired, only the oldest is pushed out by a new
\* key, and only when the cache is full of them.
THEOREM EvictionOrder == MapSpec => EvictsOldest
<1> DEFINE Orderly ==
      \A k \in DOMAIN entries' \ DOMAIN entries :
          \A gone \in DOMAIN entries \ DOMAIN entries' :
              ~Expired(gone) =>
                  /\ \A j \in DOMAIN entries : ~Expired(j)
                  /\ \A j \in DOMAIN entries \ {gone} : <<gone, j>> \in before /\ j \in DOMAIN entries'
<1>1. MapInv /\ [MapNext]_mapVars => Orderly
  <2> SUFFICES ASSUME MapInv, [MapNext]_mapVars,
                      NEW k \in DOMAIN entries' \ DOMAIN entries,
                      NEW gone \in DOMAIN entries \ DOMAIN entries', ~Expired(gone)
               PROVE  /\ \A j \in DOMAIN entries : ~Expired(j)
                      /\ \A j \in DOMAIN entries \ {gone} : <<gone, j>> \in before /\ j \in DOMAIN entries'
    OBVIOUS
  <2> DEFINE dead == {j \in DOMAIN entries : Expired(j)}
             rest == DOMAIN entries \ dead
  <2>1. ASSUME NEW K, Remove(K) PROVE FALSE
    <3>1. DOMAIN entries' = DOMAIN entries \ K
      BY <2>1, RemoveEntries
    <3> QED BY <3>1
  <2>2. PICK x \in Keys, v \in Values, ttl \in Ttls : Set(x, v, ttl)
    BY <2>1, NextCases
  <2>3. DOMAIN entries' = Kept(x) \cup {x}
    BY <2>2, SetEntries
  <2>4. Full(x) /\ gone \in Evicted
    BY <2>3 DEF Kept, Gone
  <2>5. Cardinality(rest) >= MaxEntries /\ gone \in Oldest(rest)
    BY <2>4 DEF Evicted
  <2>6. rest = DOMAIN entries
    <3>1. rest \in SUBSET DOMAIN entries
      OBVIOUS
    <3>2. Cardinality(rest) \in Nat /\ Cardinality(DOMAIN entries) \in Nat
          /\ Cardinality(rest) <= Cardinality(DOMAIN entries)
      BY <3>1, FS_Subset, FS_CardinalityType DEF MapInv, Bounded
    <3>3. Cardinality(DOMAIN entries) = Cardinality(rest)
      BY <2>5, <3>2, CapAssumption DEF MapInv, Bounded
    <3> QED BY <3>1, <3>3, FS_Subset DEF MapInv, Bounded
  <2>7. Oldest(rest) = {gone} /\ dead = {}
    BY <2>5, <2>6 DEF MapInv, HasOldest
  <2>8. Evicted = {gone}
    BY <2>5, <2>7 DEF Evicted
  <2>9. Kept(x) = DOMAIN entries \ {gone}
    BY <2>4, <2>8 DEF Kept, Gone
  <2>10. \A j \in DOMAIN entries \ {gone} : <<gone, j>> \in before
    BY <2>5, <2>6 DEF Oldest
  <2> QED BY <2>3, <2>7, <2>9, <2>10
<1>2. MapInv /\ [MapNext]_mapVars => [Orderly]_mapVars
  BY <1>1
<1> QED BY <1>2, MapInvariant, PTL DEF MapSpec, EvictsOldest

-------------------------------------------------------------------------------
(* Implementation of LossyCache.                                           *)

LEMMA DropNothing ==
    ASSUME NEW K, NEW V, NEW store, IsStore(store, K, V)
    PROVE  Drop(store, {}) = store
BY DEF IsStore, Drop, Restrict

LEMMA PutDropCommute ==
    ASSUME NEW store, NEW D, NEW k, NEW e, k \notin D
    PROVE  Put(Drop(store, D), k, e) = Drop(Put(store, k, e), D)
<1>1. DOMAIN Drop(store, D) = DOMAIN store \ D
  BY DropEntries
<1>2. DOMAIN Put(store, k, e) = DOMAIN store \cup {k}
  BY DEF Put
<1>3. DOMAIN Drop(Put(store, k, e), D) = (DOMAIN store \ D) \cup {k}
  <2>1. DOMAIN Drop(Put(store, k, e), D) = (DOMAIN Put(store, k, e)) \ D
    BY DropEntries
  <2> QED BY <1>2, <2>1
<1>4. DOMAIN Put(Drop(store, D), k, e) = (DOMAIN store \ D) \cup {k}
  BY <1>1 DEF Put
<1> QED BY <1>3, <1>4 DEF Put, Drop, Restrict

\* The operators of KeyValue are the same on both sides.
LEMMA SameStores ==
    /\ Lossy!Empty = Empty
    /\ \A store, D : Lossy!Drop(store, D) = Drop(store, D)
    /\ \A store, k, e : Lossy!Put(store, k, e) = Put(store, k, e)
BY DEF Lossy!Empty, Empty, Lossy!Drop, Drop, Lossy!Restrict, Restrict, Lossy!Put, Put

LEMMA RemoveRefines ==
    ASSUME MapTypeOK, NEW K, Remove(K)
    PROVE  Lossy!Remains(Drop(entries, K), Keys)
<1>1. IsStore(Drop(entries, K), Keys, MapEntry)
  BY DropStore DEF MapTypeOK
<1>2. entries' = Drop(Drop(entries, K), {})
  BY <1>1, DropNothing DEF Remove
<1> QED BY <1>2, SameStores DEF Lossy!Remains

LEMMA GetRefines ==
    ASSUME MapTypeOK, NEW k \in Keys, Get(k)
    PROVE  Lossy!Get(k)
<1>1. k \in DOMAIN entries => entries[k].expiresAt \in Nat /\ now \in Nat
  BY SetsAssumption DEF MapTypeOK, IsStore, MapEntry
<1>2. Lossy!Live(k) <=> k \in DOMAIN entries /\ ~Expired(k)
  BY <1>1 DEF Lossy!Live, Expired
<1>3. Lossy!Remains(entries, Keys)
  <2>1. CASE Remove({k})
    BY <2>1, SameStores DEF Remove, Lossy!Remains
  <2>2. CASE UNCHANGED <<entries, before>>
    <3>1. entries' = Drop(entries, {})
      BY <2>2, DropNothing DEF MapTypeOK
    <3> QED BY <3>1, SameStores DEF Lossy!Remains
  <2> QED BY <2>1, <2>2 DEF Get
<1> QED BY <1>2, <1>3 DEF Get, Lossy!Get

LEMMA SetRefines ==
    ASSUME MapTypeOK, NEW k \in Keys, NEW v \in Values, NEW ttl \in Ttls, Set(k, v, ttl)
    PROVE  Lossy!Set(k, v, ttl)
<1> DEFINE e == [value |-> v, expiresAt |-> now + ttl]
<1>1. Gone(k) \subseteq DOMAIN entries /\ k \notin Gone(k)
  BY DEF Gone, Full, Evicted, Oldest
<1>2. entries' = Drop(Put(entries, k, e), Gone(k))
  BY <1>1, SetParts, PutDropCommute
<1>3. Gone(k) \in SUBSET (Keys \ {k})
  BY <1>1 DEF MapTypeOK, IsStore
<1>4. Lossy!Remains(Lossy!Put(entries, k, e), Keys \ {k})
  BY <1>2, <1>3, SameStores DEF Lossy!Remains
<1> QED BY <1>4, SetParts DEF Lossy!Set

\* LocalCache is a LossyCache: a read returns nothing or the value last set under
\* its key, unexpired and not deleted since.
THEOREM Implementation == MapSpec => KeepsPromise
<1>1. MapInit => Lossy!Init
  BY SameStores DEF MapInit, Lossy!Init
<1>2. MapTypeOK /\ [MapNext]_mapVars => [Lossy!Next]_(Lossy!vars)
  <2> SUFFICES ASSUME MapTypeOK, [MapNext]_mapVars PROVE Lossy!Next \/ UNCHANGED Lossy!vars
    OBVIOUS
  <2>1. ASSUME NEW k \in Keys, Get(k) PROVE Lossy!Next
    BY <2>1, GetRefines DEF Lossy!Next
  <2>2. ASSUME NEW k \in Keys, NEW v \in Values, NEW ttl \in Ttls, Set(k, v, ttl) PROVE Lossy!Next
    BY <2>2, SetRefines DEF Lossy!Next
  <2>3. ASSUME NEW k \in Keys, Delete(k) PROVE Lossy!Next
    BY <2>3, RemoveRefines, SameStores DEF Delete, Lossy!Delete, Lossy!Next
  <2>4. ASSUME NEW P \in Prefixes, DeleteByPrefix(P) PROVE Lossy!Next
    BY <2>4, RemoveRefines, SameStores DEF DeleteByPrefix, Lossy!Delete, Lossy!Next
  <2>5. CASE ClockMoves
    BY <2>5 DEF ClockMoves, Lossy!ClockMoves, Lossy!Next
  <2>6. CASE UNCHANGED mapVars
    BY <2>6 DEF mapVars, Lossy!vars
  <2> QED BY <2>1, <2>2, <2>3, <2>4, <2>5, <2>6 DEF MapNext
<1> QED BY <1>1, <1>2, MapTypeCorrect, PTL DEF MapSpec, KeepsPromise, Lossy!Spec
===============================================================================
