----------------------------- MODULE CatalogProofs -----------------------------
(***************************************************************************)
(* For every table, file, set of batches and number of scripts and         *)
(* requests: the catalog in Redis is the table's but for what SharedFresh  *)
(* names, everybody gets the same daily cards, and a batch is inserted as  *)
(* a whole.                                                                *)
(*                                                                         *)
(* SharedFresh is not inductive: a request that is about to store the      *)
(* catalog must hold the table's, unless a commit came between its read    *)
(* and its SET, which `late' records.                                      *)
(***************************************************************************)
EXTENDS Catalog, TLAPS, FiniteSetTheorems

\* Requests and scripts are records by their names.
IsRequest(q) == q = [pc |-> q.pc, daily |-> q.daily, held |-> q.held, ids |-> q.ids]
IsScript(p) == p = [pc |-> p.pc, batch |-> p.batch, start |-> p.start]

Shape ==
    /\ req = [r \in Requests |-> req[r]] /\ \A r \in Requests : IsRequest(req[r])
    /\ script = [s \in Scripts |-> script[s]] /\ \A s \in Scripts : IsScript(script[s])

HeldFresh ==
    \A r \in Requests : At(r, "set") /\ r \notin late => req[r].held = {table}

FreshInv == Shape /\ HeldFresh /\ SharedFresh

\* Every step keeps requests and scripts records by their names.
LEMMA ShapeKept == Shape /\ [Next]_vars => Shape'
<1> SUFFICES ASSUME Shape, [Next]_vars PROVE Shape'
  OBVIOUS
<1> USE DEF Shape, Continue
<1>1. CASE UNCHANGED vars
  BY <1>1 DEF vars, dailyVars, scriptVars, freshVars
<1>2. ASSUME NEW r \in Requests,
             \/ FeedStart(r) \/ SharedHit(r) \/ SharedMiss(r) \/ Query(r) \/ StoreShared(r)
             \/ StoreFails(r) \/ FillLocal(r) \/ RequestFails(r)
             \/ DailyStart(r) \/ DeckHit(r) \/ DeckMiss(r) \/ PickCards(r) \/ StoreDeck(r)
             \/ StoreDeckFails(r)
      PROVE Shape'
  <2>1. UNCHANGED script
    BY <1>2 DEF FeedStart, SharedHit, SharedMiss, Query, StoreShared, StoreFails, FillLocal,
       RequestFails, DailyStart, DeckHit, DeckMiss, PickCards, StoreDeck, StoreDeckFails, scriptVars
  <2>2. /\ req' = [req EXCEPT ![r] = req'[r]]
        /\ IsRequest(req'[r])
    BY <1>2 DEF IsRequest, FeedStart, SharedHit, SharedMiss, Query, StoreShared, StoreFails, FillLocal,
       RequestFails, DailyStart, DeckHit, DeckMiss, PickCards, StoreDeck, StoreDeckFails, NoRequest
  <2> QED
    BY <2>1, <2>2
<1>3. CASE SharedExpires \/ LocalExpires \/ \E i \in Answerable : Answer(i)
  BY <1>3 DEF SharedExpires, LocalExpires, Answer, scriptVars
<1>4. ASSUME NEW s \in Scripts,
             \/ SeedStart(s) \/ SeedCommit(s) \/ SeedRefused(s) \/ SeedFails(s)
             \/ \E batch \in Batches : AppendStart(s, batch)
             \/ AppendMax(s) \/ AppendCommit(s) \/ AppendGivesUp(s)
             \/ Invalidate(s) \/ InvalidateFails(s)
      PROVE Shape'
  <2>1. UNCHANGED req
    BY <1>4 DEF SeedStart, SeedCommit, SeedRefused, SeedFails, AppendStart, AppendMax, AppendCommit,
       AppendGivesUp, Invalidate, InvalidateFails, Starts, Ends, Committed
  <2>2. /\ script' = [script EXCEPT ![s] = script'[s]]
        /\ IsScript(script'[s])
    <3>1. ASSUME NEW next, Committed(s, next)
          PROVE /\ script' = [script EXCEPT ![s] = script'[s]]
                /\ IsScript(script'[s])
      <4>1. CASE next = "idle"
        BY <3>1, <4>1 DEF IsScript, Committed, NoScript
      <4>2. CASE next # "idle"
        BY <3>1, <4>2 DEF IsScript, Committed
      <4> QED
        BY <4>1, <4>2
    <3>2. CASE SeedCommit(s) \/ AppendCommit(s)
      BY <3>1, <3>2 DEF SeedCommit, AppendCommit
    <3>3. CASE SeedStart(s) \/ \E batch \in Batches : AppendStart(s, batch)
      BY <3>3 DEF IsScript, SeedStart, AppendStart, Starts, NoScript
    <3>4. CASE SeedFails(s) \/ AppendMax(s)
      BY <3>4 DEF IsScript, SeedFails, AppendMax, Ends, NoScript
    <3>5. CASE SeedRefused(s) \/ AppendGivesUp(s) \/ Invalidate(s) \/ InvalidateFails(s)
      BY <3>5 DEF IsScript, SeedRefused, AppendGivesUp, Invalidate, InvalidateFails, Ends, NoScript
    <3> QED
      BY <1>4, <3>2, <3>3, <3>4, <3>5
  <2> QED
    BY <2>1, <2>2
<1> QED
  BY <1>1, <1>2, <1>3, <1>4 DEF Next, Scripts

\* What a request is about to store is the table's, unless a commit came between.
LEMMA HeldFreshKept == Shape /\ HeldFresh /\ [Next]_vars => HeldFresh'
<1> SUFFICES ASSUME Shape, HeldFresh, [Next]_vars PROVE HeldFresh'
  OBVIOUS
<1> USE DEF HeldFresh, At, Continue
<1>1. CASE UNCHANGED vars
  BY <1>1 DEF vars, dailyVars, scriptVars, freshVars
<1>2. ASSUME NEW r \in Requests, Query(r)
      PROVE HeldFresh'
  BY <1>2 DEF Shape, IsRequest, Query, freshVars
<1>3. ASSUME NEW r \in Requests,
             \/ FeedStart(r) \/ SharedHit(r) \/ SharedMiss(r) \/ StoreShared(r)
             \/ StoreFails(r) \/ FillLocal(r) \/ RequestFails(r)
             \/ DailyStart(r) \/ DeckHit(r) \/ DeckMiss(r) \/ PickCards(r) \/ StoreDeck(r)
             \/ StoreDeckFails(r)
      PROVE HeldFresh'
  <2>1. UNCHANGED table /\ late \ {r} \subseteq late'
    BY <1>3 DEF FeedStart, SharedHit, SharedMiss, StoreShared, StoreFails, FillLocal, RequestFails,
       DailyStart, DeckHit, DeckMiss, PickCards, StoreDeck, StoreDeckFails, freshVars
  <2>2. /\ req' = [req EXCEPT ![r] = req'[r]]
        /\ req'[r].pc # "set"
    <3>1. SUFFICES \E q : q.pc # "set" /\ Continue(r, q)
      BY DEF Shape
    <3>2. NoRequest.pc # "set"
      BY DEF NoRequest
    <3>3. IsRequest(req[r])
      BY DEF Shape
    <3> HIDE DEF Continue
    <3>4. CASE SharedHit(r) \/ SharedMiss(r)
      BY <3>3, <3>4 DEF SharedHit, SharedMiss, IsRequest
    <3>5. CASE StoreShared(r) \/ StoreFails(r)
      BY <3>3, <3>5 DEF StoreShared, StoreFails, IsRequest
    <3>6. CASE FillLocal(r)
      <4>1. CASE req[r].daily
        BY <3>3, <3>6, <4>1 DEF FillLocal, IsRequest
      <4>2. CASE ~req[r].daily
        BY <3>2, <3>6, <4>2 DEF FillLocal
      <4> QED
        BY <4>1, <4>2
    <3>7. CASE RequestFails(r) \/ DeckHit(r) \/ StoreDeck(r) \/ StoreDeckFails(r)
      BY <3>2, <3>7 DEF RequestFails, DeckHit, StoreDeck, StoreDeckFails
    <3>8. CASE DeckMiss(r)
      <4>1. CASE local = {}
        BY <3>3, <3>8, <4>1 DEF DeckMiss, IsRequest
      <4>2. CASE local # {}
        BY <3>3, <3>8, <4>2 DEF DeckMiss, IsRequest
      <4> QED
        BY <4>1, <4>2
    <3>9. CASE FeedStart(r) \/ DailyStart(r)
      BY <3>9 DEF FeedStart, DailyStart, NoRequest
    <3>10. CASE PickCards(r)
      BY <3>3, <3>10 DEF PickCards, IsRequest
    <3> QED
      BY <1>3, <3>4, <3>5, <3>6, <3>7, <3>8, <3>9, <3>10
  <2> QED
    BY <2>1, <2>2 DEF Shape
<1>4. CASE SharedExpires \/ LocalExpires \/ \E i \in Answerable : Answer(i)
  BY <1>4 DEF SharedExpires, LocalExpires, Answer, freshVars
<1>5. ASSUME NEW s \in Scripts, NEW next, Committed(s, next)
      PROVE HeldFresh'
  BY <1>5 DEF Committed
<1>6. ASSUME NEW s \in Scripts,
             \/ SeedStart(s) \/ SeedRefused(s) \/ SeedFails(s)
             \/ \E batch \in Batches : AppendStart(s, batch)
             \/ AppendMax(s) \/ AppendGivesUp(s) \/ Invalidate(s) \/ InvalidateFails(s)
      PROVE HeldFresh'
  BY <1>6 DEF SeedStart, SeedRefused, SeedFails, AppendStart, AppendMax, AppendGivesUp, Invalidate,
     InvalidateFails, Starts, Ends, freshVars
<1> QED
  BY <1>1, <1>2, <1>3, <1>4, <1>5, <1>6 DEF Next, Scripts, SeedCommit, AppendCommit

\* A stale catalog in Redis has a script that will delete it, or is known to be behind.
LEMMA SharedFreshKept == FreshInv /\ [Next]_vars => SharedFresh'
<1> SUFFICES ASSUME FreshInv, [Next]_vars PROVE SharedFresh'
  OBVIOUS
<1> USE DEF FreshInv, SharedFresh
<1>1. CASE UNCHANGED vars
  BY <1>1 DEF vars, dailyVars, scriptVars, freshVars
<1>2. ASSUME NEW r \in Requests, StoreShared(r)
      PROVE SharedFresh'
  <2>1. CASE r \in late
    BY <1>2, <2>1 DEF StoreShared
  <2>2. CASE r \notin late
    BY <1>2, <2>2 DEF StoreShared, HeldFresh
  <2> QED
    BY <2>1, <2>2
<1>3. ASSUME NEW r \in Requests,
             \/ FeedStart(r) \/ SharedHit(r) \/ SharedMiss(r) \/ Query(r)
             \/ StoreFails(r) \/ FillLocal(r) \/ RequestFails(r)
             \/ DailyStart(r) \/ DeckHit(r) \/ DeckMiss(r) \/ PickCards(r) \/ StoreDeck(r)
             \/ StoreDeckFails(r)
      PROVE SharedFresh'
  BY <1>3 DEF FeedStart, SharedHit, SharedMiss, Query, StoreFails, FillLocal, RequestFails,
     DailyStart, DeckHit, DeckMiss, PickCards, StoreDeck, StoreDeckFails, scriptVars, freshVars
<1>4. CASE SharedExpires \/ LocalExpires \/ \E i \in Answerable : Answer(i)
  BY <1>4 DEF SharedExpires, LocalExpires, Answer, scriptVars, freshVars
<1>5. ASSUME NEW s \in Scripts, NEW next, Committed(s, next)
      PROVE SharedFresh'
  <2>1. CASE next = "del"
    <3>1. script'[s].pc = "del"
      BY <1>5, <2>1 DEF Committed, Shape, IsScript
    <3> QED
      BY <3>1
  <2>2. CASE next # "del"
    BY <1>5, <2>2 DEF Committed
  <2> QED
    BY <2>1, <2>2
<1>6. ASSUME NEW s \in Scripts, Invalidate(s) \/ InvalidateFails(s)
      PROVE SharedFresh'
  BY <1>6 DEF Invalidate, InvalidateFails
<1>7. ASSUME NEW s \in Scripts,
             \/ SeedStart(s) \/ SeedRefused(s) \/ SeedFails(s)
             \/ \E batch \in Batches : AppendStart(s, batch)
             \/ AppendMax(s) \/ AppendGivesUp(s)
      PROVE SharedFresh'
  <2>1. script[s].pc # "del" /\ UNCHANGED <<table, shared, behind>>
    BY <1>7 DEF SeedStart, SeedRefused, SeedFails, AppendStart, AppendMax, AppendGivesUp, Starts,
       Ends, freshVars
  <2>2. \E record : script' = [script EXCEPT ![s] = record]
    BY <1>7 DEF SeedStart, SeedRefused, SeedFails, AppendStart, AppendMax, AppendGivesUp, Starts, Ends
  <2>3. ASSUME NEW t \in Scripts, script[t].pc = "del"
        PROVE script'[t].pc = "del"
    BY <2>1, <2>2, <2>3 DEF Shape
  <2> QED
    BY <2>1, <2>3
<1> QED
  BY <1>1, <1>2, <1>3, <1>4, <1>5, <1>6, <1>7 DEF Next, Scripts, SeedCommit, AppendCommit

\* The catalog in Redis is the table's, but for what the definition names: a commit
\* of seed.ts or seedBatch.ts with its invalidation to come or missed, and a fill
\* that getCardMetadata read before it.
THEOREM CatalogFresh == Spec => []SharedFresh
<1>1. Init => FreshInv
  BY DEF Init, FreshInv, Shape, IsRequest, IsScript, HeldFresh, SharedFresh, At, NoRequest, NoScript
<1>2. FreshInv /\ [Next]_vars => FreshInv'
  BY ShapeKept, HeldFreshKept, SharedFreshKept DEF FreshInv
<1>3. FreshInv => SharedFresh
  BY DEF FreshInv
<1> QED
  BY <1>1, <1>2, <1>3, PTL DEF Spec

-------------------------------------------------------------------------------
(* The daily cards.  Until Redis fails or two requests deal the date at    *)
(* once, one request deals at most, while Redis has no set; what was       *)
(* replied is the set that Redis has kept since.                           *)

DailyInv ==
    /\ \A r \in Requests :
          /\ req[r].pc \in {"deckget", "pick", "deckset"} => req[r].daily
          /\ At(r, "idle") => ~req[r].daily
    /\ \A S, T \in deck : S = T
    /\ split => dealt = {}
    /\ ~split =>
          /\ \A r, q \in Dealing : r = q
          /\ Dealing # {} => deck = {}
          /\ dealt \subseteq deck

\* What the steps of a request do to the request, as far as DailyInv tells it.
LEMMA DailyRequest ==
    ASSUME Shape, DailyInv, NEW r \in Requests,
           \/ FeedStart(r) \/ SharedHit(r) \/ SharedMiss(r) \/ Query(r) \/ StoreShared(r)
           \/ StoreFails(r) \/ FillLocal(r) \/ RequestFails(r)
           \/ DailyStart(r) \/ PickCards(r)
    PROVE  /\ req' = [req EXCEPT ![r] = req'[r]]
           /\ req'[r].pc \in {"deckget", "pick", "deckset"} => req'[r].daily
           /\ req'[r].pc = "idle" => ~req'[r].daily
           /\ req'[r].daily /\ req'[r].pc # "deckget" => req[r].daily /\ req[r].pc # "deckget"
           /\ UNCHANGED dailyVars
<1> USE DEF At, dailyVars
<1>1. IsRequest(req[r]) /\ req = [q \in Requests |-> req[q]]
  BY DEF Shape
<1>2. /\ NoRequest.pc = "idle" /\ NoRequest.daily = FALSE
      /\ req[r].pc \in {"deckget", "pick", "deckset"} => req[r].daily
  BY DEF NoRequest, DailyInv
<1>3. CASE SharedHit(r)
  BY <1>1, <1>2, <1>3 DEF SharedHit, IsRequest, Continue
<1>4. CASE SharedMiss(r) \/ Query(r)
  BY <1>1, <1>2, <1>4 DEF SharedMiss, Query, IsRequest, Continue
<1>5. CASE StoreShared(r) \/ StoreFails(r)
  BY <1>1, <1>2, <1>5 DEF StoreShared, StoreFails, IsRequest, Continue
<1>6. CASE FillLocal(r)
  <2>1. CASE req[r].daily
    BY <1>1, <1>2, <1>6, <2>1 DEF FillLocal, IsRequest, Continue
  <2>2. CASE ~req[r].daily
    BY <1>1, <1>2, <1>6, <2>2 DEF FillLocal, Continue
  <2> QED BY <2>1, <2>2
<1>7. CASE RequestFails(r)
  BY <1>1, <1>2, <1>7 DEF RequestFails, Continue
<1>8. CASE FeedStart(r) \/ DailyStart(r)
  <2>1. CASE FeedStart(r)
    <3>1. req'[r].pc = "get" /\ req'[r].daily = FALSE
      BY <1>1, <2>1 DEF FeedStart, NoRequest, Continue
    <3> QED BY <1>1, <2>1, <3>1 DEF FeedStart, Continue
  <2>2. CASE DailyStart(r)
    <3>1. req'[r].pc = "deckget" /\ req'[r].daily
      BY <1>1, <2>2 DEF DailyStart, NoRequest, Continue
    <3> QED BY <1>1, <2>2, <3>1 DEF DailyStart, Continue
  <2> QED BY <1>8, <2>1, <2>2
<1>9. CASE PickCards(r)
  BY <1>1, <1>2, <1>9 DEF PickCards, IsRequest, Continue
<1> QED BY <1>3, <1>4, <1>5, <1>6, <1>7, <1>8, <1>9

\* The first set that is replied is the one that stays in Redis.
LEMMA DailyKept == Shape /\ DailyInv /\ [Next]_vars => DailyInv'
<1> SUFFICES ASSUME Shape, DailyInv, [Next]_vars PROVE DailyInv'
  OBVIOUS
<1> USE DEF At
<1>s. req = [q \in Requests |-> req[q]]
  BY DEF Shape
<1>n. NoRequest.pc = "idle" /\ NoRequest.daily = FALSE
  BY DEF NoRequest
<1>1. ASSUME UNCHANGED <<req, dailyVars>> PROVE DailyInv'
  BY <1>1 DEF DailyInv, Dealing, dailyVars
<1>2. ASSUME NEW r \in Requests,
             \/ FeedStart(r) \/ SharedHit(r) \/ SharedMiss(r) \/ Query(r) \/ StoreShared(r)
             \/ StoreFails(r) \/ FillLocal(r) \/ RequestFails(r)
             \/ DailyStart(r) \/ PickCards(r)
      PROVE DailyInv'
  <2>1. /\ req' = [req EXCEPT ![r] = req'[r]]
        /\ req'[r].pc \in {"deckget", "pick", "deckset"} => req'[r].daily
        /\ req'[r].pc = "idle" => ~req'[r].daily
        /\ req'[r].daily /\ req'[r].pc # "deckget" => req[r].daily /\ req[r].pc # "deckget"
        /\ UNCHANGED dailyVars
    BY <1>2, DailyRequest
  <2>2. \A q \in Requests : q # r => req'[q] = req[q]
    BY <1>s, <2>1
  <2>3. Dealing' \subseteq Dealing
    BY <2>1, <2>2 DEF Dealing
  <2> QED BY <2>1, <2>2, <2>3 DEF DailyInv, dailyVars
<1>3. ASSUME NEW r \in Requests, DeckHit(r) PROVE DailyInv'
  <2>1. /\ req' = [req EXCEPT ![r] = NoRequest] /\ split' = split /\ deck' = deck
        /\ \E ids \in deck : dealt' = IF split' THEN {} ELSE dealt \cup {ids}
    BY <1>3 DEF DeckHit, Replies, Continue
  <2>2. req'[r] = NoRequest /\ \A q \in Requests : q # r => req'[q] = req[q]
    BY <1>s, <2>1
  <2>3. Dealing' \subseteq Dealing
    BY <1>n, <2>2 DEF Dealing
  <2> QED BY <1>n, <2>1, <2>2, <2>3 DEF DailyInv
<1>4. ASSUME NEW r \in Requests, DeckMiss(r) PROVE DailyInv'
  <2>1. /\ req[r].pc = "deckget" /\ req[r].daily /\ deck' = deck
        /\ split' = (split \/ deck # {} \/ Dealing # {})
        /\ dealt' = IF split' THEN {} ELSE dealt
        /\ req' = [req EXCEPT ![r] = req'[r]]
    BY <1>4, <1>s DEF DeckMiss, DailyInv, Continue
  <2>2. req'[r].pc \in {"get", "pick"} /\ req'[r].daily
    <3>1. IsRequest(req[r])
      BY DEF Shape
    <3>2. CASE local = {}
      BY <1>4, <1>s, <2>1, <3>1, <3>2 DEF DeckMiss, IsRequest, Continue
    <3>3. CASE local # {}
      BY <1>4, <1>s, <2>1, <3>1, <3>3 DEF DeckMiss, IsRequest, Continue
    <3> QED BY <3>2, <3>3
  <2>3. \A q \in Requests : q # r => req'[q] = req[q]
    BY <1>s, <2>1
  <2>4. Dealing' \subseteq Dealing \cup {r}
    BY <2>3 DEF Dealing
  <2>5. CASE split'
    BY <2>1, <2>2, <2>3, <2>5 DEF DailyInv
  <2>6. CASE ~split'
    BY <2>1, <2>2, <2>3, <2>4, <2>6 DEF DailyInv
  <2> QED BY <2>5, <2>6
<1>5. ASSUME NEW r \in Requests, StoreDeck(r) PROVE DailyInv'
  <2>1. /\ req' = [req EXCEPT ![r] = NoRequest] /\ split' = split /\ deck' = {req[r].ids}
        /\ dealt' = IF split' THEN {} ELSE dealt \cup {req[r].ids}
        /\ req[r].pc = "deckset"
    BY <1>5 DEF StoreDeck, Replies, Continue
  <2>2. req'[r] = NoRequest /\ \A q \in Requests : q # r => req'[q] = req[q]
    BY <1>s, <2>1
  <2>3. r \in Dealing /\ Dealing' \subseteq Dealing \ {r}
    BY <1>n, <2>1, <2>2 DEF Dealing, DailyInv
  <2>4. ~split => dealt = {} /\ Dealing' = {}
    BY <2>3 DEF DailyInv
  <2> QED BY <1>n, <2>1, <2>2, <2>4 DEF DailyInv
<1>6. ASSUME NEW r \in Requests, StoreDeckFails(r) PROVE DailyInv'
  <2>1. /\ req' = [req EXCEPT ![r] = NoRequest] /\ split' /\ deck' = deck /\ dealt' = {}
    BY <1>6 DEF StoreDeckFails, Replies, Continue
  <2>2. req'[r] = NoRequest /\ \A q \in Requests : q # r => req'[q] = req[q]
    BY <1>s, <2>1
  <2> QED BY <1>n, <2>1, <2>2 DEF DailyInv
<1>7. CASE SharedExpires \/ LocalExpires \/ (\E i \in Answerable : Answer(i)) \/ UNCHANGED vars
  BY <1>1, <1>7 DEF SharedExpires, LocalExpires, Answer, vars
<1>8. ASSUME NEW s \in Scripts,
             \/ SeedStart(s) \/ SeedCommit(s) \/ SeedRefused(s) \/ SeedFails(s)
             \/ \E batch \in Batches : AppendStart(s, batch)
             \/ AppendMax(s) \/ AppendCommit(s) \/ AppendGivesUp(s)
             \/ Invalidate(s) \/ InvalidateFails(s)
      PROVE DailyInv'
  BY <1>1, <1>8 DEF SeedStart, SeedCommit, SeedRefused, SeedFails, AppendStart, AppendMax,
     AppendCommit, AppendGivesUp, Invalidate, InvalidateFails, Starts, Ends, Committed
<1> QED
  BY <1>2, <1>3, <1>4, <1>5, <1>6, <1>7, <1>8 DEF Next, Scripts

\* Everybody gets the same daily cards, though the catalog they are drawn from may
\* change between two requests, unless two requests dealt them at once or Redis
\* failed.
THEOREM DailyAgreement == Spec => []SameDailyForAll
<1>1. Init => Shape /\ DailyInv
  BY DEF Init, Shape, IsRequest, IsScript, NoRequest, NoScript, DailyInv, Dealing, At
<1>2. Shape /\ DailyInv /\ [Next]_vars => (Shape /\ DailyInv)'
  BY ShapeKept, DailyKept
<1>3. DailyInv => SameDailyForAll
  <2> SUFFICES ASSUME DailyInv PROVE Cardinality(dealt) <= 1
    BY DEF SameDailyForAll
  <2>1. \A S, T \in dealt : S = T
    BY DEF DailyInv
  <2>2. CASE dealt = {}
    BY <2>2, FS_EmptySet
  <2>3. ASSUME NEW S \in dealt PROVE Cardinality(dealt) <= 1
    <3>1. dealt = {S}
      BY <2>1
    <3> QED BY <3>1, FS_Singleton
  <2> QED BY <2>2, <2>3
<1> QED
  BY <1>1, <1>2, <1>3, PTL DEF Spec

-------------------------------------------------------------------------------
(* Ids: a finite set of them has a largest one.  The library's induction   *)
(* theorems are about an operator; the argument by a least counterexample  *)
(* needs a set only.                                                       *)

\* A set of naturals that is not empty has a least element.
LEMMA LeastNat ==
    ASSUME NEW T, T \subseteq Nat, T # {}
    PROVE  \E x \in T : \A y \in T : x <= y
<1> DEFINE R == {ss \in Nat \X Nat : ss[1] < ss[2]}
<1>1. IsWellFoundedOn(R, Nat)
  BY NatLessThanWellFounded DEF OpToRel
<1>2. \A x, y \in Nat : y < x => <<y, x>> \in R
  OBVIOUS
<1> HIDE DEF R
<1>3. PICK x \in T : \A y \in T : <<y, x>> \notin R
  BY <1>1, WFMin
<1>4. ASSUME NEW y \in T PROVE x <= y
  <2>1. ~(y < x)
    BY <1>2, <1>3
  <2> QED BY <2>1
<1> QED BY <1>3, <1>4

\* A finite set of naturals is bounded: a smallest counterexample would have an
\* element whose removal leaves a smaller one.
LEMMA FiniteBounded ==
    ASSUME NEW S, IsFiniteSet(S), S \subseteq Nat
    PROVE  \E b \in Nat : \A x \in S : x <= b
<1> DEFINE HasBound(U) == \E b \in Nat : \A x \in U : x <= b
           Free(n) == \E U \in SUBSET Nat : IsFiniteSet(U) /\ Cardinality(U) = n /\ ~HasBound(U)
           Bad == {n \in Nat : Free(n)}
<1>1. Bad = {}
  <2> SUFFICES ASSUME Bad # {} PROVE FALSE
    OBVIOUS
  <2> HIDE DEF HasBound
  <2>1. PICK n \in Bad : \A m \in Bad : n <= m
    BY LeastNat
  <2>2. PICK U \in SUBSET Nat : IsFiniteSet(U) /\ Cardinality(U) = n /\ ~HasBound(U)
    OBVIOUS
  <2>3. U # {}
    BY <2>2 DEF HasBound
  <2>4. PICK x \in U : TRUE
    BY <2>3
  <2>5. IsFiniteSet(U \ {x}) /\ Cardinality(U \ {x}) = n - 1
    BY <2>2, <2>4, FS_RemoveElement
  <2>6. n - 1 \in Nat
    BY <2>5, FS_CardinalityType
  <2>7. n - 1 \notin Bad
    BY <2>1, <2>6
  <2>8. HasBound(U \ {x})
    BY <2>5, <2>6, <2>7
  <2>9. PICK b \in Nat : \A y \in U \ {x} : y <= b
    BY <2>8 DEF HasBound
  <2>10. HasBound(U)
    <3>1. CASE x <= b
      BY <2>9, <3>1 DEF HasBound
    <3>2. CASE ~(x <= b)
      BY <2>4, <2>9, <3>2 DEF HasBound
    <3> QED BY <3>1, <3>2
  <2> QED BY <2>2, <2>10
<1>2. Cardinality(S) \in Nat
  BY FS_CardinalityType
<1> QED BY <1>1, <1>2

\* A finite set of naturals that is not empty has a largest element, which is its Max.
LEMMA MaxOfFinite ==
    ASSUME NEW S, IsFiniteSet(S), S \subseteq Nat, S # {}
    PROVE  Max(S) \in S /\ \A x \in S : x <= Max(S)
<1> DEFINE B == {b \in Nat : \A x \in S : x <= b}
<1>1. B # {}
  BY FiniteBounded
<1>2. PICK b \in B : \A c \in B : b <= c
  BY <1>1, LeastNat
<1>3. b \in S
  <2> SUFFICES ASSUME b \notin S PROVE FALSE
    OBVIOUS
  <2>1. \A x \in S : x <= b - 1
    OBVIOUS
  <2>2. PICK x \in S : x <= b - 1
    BY <2>1
  <2>3. b - 1 \in B
    BY <2>1, <2>2
  <2> QED BY <1>2, <2>3
<1>4. \E x \in S : \A y \in S : x >= y
  BY <1>3
<1> QED BY <1>4 DEF Max

-------------------------------------------------------------------------------
(* The batches.  From the check of a batch to its commit, and then to the  *)
(* end of the script, only a commit of another script changes the table.   *)

\* A sentence that one of the cards has, and no other.
Once(cards, sentence) ==
    \E i \in DOMAIN cards :
        cards[i] = sentence /\ \A j \in DOMAIN cards : cards[j] = sentence => j = i

\* What an append knows of its batch, and of the table unless it is outdated.
ScriptInv(s) ==
    /\ script[s].pc \in {"max", "tx", "del"} => script[s].batch \in Batches
    /\ script[s].pc = "tx" => script[s].start \in Nat
    /\ s \notin outdated =>
          /\ script[s].pc \in {"max", "tx"} => Valid(script[s].batch)
          /\ script[s].pc = "tx" => \A i \in DOMAIN table : i < script[s].start
          /\ script[s].pc = "del" =>
                \A k \in DOMAIN script[s].batch : Once(table, script[s].batch[k])

AppendInv ==
    /\ IsFiniteSet(DOMAIN table) /\ DOMAIN table \subseteq Nat
    /\ \A s \in Appends : ScriptInv(s)

\* No card has the first free id, or one after it.
LEMMA FirstFreeIdFree ==
    ASSUME IsFiniteSet(DOMAIN table), DOMAIN table \subseteq Nat
    PROVE  FirstFreeId \in Nat /\ \A i \in DOMAIN table : i < FirstFreeId
<1>1. CASE DOMAIN table = {}
  BY <1>1 DEF FirstFreeId
<1>2. CASE DOMAIN table # {}
  <2>1. Max(DOMAIN table) \in DOMAIN table /\ \A i \in DOMAIN table : i <= Max(DOMAIN table)
    BY <1>2, MaxOfFinite
  <2>2. FirstFreeId = Max(DOMAIN table) + 1
    BY <1>2 DEF FirstFreeId
  <2> HIDE DEF FirstFreeId
  <2> QED BY <2>1, <2>2
<1> QED BY <1>1, <1>2

\* A batch of sentences that are new, inserted at ids that are free, is there as a
\* whole and once.
LEMMA InsertedWhole ==
    ASSUME NEW s \in Appends, AppendInv, AppendCommit(s), script[s].pc = "tx"
    PROVE  /\ IsFiniteSet(DOMAIN table') /\ DOMAIN table' \subseteq Nat
           /\ s \notin outdated =>
                 \A k \in DOMAIN script[s].batch : Once(table', script[s].batch[k])
<1> DEFINE b == script[s].batch
           start == script[s].start
           last == start + Len(b) - 1
<1>1. /\ b \in Seq(Range(b)) /\ start \in Nat
      /\ s \notin outdated => Valid(b) /\ \A i \in DOMAIN table : i < start
  BY BatchesAssumption DEF AppendInv, ScriptInv
<1>2. table' = [i \in DOMAIN table \cup start..last |->
                   IF i \in DOMAIN table THEN table[i] ELSE b[i - start + 1]]
  BY DEF AppendCommit
<1>3. Len(b) \in Nat /\ DOMAIN b = 1..Len(b)
  BY <1>1
<1> HIDE DEF b, start
<1>4. IsFiniteSet(start..last) /\ start..last \subseteq Nat
  <2>1. start \in Int /\ last \in Int
    BY <1>1, <1>3
  <2>2. IsFiniteSet(start..last)
    BY <2>1, FS_Interval
  <2> QED BY <1>1, <2>1, <2>2
<1>5. IsFiniteSet(DOMAIN table') /\ DOMAIN table' \subseteq Nat
  <2>1. IsFiniteSet(DOMAIN table \cup start..last)
    BY <1>4, FS_Union DEF AppendInv
  <2>2. DOMAIN table' = DOMAIN table \cup start..last
    BY <1>2
  <2> QED BY <1>4, <2>1, <2>2 DEF AppendInv
<1>6. ASSUME s \notin outdated, NEW k \in DOMAIN b PROVE Once(table', b[k])
  <2> DEFINE i == start + k - 1
  <2>1. /\ i \in start..last /\ i \notin DOMAIN table /\ k = i - start + 1
        /\ \A j \in start..last : j \notin DOMAIN table /\ j - start + 1 \in DOMAIN b
    BY <1>1, <1>3, <1>6
  <2>2. table'[i] = b[k]
    BY <1>2, <2>1
  <2>3. ASSUME NEW j \in DOMAIN table', table'[j] = b[k] PROVE j = i
    <3>1. CASE j \in DOMAIN table
      BY <1>1, <1>2, <1>6, <2>3, <3>1 DEF Valid
    <3>2. CASE j \in start..last
      <4>1. b[j - start + 1] = b[k] /\ j - start + 1 \in DOMAIN b
        BY <1>2, <2>1, <2>3, <3>2
      <4>2. j - start + 1 = k
        BY <1>1, <1>6, <4>1 DEF Valid
      <4> QED BY <1>1, <1>3, <1>6, <3>2, <4>2
    <3> QED BY <1>2, <2>3, <3>1, <3>2
  <2>4. i \in DOMAIN table'
    BY <1>2, <2>1
  <2> HIDE DEF i
  <2> QED BY <2>2, <2>3, <2>4 DEF Once
<1> QED BY <1>5, <1>6 DEF b

\* Scripts that are neither at work nor overlapped go on as they were.
LEMMA AppendKept == Shape /\ AppendInv /\ [Next]_vars => AppendInv'
<1> SUFFICES ASSUME Shape, AppendInv, [Next]_vars PROVE AppendInv'
  OBVIOUS
<1>i. /\ IsFiniteSet(DOMAIN table) /\ DOMAIN table \subseteq Nat
      /\ \A s \in Appends : ScriptInv(s)
  BY DEF AppendInv
<1>s. script = [s \in Scripts |-> script[s]] /\ \A s \in Scripts : IsScript(script[s])
  BY DEF Shape
<1>n. NoScript.pc = "idle"
  BY DEF NoScript
\* A step that changes one script and no card.
<1>o. ASSUME NEW s \in Scripts, table' = table,
             script' = [script EXCEPT ![s] = script'[s]], outdated \ {s} \subseteq outdated',
             s \in Appends => ScriptInv(s)'
      PROVE AppendInv'
  <2>1. ASSUME NEW t \in Appends, t # s PROVE ScriptInv(t)'
    <3>1. script'[t] = script[t] /\ ScriptInv(t)
      BY <1>i, <1>s, <1>o, <2>1 DEF Scripts
    <3> QED BY <1>o, <2>1, <3>1 DEF ScriptInv, Valid
  <2>2. (/\ IsFiniteSet(DOMAIN table) /\ DOMAIN table \subseteq Nat
         /\ \A t \in Appends : ScriptInv(t))'
    BY <1>i, <1>o, <2>1
  <2> QED BY <2>2 DEF AppendInv
\* A commit: an append that another script's commit overlapped is outdated.
<1>c. ASSUME NEW s \in Scripts, NEW next, Committed(s, next), next \in {"del", "idle", "again"},
             IsFiniteSet(DOMAIN table'), DOMAIN table' \subseteq Nat,
             s \in Appends =>
                /\ next \in {"del", "idle"} /\ script[s].batch \in Batches
                /\ s \notin outdated =>
                      \A k \in DOMAIN script[s].batch : Once(table', script[s].batch[k])
      PROVE AppendInv'
  <2>1. \A t \in Scripts \ {s} : script'[t] = script[t]
    BY <1>s, <1>c DEF Committed
  <2>2. outdated' = (outdated \cup {t \in Appends : t # s /\ script[t].pc # "idle"})
                       \ (IF next = "idle" THEN {s} ELSE {})
    BY <1>c DEF Committed
  <2>3. ASSUME NEW t \in Appends, t # s PROVE ScriptInv(t)'
    <3>1. script'[t] = script[t] /\ ScriptInv(t)
      BY <1>i, <2>1, <2>3 DEF Scripts
    <3>2. t \notin outdated' => script[t].pc = "idle"
      BY <2>2, <2>3
    <3> QED BY <3>1, <3>2 DEF ScriptInv
  <2>4. ASSUME s \in Appends PROVE ScriptInv(s)'
    <3>1. CASE next = "idle"
      <4>1. script'[s] = NoScript
        BY <1>s, <1>c, <3>1 DEF Committed
      <4> QED BY <1>n, <4>1 DEF ScriptInv
    <3>2. CASE next = "del"
      <4>1. script'[s].pc = "del" /\ script'[s].batch = script[s].batch
        BY <1>s, <1>c, <3>2 DEF Committed, IsScript
      <4>2. s \in outdated' <=> s \in outdated
        BY <2>2, <3>2
      <4> QED BY <1>c, <2>4, <4>1, <4>2 DEF ScriptInv
    <3> QED BY <1>c, <2>4, <3>1, <3>2
  <2>5. (/\ IsFiniteSet(DOMAIN table) /\ DOMAIN table \subseteq Nat
         /\ \A t \in Appends : ScriptInv(t))'
    BY <1>c, <2>3, <2>4
  <2> QED BY <2>5 DEF AppendInv
<1>1. CASE UNCHANGED <<table, script, outdated>>
  BY <1>1 DEF AppendInv, ScriptInv, Valid, Once
<1>2. ASSUME NEW r \in Requests,
             \/ FeedStart(r) \/ SharedHit(r) \/ SharedMiss(r) \/ Query(r) \/ StoreShared(r)
             \/ StoreFails(r) \/ FillLocal(r) \/ RequestFails(r)
             \/ DailyStart(r) \/ DeckHit(r) \/ DeckMiss(r) \/ PickCards(r) \/ StoreDeck(r)
             \/ StoreDeckFails(r)
      PROVE UNCHANGED <<table, script, outdated>>
  BY <1>2 DEF FeedStart, SharedHit, SharedMiss, Query, StoreShared, StoreFails, FillLocal,
     RequestFails, DailyStart, DeckHit, DeckMiss, PickCards, StoreDeck, StoreDeckFails, scriptVars
<1>3. CASE SharedExpires \/ LocalExpires \/ (\E i \in Answerable : Answer(i)) \/ UNCHANGED vars
  BY <1>1, <1>3 DEF SharedExpires, LocalExpires, Answer, vars, scriptVars
<1>4. ASSUME NEW s \in Seeds,
             \/ SeedStart(s) \/ SeedRefused(s) \/ SeedFails(s) \/ Invalidate(s) \/ InvalidateFails(s)
      PROVE AppendInv'
  <2>1. s \in Scripts /\ s \notin Appends
    BY ProcessesAssumption DEF Scripts
  <2>2. /\ table' = table /\ \E x : script' = [script EXCEPT ![s] = x]
        /\ outdated \ {s} \subseteq outdated'
    BY <1>4 DEF SeedStart, SeedRefused, SeedFails, Invalidate, InvalidateFails, Starts, Ends
  <2>3. script' = [script EXCEPT ![s] = script'[s]]
    BY <1>s, <2>1, <2>2
  <2> QED BY <1>o, <2>1, <2>2, <2>3
<1>5. ASSUME NEW s \in Seeds, SeedCommit(s) PROVE AppendInv'
  <2>1. s \in Scripts /\ s \notin Appends
    BY ProcessesAssumption DEF Scripts
  <2>2. /\ table' = File
        /\ \E next \in {"del", "idle", "again"} : Committed(s, next)
    BY <1>5 DEF SeedCommit
  <2> QED BY <1>c, <2>1, <2>2, FilesAssumption
<1>6. ASSUME NEW s \in Appends, NEW batch \in Batches, AppendStart(s, batch) PROVE AppendInv'
  <2>1. /\ s \in Scripts /\ Valid(batch) /\ UNCHANGED <<table, outdated>>
        /\ script' = [script EXCEPT ![s] = [NoScript EXCEPT !.pc = "max", !.batch = batch]]
    BY <1>6 DEF AppendStart, Starts, Scripts
  <2>2. script'[s].pc = "max" /\ script'[s].batch = batch
    BY <1>s, <2>1 DEF NoScript
  <2>3. script' = [script EXCEPT ![s] = script'[s]]
    BY <1>s, <2>1
  <2>4. ScriptInv(s)'
    BY <2>1, <2>2 DEF ScriptInv, Valid
  <2> QED BY <1>o, <2>1, <2>3, <2>4
<1>7. ASSUME NEW s \in Appends, AppendMax(s) PROVE AppendInv'
  <2>1. /\ s \in Scripts /\ script[s].pc = "max" /\ UNCHANGED <<table, outdated>>
        /\ script' = [script EXCEPT ![s].pc = "tx", ![s].start = FirstFreeId]
    BY <1>7 DEF AppendMax, Scripts
  <2> DEFINE moved == [script EXCEPT ![s].pc = "tx"]
  <2>m. moved[s] = [script[s] EXCEPT !.pc = "tx"]
    BY <1>s, <2>1
  <2>a. /\ script' = [moved EXCEPT ![s].start = FirstFreeId]
        /\ moved = [t \in Scripts |-> moved[t]] /\ \A t \in Scripts \ {s} : moved[t] = script[t]
    BY <1>s, <2>1
  <2> HIDE DEF moved
  <2>b. moved[s] = [pc |-> "tx", batch |-> script[s].batch, start |-> script[s].start]
    BY <1>s, <2>1, <2>m DEF IsScript
  <2>2. /\ script' = [script EXCEPT ![s] = script'[s]]
        /\ script'[s].pc = "tx" /\ script'[s].batch = script[s].batch /\ script'[s].start = FirstFreeId
    BY <1>s, <2>1, <2>a, <2>b
  <2>3. FirstFreeId \in Nat /\ \A i \in DOMAIN table : i < FirstFreeId
    BY <1>i, FirstFreeIdFree
  <2>4. ScriptInv(s)
    BY <1>i
  <2>5. /\ script[s].batch \in Batches
        /\ s \notin outdated => Valid(script[s].batch)
    BY <2>1, <2>4 DEF ScriptInv
  <2>6. s \notin outdated => Valid(script[s].batch)'
    <3>1. script'[s].batch = script[s].batch /\ table' = table
      BY <2>1, <2>2
    <3> QED BY <2>5, <3>1 DEF Valid
  <2>7. ScriptInv(s)'
    BY <2>1, <2>2, <2>3, <2>5, <2>6 DEF ScriptInv
  <2> QED BY <1>o, <2>1, <2>2, <2>7
<1>8. ASSUME NEW s \in Appends, AppendCommit(s) PROVE AppendInv'
  <2>1. /\ s \in Scripts /\ script[s].pc = "tx"
        /\ \E next \in {"del", "idle"} : Committed(s, next)
    BY <1>8 DEF AppendCommit, Scripts
  <2>2. script[s].batch \in Batches
    BY <1>i, <2>1 DEF ScriptInv
  <2>3. /\ IsFiniteSet(DOMAIN table') /\ DOMAIN table' \subseteq Nat
        /\ s \notin outdated =>
              \A k \in DOMAIN script[s].batch : Once(table', script[s].batch[k])
    BY <1>8, <2>1, InsertedWhole
  <2> QED BY <1>c, <2>1, <2>2, <2>3
<1>9. ASSUME NEW s \in Appends, AppendGivesUp(s) \/ Invalidate(s) \/ InvalidateFails(s)
      PROVE AppendInv'
  <2>1. /\ s \in Scripts /\ table' = table /\ script' = [script EXCEPT ![s] = NoScript]
        /\ outdated' = outdated \ {s}
    BY <1>9 DEF AppendGivesUp, Invalidate, InvalidateFails, Ends, Scripts
  <2>2. script'[s] = NoScript /\ script' = [script EXCEPT ![s] = script'[s]]
    BY <1>s, <2>1
  <2>3. ScriptInv(s)'
    BY <1>n, <2>2 DEF ScriptInv
  <2> QED BY <1>o, <2>1, <2>2, <2>3
<1> QED
  BY <1>1, <1>2, <1>3, <1>4, <1>5, <1>6, <1>7, <1>8, <1>9 DEF Next, Scripts

\* A batch that seedBatch.ts has committed is in the table as a whole, each of its
\* sentences once, when no other script committed since the batch was checked.
THEOREM WholeBatches == Spec => []AppendsWhole
<1>1. Init => Shape /\ AppendInv
  BY FilesAssumption DEF Init, Shape, IsRequest, IsScript, NoRequest, NoScript, AppendInv, ScriptInv, Scripts
<1>2. Shape /\ AppendInv /\ [Next]_vars => (Shape /\ AppendInv)'
  BY ShapeKept, AppendKept
<1>3. AppendInv => AppendsWhole
  <2> SUFFICES ASSUME AppendInv, NEW s \in Appends, script[s].pc = "del", s \notin outdated,
                      NEW k \in DOMAIN script[s].batch
               PROVE  Cardinality({i \in DOMAIN table : table[i] = script[s].batch[k]}) = 1
    BY DEF AppendsWhole
  <2>1. Once(table, script[s].batch[k])
    BY DEF AppendInv, ScriptInv
  <2>2. \E i : {j \in DOMAIN table : table[j] = script[s].batch[k]} = {i}
    BY <2>1 DEF Once
  <2> QED BY <2>2, FS_Singleton
<1> QED
  BY <1>1, <1>2, <1>3, PTL DEF Spec
===============================================================================
