------------------------------- MODULE UserCache -------------------------------
(***************************************************************************)
(* The caches of ONE user: what services/cardService.ts keeps in Redis and *)
(* in the process's LocalCaches about the user's answered cards, and the   *)
(* requests that fill, read and invalidate them.                           *)
(*                                                                         *)
(* Keys of different users never meet, so one user is enough.  A view is a *)
(* per-user value cached under an unversioned key (seen_cards, review_due, *)
(* progress, streak); a batch is a feed page cached under the user's cache *)
(* version.  Every cached value is abstracted to the set of answered cards *)
(* it was computed from (the cards inside the 24h retry window, so that    *)
(* the set only grows).  One batch key per version stands for the pages.   *)
(*                                                                         *)
(* Every `await` on Redis or on the database is a point where the other    *)
(* requests may run: the command executes in one step and the code after   *)
(* the await resumes in another.  A reply that only selects the next       *)
(* command has no step of its own.                                         *)
(***************************************************************************)
EXTENDS Naturals, FiniteSets, KeyValue

CONSTANTS
    Slots,          \* requests that may be in progress at once
    Cards,
    BatchViews,     \* views a batch is computed from, "seen_cards" among them
    ProgressViews,  \* views GET /api/progress returns
    Serves,         \* the endpoints each slot serves
    InitVersion,    \* user:{id}:v in Redis at the start; 0 is an absent key
    MaxAnswers,     \* bound: answers submitted in a behaviour
    RedisFails,     \* Redis commands may throw
    DbFails,        \* the write of an answer may commit and still throw
    VersionExpires, \* the version key may expire or be evicted
    Crashes         \* the process may be killed and restarted

ASSUME ViewsAssumption ==
    /\ "seen_cards" \in BatchViews
    /\ "incr" \notin BatchViews \cup ProgressViews
ASSUME ServesAssumption ==
    Serves \in [Slots -> SUBSET {"batch", "progress", "handoff", "answer", "claim"}]
ASSUME BoundsAssumption ==
    /\ InitVersion \in Nat /\ MaxAnswers \in Nat
    /\ {RedisFails, DbFails, VersionExpires, Crashes} \subseteq BOOLEAN

Views == BatchViews \cup ProgressViews

VARIABLES
    answered,   \* user_progress: the cards with a row
    rVer,       \* Redis: user:{id}:v
    rView,      \* Redis: the views' keys
    rBatch,     \* Redis: batch keys, by version
    lVer,       \* localUserVersionCache; v = 0 is no entry
    lView,      \* localSeenCardsCache, localReviewDueCache, localProgressCache, localStreakCache
    lBatch,     \* localBatchCache, by version
    req,        \* the request each slot runs
    answers,    \* answers submitted so far, for the bound
    \* Observer variables: no action reads them in a guard.
    acked,      \* cards whose answer got a success response
    unpurged    \* those whose invalidation failed, until a later one succeeds

cacheVars == <<rVer, rView, rBatch, lVer, lView, lBatch>>
observerVars == <<acked, unpurged>>
vars == <<answered, cacheVars, req, answers, observerVars>>

-------------------------------------------------------------------------------
(* Types.                                                                  *)

\* A cached value: the answered cards it was computed from.  clean is an
\* observer's mark: the requests that produced the value overlapped no
\* invalidation, and read no value that is not clean.
Entry == [seen : SUBSET Cards, clean : BOOLEAN]
VersionEntry == [v : Nat, clean : BOOLEAN]

\* Where a request stands in fetching one view.
Fetch == [at : {"off", "get", "db", "set", "reply", "ok"}, seen : SUBSET Cards]
NoFetch == [at |-> "off", seen |-> {}]

\* A request that works on a batch has a version to look it up under.
Request ==
    {r \in
        [pc    : {"idle", "vget", "vreply", "bget", "bmiss", "views", "bset",
                  "breply", "read", "served", "purge", "leftover"},
         cards : SUBSET Cards,      \* the cards a write is for, none for a read
         ver   : Nat,               \* the version in hand, 0 for none
         fetch : [Views -> Fetch],
         page  : SUBSET Cards,      \* what the value in hand was computed from
         todo  : SUBSET (Views \cup {"incr"}),  \* commands of invalidateUser in flight
         must  : SUBSET Cards,      \* observer: answers acknowledged at the start
         clean : BOOLEAN]           \* observer: no invalidation overlapped it
     : r.pc \in {"bget", "bmiss", "views", "bset", "breply"} => r.ver > 0}

NoRequest ==
    [pc |-> "idle", cards |-> {}, ver |-> 0, fetch |-> [k \in Views |-> NoFetch],
     page |-> {}, todo |-> {}, must |-> {}, clean |-> TRUE]

\* Every variable holds a value of its type; no batch is kept under a missing
\* version.
TypeOK ==
    /\ answered \subseteq Cards
    /\ rVer \in Nat
    /\ IsStore(rView, Views, Entry)
    /\ IsStore(rBatch, Nat \ {0}, Entry)
    /\ lVer \in VersionEntry
    /\ IsStore(lView, Views, Entry)
    /\ IsStore(lBatch, Nat \ {0}, Entry)
    /\ req \in [Slots -> Request]
    /\ answers \in 0..MaxAnswers
    /\ acked \subseteq Cards
    /\ unpurged \subseteq Cards

Init ==
    /\ answered = {}
    /\ rVer = InitVersion
    /\ rView = Empty /\ rBatch = Empty
    /\ lVer = [v |-> 0, clean |-> TRUE]
    /\ lView = Empty /\ lBatch = Empty
    /\ req = [s \in Slots |-> NoRequest]
    /\ answers = 0
    /\ acked = {} /\ unpurged = {}

-------------------------------------------------------------------------------
\* An answer is committed and its invalidation has not finished.
Invalidating == \E s \in Slots : req[s].pc \in {"purge", "leftover"}

At(s, p) == req[s].pc = p

Continue(s, r) == req' = [req EXCEPT ![s] = r]

\* A read request that has just arrived; it must reflect the answers
\* acknowledged so far.
Arrived == [NoRequest EXCEPT !.must = acked, !.clean = ~Invalidating]

-------------------------------------------------------------------------------
(* The per-user views: getSeenCardIds, getCardsDueForReview,               *)
(* getUserProgress and getStreak are one algorithm over different keys.    *)

\* The synchronous part of the fetches of the views in K, started in parallel:
\* a local hit answers at once, a miss sends a GET.
StartFetch(r, K) ==
    [r EXCEPT
        !.fetch = [k \in Views |->
                      IF k \notin K THEN NoFetch
                      ELSE IF k \in DOMAIN lView
                           THEN [at |-> "ok", seen |-> lView[k].seen]
                           ELSE [at |-> "get", seen |-> {}]],
        !.clean = @ /\ \A k \in K \cap DOMAIN lView : lView[k].clean]

Fetching(s, k, stage) == req[s].pc \in {"views", "read"} /\ req[s].fetch[k].at = stage

Fetched(s, k, stage, value) ==
    [req[s] EXCEPT !.fetch[k] = [at |-> stage, seen |-> value]]

ViewHit(s, k) ==
    /\ Fetching(s, k, "get")
    /\ k \in DOMAIN rView
    /\ Continue(s, [Fetched(s, k, "reply", rView[k].seen) EXCEPT
                      !.clean = @ /\ rView[k].clean])
    /\ UNCHANGED <<answered, cacheVars, answers, observerVars>>

\* No such key, or the GET threw: query the database.
ViewMiss(s, k) ==
    /\ Fetching(s, k, "get")
    /\ k \notin DOMAIN rView \/ RedisFails
    /\ Continue(s, Fetched(s, k, "db", {}))
    /\ UNCHANGED <<answered, cacheVars, answers, observerVars>>

ViewQuery(s, k) ==
    /\ Fetching(s, k, "db")
    /\ Continue(s, Fetched(s, k, "set", answered))
    /\ UNCHANGED <<answered, cacheVars, answers, observerVars>>

ViewSet(s, k) ==
    /\ Fetching(s, k, "set")
    /\ rView' = Put(rView, k, [seen |-> req[s].fetch[k].seen, clean |-> req[s].clean])
    /\ Continue(s, Fetched(s, k, "reply", req[s].fetch[k].seen))
    /\ UNCHANGED <<answered, rVer, rBatch, lVer, lView, lBatch, answers, observerVars>>

\* The SET threw; the error is logged and the value still goes to the local cache.
ViewSetFails(s, k) ==
    /\ RedisFails
    /\ Fetching(s, k, "set")
    /\ Continue(s, Fetched(s, k, "reply", req[s].fetch[k].seen))
    /\ UNCHANGED <<answered, cacheVars, answers, observerVars>>

ViewFill(s, k) ==
    /\ Fetching(s, k, "reply")
    /\ lView' = Put(lView, k, [seen |-> req[s].fetch[k].seen, clean |-> req[s].clean])
    /\ Continue(s, Fetched(s, k, "ok", req[s].fetch[k].seen))
    /\ UNCHANGED <<answered, rVer, rView, rBatch, lVer, lBatch, answers, observerVars>>

AllFetched(s) == \A k \in Views : req[s].fetch[k].at \in {"off", "ok"}

-------------------------------------------------------------------------------
(* GET /api/cards/batch and /api/cards/next: getUserCacheVersion, getBatch. *)

\* The version is known: a batch in the local cache answers at once, otherwise
\* the batch key is read from Redis.
WithVersion(r, v) ==
    IF v \in DOMAIN lBatch
    THEN [r EXCEPT !.pc = "served", !.ver = 0, !.page = lBatch[v].seen,
                   !.clean = @ /\ lBatch[v].clean]
    ELSE [r EXCEPT !.pc = "bget", !.ver = v]

BatchStart(s) ==
    /\ At(s, "idle")
    /\ "batch" \in Serves[s]
    /\ Continue(s, IF lVer.v # 0
                   THEN WithVersion([Arrived EXCEPT !.clean = @ /\ lVer.clean], lVer.v)
                   ELSE [Arrived EXCEPT !.pc = "vget"])
    /\ UNCHANGED <<answered, cacheVars, answers, observerVars>>

VersionGet(s) ==
    /\ At(s, "vget")
    /\ Continue(s, [req[s] EXCEPT !.pc = "vreply", !.ver = rVer])
    /\ UNCHANGED <<answered, cacheVars, answers, observerVars>>

\* The GET threw: the request goes on as if the key were absent.
VersionGetFails(s) ==
    /\ RedisFails
    /\ At(s, "vget")
    /\ Continue(s, [req[s] EXCEPT !.pc = "vreply", !.ver = 0, !.clean = FALSE])
    /\ UNCHANGED <<answered, cacheVars, answers, observerVars>>

VersionFound(s) ==
    /\ At(s, "vreply")
    /\ req[s].ver # 0
    /\ lVer' = [v |-> req[s].ver, clean |-> req[s].clean]
    /\ Continue(s, WithVersion(req[s], req[s].ver))
    /\ UNCHANGED <<answered, rVer, rView, rBatch, lView, lBatch, answers, observerVars>>

\* No version: '1' is used, and not cached.
VersionAbsent(s) ==
    /\ At(s, "vreply")
    /\ req[s].ver = 0
    /\ Continue(s, WithVersion(req[s], 1))
    /\ UNCHANGED <<answered, cacheVars, answers, observerVars>>

BatchHit(s) ==
    /\ At(s, "bget")
    /\ req[s].ver \in DOMAIN rBatch
    /\ Continue(s, [req[s] EXCEPT !.pc = "breply", !.page = rBatch[req[s].ver].seen,
                                  !.clean = @ /\ rBatch[req[s].ver].clean])
    /\ UNCHANGED <<answered, cacheVars, answers, observerVars>>

BatchMiss(s) ==
    /\ At(s, "bget")
    /\ req[s].ver \notin DOMAIN rBatch \/ RedisFails
    /\ Continue(s, [req[s] EXCEPT !.pc = "bmiss"])
    /\ UNCHANGED <<answered, cacheVars, answers, observerVars>>

\* The views are fetched in parallel (Promise.all).
FetchViews(s) ==
    /\ At(s, "bmiss")
    /\ Continue(s, StartFetch([req[s] EXCEPT !.pc = "views"], BatchViews))
    /\ UNCHANGED <<answered, cacheVars, answers, observerVars>>

\* rankCards and the page's rows: only the seen set decides what the page may hold.
RankPage(s) ==
    /\ At(s, "views")
    /\ AllFetched(s)
    /\ Continue(s, [req[s] EXCEPT !.pc = "bset", !.page = req[s].fetch["seen_cards"].seen,
                                  !.fetch = NoRequest.fetch])
    /\ UNCHANGED <<answered, cacheVars, answers, observerVars>>

BatchSet(s) ==
    /\ At(s, "bset")
    /\ rBatch' = Put(rBatch, req[s].ver, [seen |-> req[s].page, clean |-> req[s].clean])
    /\ Continue(s, [req[s] EXCEPT !.pc = "breply"])
    /\ UNCHANGED <<answered, rVer, rView, lVer, lView, lBatch, answers, observerVars>>

BatchSetFails(s) ==
    /\ RedisFails
    /\ At(s, "bset")
    /\ Continue(s, [req[s] EXCEPT !.pc = "breply"])
    /\ UNCHANGED <<answered, cacheVars, answers, observerVars>>

BatchFill(s) ==
    /\ At(s, "breply")
    /\ lBatch' = Put(lBatch, req[s].ver, [seen |-> req[s].page, clean |-> req[s].clean])
    /\ Continue(s, [req[s] EXCEPT !.pc = "served", !.ver = 0])
    /\ UNCHANGED <<answered, rVer, rView, rBatch, lVer, lView, answers, observerVars>>

-------------------------------------------------------------------------------
(* GET /api/progress, POST /api/handoff/create and /resolve: views alone.  *)

ReadStart(s, endpoint, K) ==
    /\ At(s, "idle")
    /\ endpoint \in Serves[s]
    /\ Continue(s, StartFetch([Arrived EXCEPT !.pc = "read"], K))
    /\ UNCHANGED <<answered, cacheVars, answers, observerVars>>

\* The reply joins the views: it reflects the answers all of them reflect.
ReadServe(s) ==
    /\ At(s, "read")
    /\ AllFetched(s)
    /\ Continue(s, [req[s] EXCEPT
                      !.pc = "served", !.fetch = NoRequest.fetch,
                      !.page = {c \in Cards : \A k \in Views :
                                   req[s].fetch[k].at = "ok" => c \in req[s].fetch[k].seen}])
    /\ UNCHANGED <<answered, cacheVars, answers, observerVars>>

\* The response has been sent.
Finish(s) ==
    /\ At(s, "served")
    /\ Continue(s, NoRequest)
    /\ UNCHANGED <<answered, cacheVars, answers, observerVars>>

-------------------------------------------------------------------------------
(* POST /api/cards/answer: markCardAsAnswered, then invalidateUser.  POST   *)
(* /api/auth/claim-anon: the anonymous user's rows are moved, then the same. *)

MayWrite(s, endpoint) ==
    /\ At(s, "idle")
    /\ endpoint \in Serves[s]
    /\ answers < MaxAnswers
    /\ answers' = answers + 1

\* The upsert affects one row whether the card is new or not, and a claim does
\* not look at what it moved, so invalidateUser always follows: its INCR and its
\* four DELs are sent together.  Every other request in progress has now
\* overlapped an invalidation.
Write(s, endpoint, K) ==
    /\ MayWrite(s, endpoint)
    /\ answered' = answered \cup K
    /\ req' = [t \in Slots |->
                 IF t = s THEN [NoRequest EXCEPT !.pc = "purge", !.cards = K,
                                                 !.todo = Views \cup {"incr"},
                                                 !.clean = ~Invalidating]
                 ELSE IF At(t, "idle") THEN req[t]
                 ELSE [req[t] EXCEPT !.clean = FALSE]]
    /\ UNCHANGED <<cacheVars, observerVars>>

\* The INSERT or the UPDATE threw after it committed, or the DELETE of a claim
\* threw: the client gets a 500, the rows are there.
WriteFails(s, endpoint, K) ==
    /\ DbFails
    /\ MayWrite(s, endpoint)
    /\ answered' = answered \cup K
    /\ UNCHANGED <<cacheVars, req, observerVars>>

\* A request whose last leftover command is gone is over.
AfterCommand(r, x) ==
    IF r.pc = "leftover" /\ r.todo \subseteq {x}
    THEN NoRequest
    ELSE [r EXCEPT !.todo = @ \ {x}]

\* Mutant: the version is set instead of incremented.
InvalidateIncr_Resets(s) ==
    /\ "incr" \in req[s].todo
    /\ rVer' = 1
    /\ Continue(s, AfterCommand([req[s] EXCEPT !.ver = 1], "incr"))
    /\ UNCHANGED <<answered, rView, rBatch, lVer, lView, lBatch, answers, observerVars>>

InvalidateIncr(s) ==
    /\ "incr" \in req[s].todo
    /\ rVer' = rVer + 1
    /\ Continue(s, AfterCommand([req[s] EXCEPT !.ver = rVer + 1], "incr"))
    /\ UNCHANGED <<answered, rView, rBatch, lVer, lView, lBatch, answers, observerVars>>

\* Mutant: the DEL names a key nothing is stored under.
InvalidateDel_WrongKey(s, k) ==
    /\ k \in req[s].todo
    /\ Continue(s, AfterCommand(req[s], k))
    /\ UNCHANGED <<answered, cacheVars, answers, observerVars>>

InvalidateDel(s, k) ==
    /\ k \in req[s].todo
    /\ rView' = Drop(rView, {k})
    /\ Continue(s, AfterCommand(req[s], k))
    /\ UNCHANGED <<answered, rVer, rBatch, lVer, lView, lBatch, answers, observerVars>>

\* Mutants: the views stay in the process; the process keeps the version it had.
InvalidateDone_KeepsViews(s) ==
    /\ At(s, "purge")
    /\ req[s].todo = {}
    /\ lVer' = [v |-> req[s].ver, clean |-> req[s].clean]
    /\ lBatch' = Empty
    /\ acked' = acked \cup req[s].cards
    /\ unpurged' = {}
    /\ Continue(s, NoRequest)
    /\ UNCHANGED <<answered, rVer, rView, rBatch, lView, answers>>

InvalidateDone_KeepsVersion(s) ==
    /\ At(s, "purge")
    /\ req[s].todo = {}
    /\ lView' = Empty
    /\ lBatch' = Empty
    /\ acked' = acked \cup req[s].cards
    /\ unpurged' = {}
    /\ Continue(s, NoRequest)
    /\ UNCHANGED <<answered, rVer, rView, rBatch, lVer, answers>>

\* All five replies and EXPIRE's are in: the local caches are cleaned and the
\* response is sent.
InvalidateDone(s) ==
    /\ At(s, "purge")
    /\ req[s].todo = {}
    /\ lVer' = [v |-> req[s].ver, clean |-> req[s].clean]
    /\ lView' = Empty
    /\ lBatch' = Empty
    /\ acked' = acked \cup req[s].cards
    /\ unpurged' = {}
    /\ Continue(s, NoRequest)
    /\ UNCHANGED <<answered, rVer, rView, rBatch, answers>>

\* One of the six commands threw.  The error is swallowed, the local caches are
\* not cleaned, the response is a success; the commands still in flight may
\* execute or be lost.
InvalidateFails(s) ==
    /\ RedisFails
    /\ At(s, "purge")
    /\ acked' = acked \cup req[s].cards
    /\ unpurged' = unpurged \cup req[s].cards
    /\ Continue(s, IF req[s].todo = {} THEN NoRequest ELSE [req[s] EXCEPT !.pc = "leftover"])
    /\ UNCHANGED <<answered, cacheVars, answers>>

LeftoverLost(s, x) ==
    /\ At(s, "leftover")
    /\ x \in req[s].todo
    /\ Continue(s, AfterCommand(req[s], x))
    /\ UNCHANGED <<answered, cacheVars, answers, observerVars>>

-------------------------------------------------------------------------------
(* Expiry, eviction, restart.  Time is abstract: an entry may leave a cache *)
(* at any moment, by its TTL or, locally, by the cap on the entries.       *)

\* Mutant: the key is SET without a TTL.
RedisViewExpires_NoTTL(k) ==
    /\ k \in DOMAIN rView
    /\ FALSE
    /\ UNCHANGED vars

RedisViewExpires(k) ==
    /\ k \in DOMAIN rView
    /\ rView' = Drop(rView, {k})
    /\ UNCHANGED <<answered, rVer, rBatch, lVer, lView, lBatch, req, answers, observerVars>>

RedisBatchExpires(v) ==
    /\ v \in DOMAIN rBatch
    /\ rBatch' = Drop(rBatch, {v})
    /\ UNCHANGED <<answered, rVer, rView, lVer, lView, lBatch, req, answers, observerVars>>

RedisVersionExpires ==
    /\ VersionExpires
    /\ rVer # 0
    /\ rVer' = 0
    /\ UNCHANGED <<answered, rView, rBatch, lVer, lView, lBatch, req, answers, observerVars>>

LocalViewExpires(k) ==
    /\ k \in DOMAIN lView
    /\ lView' = Drop(lView, {k})
    /\ UNCHANGED <<answered, rVer, rView, rBatch, lVer, lBatch, req, answers, observerVars>>

LocalBatchExpires(v) ==
    /\ v \in DOMAIN lBatch
    /\ lBatch' = Drop(lBatch, {v})
    /\ UNCHANGED <<answered, rVer, rView, rBatch, lVer, lView, req, answers, observerVars>>

LocalVersionExpires ==
    /\ lVer.v # 0
    /\ lVer' = [v |-> 0, clean |-> TRUE]
    /\ UNCHANGED <<answered, rVer, rView, rBatch, lView, lBatch, req, answers, observerVars>>

\* The process is killed and starts again with empty LocalCaches; no request in
\* progress is answered, the commands of an invalidation may still execute.
Crash ==
    /\ Crashes
    /\ lVer' = [v |-> 0, clean |-> TRUE]
    /\ lView' = Empty
    /\ lBatch' = Empty
    /\ req' = [s \in Slots |->
                 IF req[s].todo = {} THEN NoRequest
                 ELSE [req[s] EXCEPT !.pc = "leftover"]]
    /\ UNCHANGED <<answered, rVer, rView, rBatch, answers, observerVars>>

-------------------------------------------------------------------------------
\* The steps of a request, once it has arrived.
Step(s) ==
    \/ VersionGet(s) \/ VersionGetFails(s) \/ VersionFound(s) \/ VersionAbsent(s)
    \/ BatchHit(s) \/ BatchMiss(s) \/ FetchViews(s) \/ RankPage(s)
    \/ BatchSet(s) \/ BatchSetFails(s) \/ BatchFill(s)
    \/ ReadServe(s) \/ Finish(s)
    \/ InvalidateIncr(s) \/ InvalidateDone(s) \/ InvalidateFails(s)
    \/ \E k \in Views :
         \/ ViewHit(s, k) \/ ViewMiss(s, k) \/ ViewQuery(s, k)
         \/ ViewSet(s, k) \/ ViewSetFails(s, k) \/ ViewFill(s, k)
         \/ InvalidateDel(s, k)
    \/ \E x \in Views \cup {"incr"} : LeftoverLost(s, x)

Arrival(s) ==
    \/ BatchStart(s)
    \/ ReadStart(s, "progress", ProgressViews)
    \/ ReadStart(s, "handoff", {"seen_cards"})
    \/ \E c \in Cards : Write(s, "answer", {c}) \/ WriteFails(s, "answer", {c})
    \/ \E K \in SUBSET (Cards \ answered) : Write(s, "claim", K) \/ WriteFails(s, "claim", K)

Expiry ==
    \/ \E k \in Views : RedisViewExpires(k) \/ LocalViewExpires(k)
    \/ \E v \in DOMAIN rBatch : RedisBatchExpires(v)
    \/ \E v \in DOMAIN lBatch : LocalBatchExpires(v)
    \/ RedisVersionExpires
    \/ LocalVersionExpires

Next == (\E s \in Slots : Arrival(s) \/ Step(s)) \/ Expiry \/ Crash

Spec == Init /\ [][Next]_vars

\* A request once started takes its next step: every command to Redis or to the
\* database answers or throws, and the event loop runs what it resumes.  Every
\* entry but the version key's is SET with a TTL and so expires.  Nothing makes
\* requests arrive.
Fairness ==
    /\ \A s \in Slots : WF_vars(Step(s))
    /\ \A k \in Views : WF_vars(RedisViewExpires(k)) /\ WF_vars(LocalViewExpires(k))
    /\ \A v \in 1..(InitVersion + MaxAnswers) :
          WF_vars(RedisBatchExpires(v)) /\ WF_vars(LocalBatchExpires(v))
    /\ WF_vars(LocalVersionExpires)

FairSpec == Spec /\ Fairness

-------------------------------------------------------------------------------
(* What the caches promise.                                                *)

\* Of the acknowledged answers, those whose invalidation went through.
Purged == acked \ unpurged

\* A view in Redis or in the process that no invalidation raced (no command
\* between the database read and the fill belonged to an overlapping answer)
\* reflects every answer acknowledged so far and purged: stale views come from a
\* race or from a failed invalidation and from nothing else, whatever fails,
\* expires or restarts.
ViewsFresh ==
    /\ \A k \in DOMAIN rView : rView[k].clean => Purged \subseteq rView[k].seen
    /\ \A k \in DOMAIN lView : lView[k].clean => Purged \subseteq lView[k].seen

\* The versions under which a request may still look a batch up, short of a
\* version that an overlapping invalidation has put back.
LooksUp(r) == r.clean /\ r.pc \in {"vreply", "bget", "bmiss", "views", "bset", "breply"}

LiveVersions ==
    {rVer}
    \cup (IF lVer.clean THEN {lVer.v} ELSE {})
    \cup {req[s].ver : s \in {t \in Slots : LooksUp(req[t])}}

\* INCR orphans every earlier batch: a batch that no invalidation raced, under a
\* version that is still looked up, reflects every answer acknowledged and
\* purged.  Holds for a user whose version key exists and stays.
BatchesFresh ==
    \A v \in LiveVersions :
        /\ v \in DOMAIN rBatch /\ rBatch[v].clean => Purged \subseteq rBatch[v].seen
        /\ v \in DOMAIN lBatch /\ lBatch[v].clean => Purged \subseteq lBatch[v].seen

\* A reply that no invalidation overlapped, drawn from values none raced,
\* reflects every answer acknowledged before the request and purged.
CleanRepliesFresh ==
    \A s \in Slots : At(s, "served") /\ req[s].clean => req[s].must \ unpurged \subseteq req[s].page

\* No repeats: a reply reflects every answer acknowledged before the request
\* arrived, so a feed page never holds an answered card.
NoRepeats == \A s \in Slots : At(s, "served") => req[s].must \subseteq req[s].page

\* Every cached value, whatever raced or failed, in the end reflects every
\* acknowledged answer and stays so: staleness is bounded by the TTLs.
EventuallyFresh ==
    <>[](/\ \A k \in DOMAIN rView : acked \subseteq rView[k].seen
         /\ \A k \in DOMAIN lView : acked \subseteq lView[k].seen
         /\ \A v \in DOMAIN rBatch : acked \subseteq rBatch[v].seen
         /\ \A v \in DOMAIN lBatch : acked \subseteq lBatch[v].seen)

-------------------------------------------------------------------------------
(* Inductive invariants.                                                   *)

\* Only an invalidation has commands in flight.
CommandsOwned(r) == r.todo # {} => r.pc \in {"purge", "leftover"}

\* A clean read runs while no invalidation does.
CleanAlone(r) == r.clean /\ r.pc \notin {"idle", "purge", "leftover"} => ~Invalidating

\* What a clean read has fetched of the views is fresh.
FetchesFresh(r) ==
    r.clean /\ r.pc \in {"views", "read"} =>
        \A k \in Views : r.fetch[k].at \in {"set", "reply", "ok"} => Purged \subseteq r.fetch[k].seen

\* Once an invalidation has deleted a view, and until it ends, Redis holds no
\* clean value of it.
DeletedNotClean(r) ==
    r.pc = "purge" => \A k \in (Views \ r.todo) \cap DOMAIN rView : ~rView[k].clean

\* Why the views are fresh: a clean read runs alone, and by the end of an
\* invalidation no clean value is left to go stale.
ViewInv ==
    /\ acked \subseteq answered
    /\ ViewsFresh
    /\ \A s \in Slots :
          /\ req[s].cards \subseteq answered
          /\ CommandsOwned(req[s])
          /\ CleanAlone(req[s])
          /\ FetchesFresh(req[s])
          /\ DeletedNotClean(req[s])

\* No batch is stored, and no request works, above the version in Redis.
VersionsBounded ==
    /\ rVer > 0
    /\ lVer.v <= rVer
    /\ \A s \in Slots : req[s].ver <= rVer
    /\ DOMAIN rBatch \subseteq 1..rVer
    /\ DOMAIN lBatch \subseteq 1..rVer

\* A read without a version is not clean.
VersionKnown(r) == r.pc = "vreply" /\ r.ver = 0 => ~r.clean

\* A batch is ranked from the seen cards.
SeenFetched(r) == r.pc = "views" => r.fetch["seen_cards"].at # "off"

\* The page a clean request has in hand is fresh.
PageFresh(r) ==
    /\ r.must \subseteq acked
    /\ r.clean /\ r.pc \in {"bset", "breply", "served"} => Purged \subseteq r.page

\* After its INCR, and until it ends, no clean batch is stored under the version
\* an invalidation has taken or a later one.
OrphanedNotClean(r) ==
    r.pc = "purge" /\ "incr" \notin r.todo =>
        \A v \in DOMAIN rBatch : v >= r.ver => ~rBatch[v].clean

\* Why the batches are fresh, for a user whose version key exists and stays.
BatchInv ==
    /\ VersionsBounded
    /\ BatchesFresh
    /\ \A s \in Slots :
          /\ VersionKnown(req[s])
          /\ SeenFetched(req[s])
          /\ PageFresh(req[s])
          /\ OrphanedNotClean(req[s])
===============================================================================
