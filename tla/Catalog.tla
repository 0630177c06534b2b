------------------------------- MODULE Catalog -------------------------------
(***************************************************************************)
(* The card catalog and its copies: the table cards, the metadata that     *)
(* getCardMetadata of services/cardService.ts keeps in Redis and in the    *)
(* server's memory, the daily challenge's cards (getDailyCards), and the   *)
(* scripts that change the table under a running server, scripts/seed.ts   *)
(* and scripts/seedBatch.ts.                                               *)
(*                                                                         *)
(* A script is a process of its own: its invalidateCatalog deletes the key *)
(* in Redis and the copy in the script's memory, never the server's.  A    *)
(* card is abstracted to its id and its sentence, a catalog to the table   *)
(* as it was read.  A transaction is one step, an await two.  A request    *)
(* whose answer is in the server's memory changes nothing and has no step. *)
(***************************************************************************)
EXTENDS Naturals, Sequences, FiniteSetsExt, KeyValue

CONSTANTS
    FirstCards,  \* the table when the server starts: a sentence for each id
    File,        \* data/cards.json, likewise
    Batches,     \* the batch files: sequences of sentences
    Seeds,       \* processes of seed.ts
    Appends,     \* processes of seedBatch.ts
    Requests,    \* requests in progress at once
    DailyCount,  \* cards of a daily challenge
    Score,       \* the hash of "daily:{date}:{card}" of each id
    Serves,      \* what each request may be: a feed page, the daily cards
    Answerable,  \* bound: the cards users answer
    MaxRuns,     \* bound: runs of the scripts in a behaviour
    Fails        \* commands to Redis and statements of the scripts may fail

ASSUME FilesAssumption ==
    /\ IsFiniteSet(DOMAIN FirstCards) /\ DOMAIN FirstCards \in (SUBSET Nat) \ {{}}
    /\ IsFiniteSet(DOMAIN File) /\ DOMAIN File \in (SUBSET Nat) \ {{}}
ASSUME BatchesAssumption == \A batch \in Batches : batch \in Seq(Range(batch))
ASSUME ProcessesAssumption == Seeds \cap Appends = {}
ASSUME BoundsAssumption ==
    /\ DailyCount \in Nat \ {0} /\ MaxRuns \in Nat
    /\ Fails \in BOOLEAN
    /\ Serves \in [Requests -> SUBSET {"feed", "daily"}]

Scripts == Seeds \cup Appends

VARIABLES
    table,     \* cards: the sentence of each id
    answered,  \* the cards that rows of user_progress refer to
    shared,    \* Redis: catalog:metadata:v1; the set of the one catalog, or none
    local,     \* localMetadataCache of the server, likewise
    deck,      \* Redis: daily:cards:{date}:10; the set of its one set of ids, or none
    req, script, runs,
    \* Observer variables: no action reads them in a guard.
    late,      \* requests about to store a catalog read before the last commit
    behind,    \* the stored catalog was late, or was not deleted after a commit
    outdated,  \* appends that another script's commit overlapped
    dealt,     \* the sets of daily cards replied, until split
    split      \* two requests dealt the date at once, or Redis failed

scriptVars == <<script, runs, outdated>>
freshVars == <<late, behind>>
dailyVars == <<deck, dealt, split>>
vars == <<table, answered, shared, local, dailyVars, req, scriptVars, freshVars>>

NoRequest == [pc |-> "idle", daily |-> FALSE, held |-> {}, ids |-> {}]
NoScript == [pc |-> "idle", batch |-> <<>>, start |-> 0]

\* Every variable holds a value of its type.
TypeOK ==
    /\ DOMAIN table \subseteq Nat
    /\ answered \subseteq DOMAIN table
    /\ Cardinality(shared) <= 1 /\ Cardinality(local) <= 1 /\ Cardinality(deck) <= 1
    /\ \A r \in Requests :
          /\ req[r].pc \in {"idle", "deckget", "get", "query", "set", "fill", "pick", "deckset"}
          /\ req[r].pc \in {"set", "fill", "pick"} => Cardinality(req[r].held) = 1
    /\ \A s \in Scripts : script[s].pc \in {"idle", "max", "tx", "again", "del"}
    /\ runs \in 0..MaxRuns
    /\ late \subseteq Requests /\ outdated \subseteq Appends

Init ==
    /\ table = FirstCards
    /\ answered = {}
    /\ shared = {} /\ local = {}
    /\ deck = {}
    /\ req = [r \in Requests |-> NoRequest]
    /\ script = [s \in Scripts |-> NoScript]
    /\ runs = 0
    /\ late = {} /\ behind = FALSE /\ outdated = {}
    /\ dealt = {} /\ split = FALSE

At(r, p) == req[r].pc = p

Continue(r, q) == req' = [req EXCEPT ![r] = q]

-------------------------------------------------------------------------------
(* getCardMetadata, on a miss in the server's memory: for a feed page, for  *)
(* the warm-up at the start, or for the daily cards.                        *)

FeedStart(r) ==
    /\ At(r, "idle")
    /\ "feed" \in Serves[r]
    /\ local = {}
    /\ Continue(r, [NoRequest EXCEPT !.pc = "get"])
    /\ UNCHANGED <<table, answered, shared, local, dailyVars, scriptVars, freshVars>>

SharedHit(r) ==
    /\ At(r, "get")
    /\ shared # {}
    /\ Continue(r, [req[r] EXCEPT !.pc = "fill", !.held = shared])
    /\ UNCHANGED <<table, answered, shared, local, dailyVars, scriptVars, freshVars>>

\* No such key, or the GET threw.
SharedMiss(r) ==
    /\ At(r, "get")
    /\ shared = {} \/ Fails
    /\ Continue(r, [req[r] EXCEPT !.pc = "query"])
    /\ UNCHANGED <<table, answered, shared, local, dailyVars, scriptVars, freshVars>>

Query(r) ==
    /\ At(r, "query")
    /\ Continue(r, [req[r] EXCEPT !.pc = "set", !.held = {table}])
    /\ UNCHANGED <<table, answered, shared, local, dailyVars, scriptVars, freshVars>>

StoreShared(r) ==
    /\ At(r, "set")
    /\ shared' = req[r].held
    /\ behind' = (r \in late)
    /\ late' = late \ {r}
    /\ Continue(r, [req[r] EXCEPT !.pc = "fill"])
    /\ UNCHANGED <<table, answered, local, dailyVars, scriptVars>>

\* The SET threw; the error is logged and the catalog still goes to memory.
StoreFails(r) ==
    /\ Fails
    /\ At(r, "set")
    /\ late' = late \ {r}
    /\ Continue(r, [req[r] EXCEPT !.pc = "fill"])
    /\ UNCHANGED <<table, answered, shared, local, dailyVars, scriptVars, behind>>

FillLocal(r) ==
    /\ At(r, "fill")
    /\ local' = req[r].held
    /\ Continue(r, IF req[r].daily THEN [req[r] EXCEPT !.pc = "pick"] ELSE NoRequest)
    /\ UNCHANGED <<table, answered, shared, dailyVars, scriptVars, freshVars>>

\* A query threw: a 500.
RequestFails(r) ==
    /\ Fails
    /\ At(r, "query") \/ At(r, "pick")
    /\ Continue(r, NoRequest)
    /\ UNCHANGED <<table, answered, shared, local, dailyVars, scriptVars, freshVars>>

\* The METADATA_TTL of an hour, or an eviction.
SharedExpires ==
    /\ shared # {}
    /\ shared' = {}
    /\ behind' = FALSE
    /\ UNCHANGED <<table, answered, local, dailyVars, req, scriptVars, late>>

\* Mutant: a copy is dropped only while Redis holds the same one.
LocalExpires_Renewed ==
    /\ local # {}
    /\ local \cap shared # {}
    /\ local' = {}
    /\ UNCHANGED <<table, answered, shared, dailyVars, req, scriptVars, freshVars>>

\* The five minutes of localMetadataCache, or a restart of the server.
LocalExpires ==
    /\ local # {}
    /\ local' = {}
    /\ UNCHANGED <<table, answered, shared, dailyVars, req, scriptVars, freshVars>>

-------------------------------------------------------------------------------
(* GET /api/daily: getDailyCards.                                          *)

\* The first DailyCount ids by their hash.
PickDailyIds(ids) ==
    {i \in ids : Cardinality({j \in ids : Score[j] < Score[i]}) < DailyCount}

\* The requests that deal the cards themselves: they missed the key.
Dealing == {r \in Requests : req[r].daily /\ ~At(r, "deckget")}

Replies(ids) == dealt' = IF split' THEN {} ELSE dealt \cup {ids}

DailyStart(r) ==
    /\ At(r, "idle")
    /\ "daily" \in Serves[r]
    /\ Continue(r, [NoRequest EXCEPT !.pc = "deckget", !.daily = TRUE])
    /\ UNCHANGED <<table, answered, shared, local, dailyVars, scriptVars, freshVars>>

DeckHit(r) ==
    /\ At(r, "deckget")
    /\ split' = split
    /\ \E ids \in deck : Replies(ids)
    /\ Continue(r, NoRequest)
    /\ UNCHANGED <<table, answered, shared, local, deck, scriptVars, freshVars>>

DeckMiss(r) ==
    /\ At(r, "deckget")
    /\ deck = {} \/ Fails
    /\ split' = (split \/ deck # {} \/ Dealing # {})
    /\ Continue(r, IF local = {} THEN [req[r] EXCEPT !.pc = "get"]
                   ELSE [req[r] EXCEPT !.pc = "pick", !.held = local])
    /\ dealt' = IF split' THEN {} ELSE dealt
    /\ UNCHANGED <<table, answered, shared, local, deck, scriptVars, freshVars>>

\* The rows of the ids picked; an id that is no longer in the table is left out.
PickCards(r) ==
    /\ At(r, "pick")
    /\ \E catalog \in req[r].held :
          Continue(r, [req[r] EXCEPT !.pc = "deckset", !.held = {},
                          !.ids = PickDailyIds(DOMAIN catalog) \cap DOMAIN table])
    /\ UNCHANGED <<table, answered, shared, local, dailyVars, scriptVars, freshVars>>

StoreDeck(r) ==
    /\ At(r, "deckset")
    /\ deck' = {req[r].ids}
    /\ split' = split
    /\ Replies(req[r].ids)
    /\ Continue(r, NoRequest)
    /\ UNCHANGED <<table, answered, shared, local, scriptVars, freshVars>>

\* The SET threw; the reply is sent all the same.
StoreDeckFails(r) ==
    /\ Fails
    /\ At(r, "deckset")
    /\ split' = TRUE
    /\ Replies(req[r].ids)
    /\ Continue(r, NoRequest)
    /\ UNCHANGED <<table, answered, shared, local, deck, scriptVars, freshVars>>

\* POST /api/cards/answer: the row refers to the card.
Answer(i) ==
    /\ i \in DOMAIN table
    /\ answered' = answered \cup {i}
    /\ UNCHANGED <<table, shared, local, dailyVars, req, scriptVars, freshVars>>

-------------------------------------------------------------------------------
(* The scripts.                                                             *)

\* Script s has committed.  It goes on at pc next; next = "del" is the
\* invalidation, anything else leaves the key to a later one.
Committed(s, next) ==
    /\ script' = [script EXCEPT ![s] = IF next = "idle" THEN NoScript ELSE [@ EXCEPT !.pc = next]]
    /\ late' = late \cup {r \in Requests : At(r, "set")}
    /\ behind' = (behind \/ next # "del")
    /\ outdated' = (outdated \cup {t \in Appends : t # s /\ script[t].pc # "idle"})
                       \ (IF next = "idle" THEN {s} ELSE {})
    /\ UNCHANGED <<answered, shared, local, dailyVars, req, runs>>

\* The script ends, having changed nothing since its last step.
Ends(s) ==
    /\ script' = [script EXCEPT ![s] = NoScript]
    /\ outdated' = outdated \ {s}
    /\ UNCHANGED <<table, answered, local, dailyVars, req, runs>>

Starts(s, record) ==
    /\ script[s].pc = "idle"
    /\ runs < MaxRuns
    /\ runs' = runs + 1
    /\ script' = [script EXCEPT ![s] = record]
    /\ UNCHANGED <<table, answered, shared, local, dailyVars, req, outdated, freshVars>>

SeedStart(s) == Starts(s, [NoScript EXCEPT !.pc = "tx"])

\* Mutant: the script exits when its transaction is committed.
SeedCommit_NoInvalidation(s) ==
    /\ script[s].pc \in {"tx", "again"}
    /\ answered \subseteq DOMAIN File
    /\ table' = File
    /\ script' = [script EXCEPT ![s] = NoScript]
    /\ late' = late \cup {r \in Requests : At(r, "set")}
    /\ outdated' = outdated \cup {t \in Appends : script[t].pc # "idle"}
    /\ UNCHANGED <<answered, shared, local, dailyVars, req, runs, behind>>

\* The upsert of the whole file and the DELETE of every other card, in one
\* transaction.  Its acknowledgement may be lost: the script runs again after a
\* connection error, once, or exits.
SeedCommit(s) ==
    /\ script[s].pc \in {"tx", "again"}
    /\ answered \subseteq DOMAIN File
    /\ table' = File
    /\ \E next \in {"del"} \cup (IF Fails THEN {"idle"} ELSE {})
                   \cup (IF Fails /\ script[s].pc = "tx" THEN {"again"} ELSE {}) :
          Committed(s, next)

\* The DELETE violates the foreign key of an answered card: all is rolled back.
SeedRefused(s) ==
    /\ script[s].pc \in {"tx", "again"}
    /\ ~(answered \subseteq DOMAIN File)
    /\ Ends(s)
    /\ UNCHANGED <<shared, freshVars>>

\* Nothing was committed: the first connection error is retried.
SeedFails(s) ==
    /\ Fails
    /\ script[s].pc \in {"tx", "again"}
    /\ \/ /\ script[s].pc = "tx"
          /\ script' = [script EXCEPT ![s].pc = "again"]
          /\ UNCHANGED <<table, answered, local, dailyVars, req, runs, outdated>>
       \/ Ends(s)
    /\ UNCHANGED <<shared, freshVars>>

\* validate, against the sentences in the table: none is there, none is twice in
\* the batch.  A batch that fails it is refused before anything is written.
Valid(batch) ==
    /\ \A k \in DOMAIN batch, i \in DOMAIN table : batch[k] # table[i]
    /\ \A j, k \in DOMAIN batch : batch[j] = batch[k] => j = k

AppendStart(s, batch) ==
    /\ Valid(batch)
    /\ Starts(s, [NoScript EXCEPT !.pc = "max", !.batch = batch])

\* Mutant: the ids start at the largest one.
FirstFreeId_Taken == IF DOMAIN table = {} THEN 1 ELSE Max(DOMAIN table)

\* The id after the largest one.
FirstFreeId == IF DOMAIN table = {} THEN 1 ELSE Max(DOMAIN table) + 1

AppendMax(s) ==
    /\ script[s].pc = "max"
    /\ script' = [script EXCEPT ![s].pc = "tx", ![s].start = FirstFreeId]
    /\ UNCHANGED <<table, answered, shared, local, dailyVars, req, runs, outdated, freshVars>>

\* INSERT ... ON CONFLICT (id) DO NOTHING, for each card: an id that has been
\* taken since keeps its card.
AppendCommit(s) ==
    LET batch == script[s].batch
        start == script[s].start
    IN  /\ script[s].pc = "tx"
        /\ s \in Appends
        /\ table' = [i \in DOMAIN table \cup start..(start + Len(batch) - 1) |->
                        IF i \in DOMAIN table THEN table[i] ELSE batch[i - start + 1]]
        /\ \E next \in {"del"} \cup (IF Fails THEN {"idle"} ELSE {}) : Committed(s, next)

\* --dry-run, or a statement failed, or the script was killed.
AppendGivesUp(s) ==
    /\ script[s].pc \in {"max", "tx"}
    /\ Ends(s)
    /\ UNCHANGED <<shared, freshVars>>

\* Mutant: the daily cards are dropped with the catalog.
Invalidate_DropsDeck(s) ==
    /\ script[s].pc = "del"
    /\ shared' = {} /\ deck' = {}
    /\ behind' = FALSE
    /\ script' = [script EXCEPT ![s] = NoScript]
    /\ outdated' = outdated \ {s}
    /\ UNCHANGED <<table, answered, local, dealt, split, req, runs, late>>

\* invalidateCatalog.
Invalidate(s) ==
    /\ script[s].pc = "del"
    /\ shared' = {}
    /\ behind' = FALSE
    /\ Ends(s)
    /\ UNCHANGED late

\* The DEL threw, which is logged, or the script was killed before it.
InvalidateFails(s) ==
    /\ Fails
    /\ script[s].pc = "del"
    /\ behind' = TRUE
    /\ Ends(s)
    /\ UNCHANGED <<shared, late>>

-------------------------------------------------------------------------------
Next ==
    \/ \E r \in Requests :
         \/ FeedStart(r) \/ SharedHit(r) \/ SharedMiss(r) \/ Query(r) \/ StoreShared(r)
         \/ StoreFails(r) \/ FillLocal(r) \/ RequestFails(r)
         \/ DailyStart(r) \/ DeckHit(r) \/ DeckMiss(r) \/ PickCards(r) \/ StoreDeck(r)
         \/ StoreDeckFails(r)
    \/ SharedExpires \/ LocalExpires
    \/ \E i \in Answerable : Answer(i)
    \/ \E s \in Seeds : SeedStart(s) \/ SeedCommit(s) \/ SeedRefused(s) \/ SeedFails(s)
    \/ \E s \in Appends :
         \/ \E batch \in Batches : AppendStart(s, batch)
         \/ AppendMax(s) \/ AppendCommit(s) \/ AppendGivesUp(s)
    \/ \E s \in Scripts : Invalidate(s) \/ InvalidateFails(s)

Spec == Init /\ [][Next]_vars

\* Redis answers or refuses a SET some time, the code after it runs, and a copy's
\* time runs out whatever happens.  Nothing is assumed of the scripts: they may
\* hang or never invalidate.
Fairness ==
    /\ \A r \in Requests : WF_vars(StoreShared(r) \/ StoreFails(r) \/ FillLocal(r))
    /\ WF_vars(SharedExpires)
    /\ WF_vars(LocalExpires)

FairSpec == Spec /\ Fairness

-------------------------------------------------------------------------------
\* The catalog in Redis is the table's, unless a script has yet to delete it or
\* did not, or a request stored what it had read before the script's commit.
SharedFresh ==
    shared \subseteq {table} \/ behind \/ \E s \in Scripts : script[s].pc = "del"

\* Whatever the scripts left undone and whichever stale fill came last: some time
\* after the last change, every copy is the table's.
EventuallyCurrent == <>[](shared \cup local \subseteq {table})

\* Everybody gets the same daily cards, whatever happens to the catalog after the
\* first of them, unless two requests dealt them at once or Redis failed.
SameDailyForAll == Cardinality(dealt) <= 1

\* A batch that no other script's commit overlapped is in the table as a whole,
\* and none of its sentences is there twice.
AppendsWhole ==
    \A s \in Appends :
        script[s].pc = "del" /\ s \notin outdated =>
            \A k \in DOMAIN script[s].batch :
                Cardinality({i \in DOMAIN table : table[i] = script[s].batch[k]}) = 1
===============================================================================
