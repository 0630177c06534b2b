--------------------------------- MODULE Feed ---------------------------------
(***************************************************************************)
(* The feed of one user: the ranking of services/cardAlgorithm.ts, the     *)
(* pages getBatch of services/cardService.ts cuts from it, and a client    *)
(* that walks through the pages by their cursors while the user answers    *)
(* cards, the date changes and wrong cards come due again.  A page is      *)
(* ranked by two views of the user's rows that are cached apart, seen_cards *)
(* and review_due, each with times of its own: they may disagree.          *)
(*                                                                         *)
(* A page is computed in one step, and an answer is written and its caches *)
(* dropped in one: UserCache has the interleavings inside them, Catalog    *)
(* the changes of the catalog.  The cards are numbered in the order of the *)
(* catalog; a hash is any number, since it may order the cards in any way; *)
(* weights are tenths.                                                     *)
(***************************************************************************)
EXTENDS Integers, SequencesExt, KeyValue, Ranking

CONSTANTS
    Cards,       \* 1..n
    Difficulty,  \* of each card: "easy", "medium", "hard"
    Category,    \* of each card
    Hashes,      \* what fnv1aNormalized may make of "{user}:{date}:{card}"
    Levels,      \* the levels a client asks for
    Counts,      \* and the page sizes
    MaxDue       \* bound: cards that come due for review

ASSUME CardsAssumption == IsFiniteSet(Cards) /\ Cards = 1..Cardinality(Cards)
ASSUME RankingAssumption ==
    Difficulty \in [Cards -> {"easy", "medium", "hard"}] /\ Hashes \subseteq [Cards -> Nat]
ASSUME RequestsAssumption ==
    Levels \subseteq Int /\ Counts \subseteq Nat \ {0} /\ MaxDue \in Nat

VARIABLES
    hash,    \* the hashes of today
    seen,    \* cards with a row in user_progress, the due ones left out
    wrong,   \* of them, those whose answer was wrong
    due,     \* cards that came due for review.  One answered right since is still
             \* here, and changes nothing: it is in seen for good, and so not ranked
    views,   \* of the tables seen and due, what seen_cards and review_due hold
    pages,   \* the pages cached under the user's version, by offset, count and rung
    walk,    \* the client: its cursor, whether there is more
    \* Observer variables: no action reads them in a guard.
    dealt,   \* how often the walk dealt each card, while it is steady:
    steady,  \* each page of the walk so far goes on where those before it left off
    bases    \* what they were ranked by

vars == <<hash, seen, wrong, due, views, pages, walk, dealt, steady, bases>>

-------------------------------------------------------------------------------
(* The ranking.                                                            *)

\* Mutant: two rows of the table are swapped.
LevelWeights_Swapped ==
    <<[easy |-> 30, medium |-> 20, hard |-> 10],
      [easy |-> 8,  medium |-> 24, hard |-> 30],
      [easy |-> 16, medium |-> 30, hard |-> 16],
      [easy |-> 4,  medium |-> 16, hard |-> 40],
      [easy |-> 2,  medium |-> 10, hard |-> 50]>>

LevelWeights ==
    <<[easy |-> 30, medium |-> 20, hard |-> 10],
      [easy |-> 16, medium |-> 30, hard |-> 16],
      [easy |-> 8,  medium |-> 24, hard |-> 30],
      [easy |-> 4,  medium |-> 16, hard |-> 40],
      [easy |-> 2,  medium |-> 10, hard |-> 50]>>

MaxDifficultyLevel == 4

AtMost(m, n) == IF n < m THEN n ELSE m
AtLeast(m, n) == IF n > m THEN n ELSE m

ClampLevel(level) == AtMost(MaxDifficultyLevel, AtLeast(0, level))

\* An explicit difficulty is a floor under the weight of its tier.
Floor == [easy |-> 40, medium |-> 35, hard |-> 30]

CategoryWeight ==
    [everyday |-> 25, emotion |-> 20, social |-> 20, opinion |-> 18, work |-> 15,
     precision |-> 12]

\* calculateWeights and rankCards: the weight of a card on a rung for the
\* preferred difficulty and category, if they are named.
Weight(c, rung, difficulty, category, boosted) ==
    LET tier == LevelWeights[rung + 1][Difficulty[c]]
        byTier == IF difficulty = Difficulty[c] THEN AtLeast(tier, Floor[difficulty]) ELSE tier
        byCategory == IF category = Category[c] /\ category \in DOMAIN CategoryWeight THEN 35
                      ELSE IF Category[c] \in DOMAIN CategoryWeight
                           THEN CategoryWeight[Category[c]] ELSE 10
    IN  byTier * byCategory * (IF c \in boosted THEN 3 ELSE 1)

\* The order of the scores hash / weight; the sort is stable.
Before(h, w, a, b) ==
    \/ h[a] * w[b] < h[b] * w[a]
    \/ h[a] * w[b] = h[b] * w[a] /\ a < b

Order(h, w) == {p \in Cards \X Cards : Before(h, w, p[1], p[2])}

\* rankCards, with the weights w of the cards.
RankCards(h, w, out) == InOrder(Cards \ out, Order(h, w))

Weights(rung, boosted) == [c \in Cards |-> Weight(c, rung, "none", "none", boosted)]

-------------------------------------------------------------------------------
\* The first page is asked for without a cursor.
NewWalk == [cursor |-> 0, more |-> TRUE]

Init ==
    /\ hash \in Hashes
    /\ seen = {} /\ wrong = {} /\ due = {}
    /\ views = Empty /\ pages = Empty
    /\ walk = NewWalk
    /\ dealt = [c \in Cards |-> 0] /\ steady = TRUE /\ bases = {}

\* getSeenCardIds and getCardsDueForReview: what is cached, or else the table.
Viewed(name) ==
    IF name \in DOMAIN views THEN views[name] ELSE IF name = "seen" THEN seen ELSE due

Basis(rung) == [hash |-> hash, rung |-> rung, due |-> Viewed("due"), seen |-> Viewed("seen")]

\* Mutant: the slice begins one card late after the first page.
Page_OffByOne(offset, count, rung) ==
    LET ranked == RankCards(hash, Weights(rung, Viewed("due")), Viewed("seen"))
        first == IF offset = 0 THEN 1 ELSE offset + 2
    IN  IF offset >= Len(ranked)
        THEN [ids |-> <<>>, more |-> FALSE, basis |-> Basis(rung)]
        ELSE [ids |-> SubSeq(ranked, first, AtMost(Len(ranked), offset + count)),
              more |-> offset + count < Len(ranked), basis |-> Basis(rung)]

\* getBatch's slice of the ranking; what it was ranked by is the observer's.
Page(offset, count, rung) ==
    LET ranked == RankCards(hash, Weights(rung, Viewed("due")), Viewed("seen"))
    IN  IF offset >= Len(ranked)
        THEN [ids |-> <<>>, more |-> FALSE, basis |-> Basis(rung)]
        ELSE [ids |-> SubSeq(ranked, offset + 1, AtMost(Len(ranked), offset + count)),
              more |-> offset + count < Len(ranked), basis |-> Basis(rung)]

\* A page ranked by q goes on where the pages of the walk left off: it was ranked on
\* their date, on their rung, with the cards boosted that they boost, and no card that
\* came due is back in its list.
Continues(q) ==
    \A b \in bases : /\ b.hash = q.hash /\ b.rung = q.rung /\ b.due = q.due
                     /\ b.seen \cap due \subseteq q.seen

\* The client shows the page and keeps its cursor.
Deal(page, count) ==
    LET same == steady /\ Continues(page.basis)
    IN  /\ walk' = [cursor |-> walk.cursor + count, more |-> page.more]
        /\ dealt' = [c \in Cards |->
                        IF ~same THEN 0
                        ELSE IF c \in ToSet(page.ids) THEN dealt[c] + 1 ELSE dealt[c]]
        /\ steady' = same
        /\ bases' = IF same THEN bases \cup {page.basis} ELSE {}

\* GET /api/cards/batch.  A page that is not cached is ranked by the views, read from
\* the tables if need be; it is cached without its date.
GetBatch(count, level) ==
    LET rung == ClampLevel(level)
        key == <<walk.cursor, count, rung>>
    IN  /\ walk.more
        /\ \/ /\ key \in DOMAIN pages
              /\ Deal(pages[key], count)
              /\ UNCHANGED <<views, pages>>
           \/ /\ key \notin DOMAIN pages
              /\ Deal(Page(walk.cursor, count, rung), count)
              /\ views' = [name \in {"seen", "due"} |-> Viewed(name)]
              /\ pages' = Put(pages, key, Page(walk.cursor, count, rung))
        /\ UNCHANGED <<hash, seen, wrong, due>>

\* BATCH_TTL.
PageExpires(key) ==
    /\ key \in DOMAIN pages
    /\ pages' = Drop(pages, {key})
    /\ UNCHANGED <<hash, seen, wrong, due, views, walk, dealt, steady, bases>>

\* SEEN_CARDS_TTL, and the ten minutes of review_due.
ViewExpires(name) ==
    /\ name \in DOMAIN views
    /\ views' = Drop(views, {name})
    /\ UNCHANGED <<hash, seen, wrong, due, pages, walk, dealt, steady, bases>>

\* POST /api/handoff/create reads the seen cards, and them alone.
ReadSeen ==
    /\ views' = Put(views, "seen", Viewed("seen"))
    /\ UNCHANGED <<hash, seen, wrong, due, pages, walk, dealt, steady, bases>>

\* The client begins again without a cursor.
Restart ==
    /\ walk' = NewWalk
    /\ dealt' = [c \in Cards |-> 0] /\ steady' = TRUE /\ bases' = {}
    /\ UNCHANGED <<hash, seen, wrong, due, views, pages>>

\* Mutant: the pages outlive the answer.
Answer_KeepsPages(c, mark) ==
    /\ IF mark = "right" THEN seen' = seen \cup {c} /\ wrong' = wrong \ {c}
       ELSE IF c \in seen \cup due THEN UNCHANGED <<seen, wrong>>
       ELSE seen' = seen \cup {c} /\ wrong' = wrong \cup (IF mark = "wrong" THEN {c} ELSE {})
    /\ views' = Empty
    /\ UNCHANGED <<hash, due, pages, walk, dealt, steady, bases>>

\* POST /api/cards/answer, for any card and with or without a mark: a new version of
\* the user's pages, and neither view stays.  Only a right answer changes a row that is
\* there: a card due for review stays due when it is wrong again.
Answer(c, mark) ==
    /\ IF mark = "right" THEN seen' = seen \cup {c} /\ wrong' = wrong \ {c}
       ELSE IF c \in seen \cup due THEN UNCHANGED <<seen, wrong>>
       ELSE seen' = seen \cup {c} /\ wrong' = wrong \cup (IF mark = "wrong" THEN {c} ELSE {})
    /\ views' = Empty /\ pages' = Empty
    /\ UNCHANGED <<hash, due, walk, dealt, steady, bases>>

\* The retry window of a wrong answer is over; the views do not know.
ComesDue(c) ==
    /\ c \in wrong /\ c \notin due /\ Cardinality(due) < MaxDue
    /\ seen' = seen \ {c}
    /\ due' = due \cup {c}
    /\ UNCHANGED <<hash, wrong, views, pages, walk, dealt, steady, bases>>

\* Another date is another order of the same cards.
Midnight ==
    /\ hash' \in Hashes
    /\ UNCHANGED <<seen, wrong, due, views, pages, walk, dealt, steady, bases>>

Next ==
    \/ \E count \in Counts, level \in Levels : GetBatch(count, level)
    \/ \E key \in DOMAIN pages : PageExpires(key)
    \/ \E name \in DOMAIN views : ViewExpires(name)
    \/ ReadSeen
    \/ Restart
    \/ \E c \in Cards, mark \in {"right", "wrong", "none"} : Answer(c, mark)
    \/ \E c \in Cards : ComesDue(c)
    \/ Midnight

Spec == Init /\ [][Next]_vars

-------------------------------------------------------------------------------
\* A walk deals no card twice while each of its pages goes on where those before it
\* left off, however many cards are answered on the way, however stale the views are
\* and whichever of its pages come from the cache.
DealsOnce == steady => \A c \in Cards : dealt[c] <= 1

\* The cards of the walk's ranking that its cursor has passed.
Passed ==
    UNION {LET ranked == RankCards(b.hash, Weights(b.rung, b.due), seen)
           IN  {ranked[k] : k \in 1..AtMost(walk.cursor, Len(ranked))} : b \in bases}

\* The cards that a page of the walk was ranked with and the rows leave out now, or
\* the other way round: answered since, or come due without the view knowing.
Moved == {c \in Cards : \E b \in bases : (c \in b.seen) # (c \in seen)}

\* The cursor is an offset into a list that shrinks: a walk passes over cards that
\* it never dealt, but never over more than have moved.
SkipsOnlyForAnswers ==
    steady => Cardinality({c \in Passed : dealt[c] = 0}) <= Cardinality(Moved)

\* The comment at cardService.ts:35-48 has the ranking of a day deterministic and
\* without repeats, so that offsets stay meaningful: two pages of a day that lie in the
\* cache side by side, no answer between them, show no card twice.
NoRepeatsOnADay ==
    \A k, l \in DOMAIN pages :
        k[1] # l[1] /\ k[2] = l[2] /\ k[3] = l[3] /\ pages[k].basis.hash = pages[l].basis.hash
            => ToSet(pages[k].ids) \cap ToSet(pages[l].ids) = {}

\* A rung up the ladder never puts an easy card before a hard one it was behind,
\* and asking for a difficulty never puts a card of it further back, whatever the
\* hashes are.  It is looked at where a walk begins.
WeightsOrdered ==
    walk = NewWalk /\ pages = Empty =>
    \A a, b \in Cards, p \in {"none", "easy", "medium", "hard"} :
        /\ \A rung \in 0..(MaxDifficultyLevel - 1) :
              LET W(r) == [c \in Cards |-> Weight(c, r, p, "none", due)]
              IN  Difficulty[a] = "hard" /\ Difficulty[b] = "easy" /\ Before(hash, W(rung), a, b)
                      => Before(hash, W(rung + 1), a, b)
        /\ \A rung \in 0..MaxDifficultyLevel :
              LET V(q) == [c \in Cards |-> Weight(c, rung, q, "none", due)]
              IN  Difficulty[a] = p /\ Difficulty[b] # p /\ Before(hash, V("none"), a, b)
                      => Before(hash, V(p), a, b)
===============================================================================
