------------------------------- MODULE Progress -------------------------------
(***************************************************************************)
(* The table user_progress: markCardAsAnswered of services/cardService.ts  *)
(* writes it, POST /api/auth/claim-anon of routes/auth.ts moves the rows   *)
(* of an anonymous session to an account, and the seen and review queries  *)
(* read it.                                                                *)
(*                                                                         *)
(* Every statement is a transaction of its own at READ COMMITTED.  A       *)
(* single-row statement is one step.  The UPDATE of a claim is two: it     *)
(* takes its snapshot, later it locks the rows it picked and commits, and  *)
(* other statements commit in between.  The caches that the handlers       *)
(* invalidate afterwards are UserCache's.                                  *)
(***************************************************************************)
EXTENDS Naturals, KeyValue

CONSTANTS
    Accounts,    \* users with an account
    Anons,       \* anonymous sessions
    Cards,
    Claims,      \* claim requests that may be in progress at once
    RetryWindow, \* RETRY_WINDOW_MS
    MaxTime,     \* bound: the clock stops here
    DbFails      \* a statement of a claim may fail, executed or not

ASSUME UsersAssumption == Accounts \cap Anons = {}
ASSUME TimeAssumption == RetryWindow \in Nat /\ MaxTime \in Nat
ASSUME FailuresAssumption == DbFails \in BOOLEAN

Users == Accounts \cup Anons

VARIABLES
    now,
    rows,      \* user_progress, by <<user_id, card_id>>
    claim,     \* the claim requests in progress
    \* Observer variables: no action reads them in a guard.
    given,     \* the answers recorded so far, as <<user, card, correct>>
    raced,     \* the rows an anonymous session wrote while a claim of it ran
    moved,     \* the rows claims have moved, as <<session, account, card>>
    skipped    \* those that were duplicates of the account's when a claim began

observerVars == <<given, raced, moved, skipped>>
vars == <<now, rows, claim, observerVars>>

\* correct is TRUE, FALSE or NULL in the table.
Marks == {"right", "wrong", "unknown"}
Row == [at : Nat, correct : Marks]

NoClaim == [pc |-> "idle"]

\* A claim has its UPDATE to commit, with the cards of the rows its snapshot
\* picked that are still there, then its DELETE to send.
Claim ==
    {NoClaim}
    \cup [pc : {"update"}, account : Accounts, anon : Anons, picked : SUBSET Cards]
    \cup [pc : {"delete"}, account : Accounts, anon : Anons]

\* Every variable holds a value of its type.
TypeOK ==
    /\ now \in Nat
    /\ IsStore(rows, Users \X Cards, Row)
    /\ claim \in [Claims -> Claim]
    /\ given \subseteq Users \X Cards \X Marks
    /\ raced \subseteq Anons \X Cards
    /\ moved \subseteq Anons \X Accounts \X Cards
    /\ skipped \subseteq Anons \X Accounts \X Cards

Init ==
    /\ now = 0
    /\ rows = Empty
    /\ claim = [q \in Claims |-> NoClaim]
    /\ given = {} /\ raced = {} /\ moved = {} /\ skipped = {}

Has(u, c) == <<u, c>> \in DOMAIN rows

-------------------------------------------------------------------------------
(* POST /api/cards/answer.                                                 *)

\* Mutant: a wrong answer is written over a right one.
Upserted_Demotes(store, u, c, mark) ==
    IF \/ <<u, c>> \notin DOMAIN store
       \/ mark # "unknown" /\ store[<<u, c>>].correct # mark
    THEN Put(store, <<u, c>>, [at |-> now, correct |-> mark])
    ELSE store

\* INSERT ... ON CONFLICT DO UPDATE: a row that exists changes only when it is
\* not right and the answer is.
Upserted(store, u, c, mark) ==
    IF \/ <<u, c>> \notin DOMAIN store
       \/ mark = "right" /\ store[<<u, c>>].correct # "right"
    THEN Put(store, <<u, c>>, [at |-> now, correct |-> mark])
    ELSE store

\* Whether or not its acknowledgement reaches the client, and however often the
\* client sends it again.
Answer(u, c, mark) ==
    /\ rows' = Upserted(rows, u, c, mark)
    /\ given' = given \cup {<<u, c, mark>>}
    /\ raced' = IF \E q \in Claims : claim[q].pc # "idle" /\ claim[q].anon = u
                THEN raced \cup {<<u, c>>} ELSE raced
    /\ UNCHANGED <<now, claim, moved, skipped>>

-------------------------------------------------------------------------------
(* POST /api/auth/claim-anon.                                              *)

\* The rows the UPDATE's WHERE selects in its snapshot.
Picked(account, anon) == {c \in Cards : Has(anon, c) /\ ~Has(account, c)}

ClaimStart(q, account, anon) ==
    /\ claim[q].pc = "idle"
    /\ claim' = [claim EXCEPT ![q] = [pc |-> "update", account |-> account, anon |-> anon,
                                      picked |-> Picked(account, anon)]]
    /\ skipped' = skipped \cup ({anon} \X {account} \X {c \in Cards : Has(anon, c) /\ Has(account, c)})
    /\ UNCHANGED <<now, rows, given, raced, moved>>

\* The rows of cards K of a session are gone: no UPDATE in progress finds them.
Unpicked(anon, K) ==
    [q \in Claims |-> IF claim[q].pc = "update" /\ claim[q].anon = anon
                      THEN [claim[q] EXCEPT !.picked = @ \ K]
                      ELSE claim[q]]

\* The store after user_id was set to account in the rows of cards K of anon.
Moved(store, account, anon, K) ==
    [k \in (DOMAIN store \ ({anon} \X K)) \cup ({account} \X K) |->
        IF k \in {account} \X K THEN store[<<anon, k[2]>>] ELSE store[k]]

Clash(q) == \E c \in claim[q].picked : Has(claim[q].account, c)

ClaimUpdate(q) ==
    /\ claim[q].pc = "update"
    /\ ~Clash(q)
    /\ rows' = Moved(rows, claim[q].account, claim[q].anon, claim[q].picked)
    /\ \E next \in {"delete"} \cup (IF DbFails THEN {"idle"} ELSE {}) :
          claim' = [Unpicked(claim[q].anon, claim[q].picked) EXCEPT
                       ![q] = IF next = "idle" THEN NoClaim
                              ELSE [pc |-> "delete", account |-> claim[q].account,
                                    anon |-> claim[q].anon]]
    /\ moved' = moved \cup ({claim[q].anon} \X {claim[q].account} \X claim[q].picked)
    /\ UNCHANGED <<now, given, raced, skipped>>

\* The account answered a picked card after the snapshot: the primary key is
\* violated, the UPDATE is rolled back, the client gets a 500.
ClaimClash(q) ==
    /\ claim[q].pc = "update"
    /\ Clash(q)
    /\ claim' = [claim EXCEPT ![q] = NoClaim]
    /\ UNCHANGED <<now, rows, observerVars>>

\* Mutant: the DELETE drops the account's rows.
ClaimDelete_WrongUser(q) ==
    /\ claim[q].pc = "delete"
    /\ rows' = Drop(rows, {claim[q].account} \X Cards)
    /\ claim' = [claim EXCEPT ![q] = NoClaim]
    /\ UNCHANGED <<now, observerVars>>

ClaimDelete(q) ==
    /\ claim[q].pc = "delete"
    /\ rows' = Drop(rows, {claim[q].anon} \X Cards)
    /\ claim' = [Unpicked(claim[q].anon, Cards) EXCEPT ![q] = NoClaim]
    /\ UNCHANGED <<now, observerVars>>

\* Mutant: the error of a statement is not looked at.
ClaimFails_GoesOn(q) ==
    /\ DbFails
    /\ claim[q].pc # "idle"
    /\ claim' = [claim EXCEPT ![q] = [pc |-> "delete", account |-> claim[q].account,
                                      anon |-> claim[q].anon]]
    /\ UNCHANGED <<now, rows, observerVars>>

\* The statement failed and did nothing, or the process was killed: a 500.
ClaimFails(q) ==
    /\ DbFails
    /\ claim[q].pc # "idle"
    /\ claim' = [claim EXCEPT ![q] = NoClaim]
    /\ UNCHANGED <<now, rows, observerVars>>

Tick ==
    /\ now < MaxTime
    /\ now' = now + 1
    /\ UNCHANGED <<rows, claim, observerVars>>

Next ==
    \/ \E u \in Users, c \in Cards, mark \in Marks : Answer(u, c, mark)
    \/ \E q \in Claims :
         \/ \E account \in Accounts, anon \in Anons : ClaimStart(q, account, anon)
         \/ ClaimUpdate(q) \/ ClaimClash(q) \/ ClaimDelete(q) \/ ClaimFails(q)
    \/ Tick

Spec == Init /\ [][Next]_vars

-------------------------------------------------------------------------------
(* What is read from the table.                                            *)

\* getCardsDueForReview: wrong, and the cooldown is over.
Due(u) ==
    {c \in Cards : Has(u, c) /\ rows[<<u, c>>].correct = "wrong"
                             /\ rows[<<u, c>>].at + RetryWindow <= now}

\* getSeenCardIds: the cards kept out of the feed.
Seen(u) == {c \in Cards : Has(u, c)} \ Due(u)

\* While the clock stands still, no answer and no claim puts a card back into an
\* account's feed: what invalidates the seen set only ever has cards to add.
SeenGrows == [][now' = now => \A u \in Accounts : Seen(u) \subseteq Seen(u)']_vars

\* A card an account has got right stays right, whatever is answered, retried or
\* claimed, in whatever order.
MasteredStays ==
    [][\A u \in Accounts, c \in Cards :
          Has(u, c) /\ rows[<<u, c>>].correct = "right"
              => Has(u, c)' /\ (rows[<<u, c>>].correct = "right")']_vars

\* An account's answer sent again, at any later time and after any other, changes
\* nothing: a client may retry and a network may delay.
LateRetryHarmless ==
    \A u \in Accounts, c \in Cards, mark \in Marks :
        <<u, c, mark>> \in given => Upserted(rows, u, c, mark) = rows

\* An answer stands with a user: a row of theirs has the card, right if it was.
Stands(u, c, mark) == Has(u, c) /\ (mark = "right" => rows[<<u, c>>].correct = "right")

\* What became of an answer: it stands with who gave it; or with the account a
\* claim moved the row to; or a claim dropped the row because the account had a
\* row for the card before it, and has it still.
Kept(u, c, mark) ==
    \/ Stands(u, c, mark)
    \/ \E account \in Accounts :
          \/ <<u, account, c>> \in moved /\ Stands(account, c, mark)
          \/ <<u, account, c>> \in skipped /\ Has(account, c)

\* An answer of a session that no claim overlapped is never lost, nor is a right
\* one turned into less, whatever claims run, fail halfway or are sent again.
AnswersKept ==
    \A u \in Users, c \in Cards, mark \in Marks :
        <<u, c, mark>> \in given /\ <<u, c>> \notin raced => Kept(u, c, mark)

-------------------------------------------------------------------------------
(* What the comments say and the code does not keep.                       *)

\* The DELETE of a claim drops duplicates of the account's rows, and no others.
DropsDuplicatesOnly ==
    [][\A q \in Claims, c \in Cards :
          ClaimDelete(q) /\ Has(claim[q].anon, c) => Has(claim[q].account, c)]_vars

\* A wrong answer earns the card a cooldown.
WrongCoolsDown ==
    [][\A u \in Users, c \in Cards : Answer(u, c, "wrong") => (c \in Seen(u))']_vars

\* A wrong answer updates the row of a card that is not right yet, so that the
\* review query finds it.
WrongFound ==
    [][\A u \in Users, c \in Cards :
          Answer(u, c, "wrong") => (rows[<<u, c>>].correct \in {"wrong", "right"})']_vars

-------------------------------------------------------------------------------
\* A claim in progress has every row of the session that no answer raced in
\* hand, or found the account to have the card when it began.
ClaimCovers(q) ==
    claim[q].pc # "idle" =>
        \A c \in Cards :
            Has(claim[q].anon, c) /\ <<claim[q].anon, c>> \notin raced
                => \/ <<claim[q].anon, claim[q].account, c>> \in skipped
                   \/ claim[q].pc = "update" /\ c \in claim[q].picked

\* A duplicate's account has the card.
SkippedThere == \A a \in Anons, u \in Accounts, c \in Cards : <<a, u, c>> \in skipped => Has(u, c)

\* Only rows that are there are picked.
PickedThere(q) == claim[q].pc = "update" => \A c \in claim[q].picked : Has(claim[q].anon, c)

\* Why no answer is lost.
IInv ==
    /\ TypeOK
    /\ AnswersKept
    /\ LateRetryHarmless
    /\ SkippedThere
    /\ \A q \in Claims : ClaimCovers(q) /\ PickedThere(q)
===============================================================================
