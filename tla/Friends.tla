-------------------------------- MODULE Friends --------------------------------
(***************************************************************************)
(* routes/friends.ts: the friend code of an account and the table friends, *)
(* which holds each friendship as two rows, one in each direction.         *)
(*                                                                         *)
(* The INSERT of /add is one transaction at READ COMMITTED that takes its  *)
(* two rows in order: a row that is committed is skipped without a lock, a *)
(* row another transaction has inserted is waited for.  The DELETE and the *)
(* statements on users are one step each.  The pool sets no limit to how   *)
(* long a statement may take: one may never be answered, and holds the     *)
(* rows of its transaction meanwhile.                                      *)
(***************************************************************************)
EXTENDS Naturals, FiniteSets

CONSTANTS
    Users,
    Codes,
    NoCode,
    Slots,      \* requests that may be in progress at once
    MaxTries,   \* the codes /me tries
    DbFails,    \* a statement may fail, executed or not, or go unanswered
    Deletions   \* accounts may be deleted

ASSUME CodesAssumption == NoCode \notin Codes
ASSUME TriesAssumption == MaxTries \in Nat \ {0}
ASSUME FailuresAssumption == {DbFails, Deletions} \subseteq BOOLEAN

VARIABLES
    accounts,   \* users: the rows
    code,       \* users.friend_code
    friends,    \* friends: the committed rows
    req,        \* the requests in progress
    hung,       \* the requests whose statement the database does not answer
    \* Observer variables: no action reads them in a guard.
    handed,     \* the codes /me has returned, with their user
    settled,    \* the code returned while no other /me was setting one
    acked,      \* the pairs an /add succeeded for and no removal did since
    raced       \* the pairs removed while an /add of them was in progress

observerVars == <<handed, settled, acked, raced>>
vars == <<accounts, code, friends, req, hung, observerVars>>

\* A /me that found no code has its UPDATE to send; an /add has its first row,
\* then its second, then its commit to do, and holds the rows it inserted.
Idle == [pc |-> "idle"]
Request ==
    {Idle}
    \cup [pc : {"code"}, u : Users, tries : 1..MaxTries]
    \cup [pc : {"row1", "row2", "commit"}, u : Users, v : Users, mine : SUBSET (Users \X Users)]

\* Every variable holds a value of its type.
TypeOK ==
    /\ accounts \subseteq Users
    /\ code \in [Users -> Codes \cup {NoCode}]
    /\ friends \subseteq Users \X Users
    /\ req \in [Slots -> Request]
    /\ hung \subseteq Slots
    /\ handed \subseteq Users \X Codes
    /\ settled \in [Users -> Codes \cup {NoCode}]
    /\ acked \subseteq Users \X Users
    /\ raced \subseteq Users \X Users

Init ==
    /\ accounts = Users
    /\ code = [u \in Users |-> NoCode]
    /\ friends = {}
    /\ req = [s \in Slots |-> Idle]
    /\ hung = {}
    /\ handed = {} /\ acked = {} /\ raced = {}
    /\ settled = [u \in Users |-> NoCode]

At(s, p) == req[s].pc = p
Continue(s, r) == req' = [req EXCEPT ![s] = r] /\ hung' = hung \ {s}

-------------------------------------------------------------------------------
(* GET /api/friends/me.                                                    *)

\* /me returns code c to u.
Hand(s, u, c) ==
    /\ handed' = handed \cup {<<u, c>>}
    /\ settled' = IF \E q \in Slots \ {s} : At(q, "code") /\ req[q].u = u
                  THEN settled ELSE [settled EXCEPT ![u] = c]
    /\ UNCHANGED <<acked, raced>>

\* Mutant: a code that exists is not looked at.
MeStart_Regenerates(s, u) ==
    /\ At(s, "idle")
    /\ u \in accounts
    /\ Continue(s, [pc |-> "code", u |-> u, tries |-> 1])
    /\ UNCHANGED <<accounts, code, friends, observerVars>>

\* The SELECT; an account that is gone gets a 404.
MeStart(s, u) ==
    /\ At(s, "idle")
    /\ u \in accounts
    /\ \/ /\ code[u] # NoCode
          /\ Hand(s, u, code[u])
          /\ UNCHANGED <<req, hung>>
       \/ /\ code[u] = NoCode
          /\ Continue(s, [pc |-> "code", u |-> u, tries |-> 1])
          /\ UNCHANGED observerVars
    /\ UNCHANGED <<accounts, code, friends>>

\* The index on friend_code is unique.
Taken(u, c) == \E v \in Users \ {u} : code[v] = c

\* The UPDATE does not look at the code that is there.
MeUpdate(s, c) ==
    /\ At(s, "code")
    /\ req[s].u \in accounts
    /\ ~Taken(req[s].u, c)
    /\ code' = [code EXCEPT ![req[s].u] = c]
    /\ Hand(s, req[s].u, c)
    /\ Continue(s, Idle)
    /\ UNCHANGED <<accounts, friends>>

\* The code is another account's: try again, or give up with a 500, as it does
\* after the last try.
MeClash(s, c) ==
    /\ At(s, "code")
    /\ req[s].u \in accounts
    /\ Taken(req[s].u, c)
    /\ \/ Continue(s, Idle)
       \/ req[s].tries < MaxTries /\ Continue(s, [req[s] EXCEPT !.tries = @ + 1])
    /\ UNCHANGED <<accounts, code, friends, observerVars>>

\* No row was updated: a 404.
MeGone(s) ==
    /\ At(s, "code")
    /\ req[s].u \notin accounts
    /\ Continue(s, Idle)
    /\ UNCHANGED <<accounts, code, friends, observerVars>>

\* The UPDATE threw, executed or not: a 500.
MeFails(s) ==
    /\ DbFails
    /\ At(s, "code")
    /\ \/ UNCHANGED code
       \/ /\ req[s].u \in accounts
          /\ \E c \in Codes : ~Taken(req[s].u, c) /\ code' = [code EXCEPT ![req[s].u] = c]
    /\ Continue(s, Idle)
    /\ UNCHANGED <<accounts, friends, observerVars>>

-------------------------------------------------------------------------------
(* POST /api/friends/add.                                                  *)

\* The target is found by its code; an unknown code gets a 404, one's own a 400.
AddStart(s, u, v) ==
    /\ At(s, "idle")
    /\ v \in accounts /\ code[v] # NoCode
    /\ u # v
    /\ Continue(s, [pc |-> "row1", u |-> u, v |-> v, mine |-> {}])
    /\ UNCHANGED <<accounts, code, friends, observerVars>>

Adding(s) == req[s].pc \in {"row1", "row2", "commit"}

\* The row an /add has to insert next.
NextRow(s) == IF At(s, "row1") THEN <<req[s].u, req[s].v>> ELSE <<req[s].v, req[s].u>>

\* The transaction of q keeps that of s waiting.
WaitsFor(s, q) ==
    /\ req[s].pc \in {"row1", "row2"}
    /\ q # s /\ Adding(q)
    /\ NextRow(s) \in req[q].mine

InsertRow(s) ==
    /\ Continue(s, [req[s] EXCEPT
                      !.pc = IF At(s, "row1") THEN "row2" ELSE "commit",
                      !.mine = IF NextRow(s) \in friends THEN @ ELSE @ \cup {NextRow(s)}])
    /\ UNCHANGED <<accounts, code, friends, observerVars>>

\* Mutant: a row another transaction has inserted counts as there.
AddRow_DoesNotWait(s) ==
    /\ req[s].pc \in {"row1", "row2"}
    /\ IF \E q \in Slots : WaitsFor(s, q)
       THEN /\ Continue(s, [req[s] EXCEPT !.pc = IF At(s, "row1") THEN "row2" ELSE "commit"])
            /\ UNCHANGED <<accounts, code, friends, observerVars>>
       ELSE InsertRow(s)

\* ON CONFLICT DO NOTHING skips a row that is committed.
AddRow(s) ==
    /\ req[s].pc \in {"row1", "row2"}
    /\ \A q \in Slots : ~WaitsFor(s, q)
    /\ InsertRow(s)

\* The foreign keys of the rows that were inserted hold.
KeysHold(s) == req[s].mine = {} \/ {req[s].u, req[s].v} \subseteq accounts

AddCommit(s) ==
    /\ At(s, "commit")
    /\ KeysHold(s)
    /\ friends' = friends \cup req[s].mine
    /\ acked' = acked \cup {<<req[s].u, req[s].v>>}
    /\ Continue(s, Idle)
    /\ UNCHANGED <<accounts, code, handed, settled, raced>>

\* Mutant: an /add that was refused is begun again, however often it was.
AddRefused_Retries(s) ==
    /\ At(s, "commit")
    /\ ~KeysHold(s)
    /\ Continue(s, [req[s] EXCEPT !.pc = "row1", !.mine = {}])
    /\ UNCHANGED <<accounts, code, friends, observerVars>>

\* A foreign key is violated, the account is gone: a 500.
AddRefused(s) ==
    /\ At(s, "commit")
    /\ ~KeysHold(s)
    /\ Continue(s, Idle)
    /\ UNCHANGED <<accounts, code, friends, observerVars>>

\* The statement threw, executed or not: a 500.
AddFails(s) ==
    /\ DbFails
    /\ \/ Adding(s) /\ UNCHANGED friends
       \/ At(s, "commit") /\ KeysHold(s) /\ friends' = friends \cup req[s].mine
    /\ Continue(s, Idle)
    /\ UNCHANGED <<accounts, code, observerVars>>

\* Two transactions wait for one another: the database aborts one, a 500.
AddDeadlock(s) ==
    /\ \E q \in Slots : WaitsFor(s, q) /\ WaitsFor(q, s)
    /\ Continue(s, Idle)
    /\ UNCHANGED <<accounts, code, friends, observerVars>>

-------------------------------------------------------------------------------
(* DELETE /api/friends/:id, and the deletion of an account.                *)

\* The committed rows of R are gone.
Gone(R) ==
    /\ friends' = friends \ R
    /\ acked' = acked \ R
    /\ raced' = raced \cup
          {p \in R : \E s \in Slots : Adding(s) /\ p \in {<<req[s].u, req[s].v>>, <<req[s].v, req[s].u>>}}

\* Mutant: the caller's own row alone.
Remove_OneWay(u, v) ==
    /\ u # v
    /\ Gone({<<u, v>>})
    /\ UNCHANGED <<accounts, code, req, hung, handed, settled>>

Remove(u, v) ==
    /\ u # v
    /\ Gone({<<u, v>>, <<v, u>>})
    /\ UNCHANGED <<accounts, code, req, hung, handed, settled>>

\* Done by the site; the rows of the account cascade.
DeleteAccount(u) ==
    /\ Deletions
    /\ u \in accounts
    /\ accounts' = accounts \ {u}
    /\ code' = [code EXCEPT ![u] = NoCode]
    /\ settled' = [settled EXCEPT ![u] = NoCode]
    /\ handed' = {p \in handed : p[1] # u}
    /\ Gone({p \in Users \X Users : u \in {p[1], p[2]}})
    /\ UNCHANGED <<req, hung>>

-------------------------------------------------------------------------------
\* From here on the statement of a request is not answered, until it fails.
Hang(s) ==
    /\ DbFails
    /\ ~At(s, "idle")
    /\ hung' = hung \cup {s}
    /\ UNCHANGED <<accounts, code, friends, req, observerVars>>

\* The steps of a request, once it has arrived, whose statement is answered.
Step(s) ==
    /\ s \notin hung
    /\ \/ \E c \in Codes : MeUpdate(s, c) \/ MeClash(s, c)
       \/ MeGone(s)
       \/ AddRow(s) \/ AddCommit(s) \/ AddRefused(s) \/ AddDeadlock(s)

Next ==
    \/ \E s \in Slots :
         \/ \E u \in Users : MeStart(s, u)
         \/ \E u, v \in Users : AddStart(s, u, v)
         \/ Step(s) \/ MeFails(s) \/ AddFails(s) \/ Hang(s)
    \/ \E u, v \in Users : Remove(u, v)
    \/ \E u \in Users : DeleteAccount(u)

Spec == Init /\ [][Next]_vars

\* The database runs the statement of every request, unless that fails or hangs,
\* and a transaction that waits for a row is woken when the row is free.
Fairness == \A s \in Slots : WF_vars(Step(s)) /\ SF_vars(Step(s) /\ AddRow(s))

FairSpec == Spec /\ Fairness

-------------------------------------------------------------------------------
Swap(p) == <<p[2], p[1]>>

\* A friendship one of the two was told of is there in both directions until it
\* is removed, unless a removal overlapped the /add: whatever other /adds of the
\* pair, in the same or the opposite order, commit or abort.
AddedIsThere ==
    \A p \in acked : p \in raced \/ {p, Swap(p)} \subseteq friends

\* Friendship is symmetric but for the pairs where a removal overlapped an /add.
SymmetricUnlessRaced ==
    \A p \in friends : p \in raced \/ Swap(p) \in friends

\* A code /me returned while no other /me was setting one is the user's for good.
SettledStays == \A u \in Users : settled[u] # NoCode => code[u] = settled[u]

\* A request's statement hangs, or it waits for a row of a transaction that hangs
\* or itself waits for one that does.
HeldUp(s) ==
    \/ s \in hung
    \/ \E q \in Slots : WaitsFor(s, q) /\ (q \in hung \/ \E r \in hung : WaitsFor(q, r))

\* Every request ends unless a statement hangs, its own or that of an /add of the
\* same pair: no request tries again for ever, no two /adds keep one another waiting.
EveryRequestEnds ==
    \A s \in Slots : ~At(s, "idle") ~> (At(s, "idle") \/ HeldUp(s))

\* What the documentation says and the code does not keep under a race: friendship
\* is symmetric,
Symmetric == \A p \in friends : Swap(p) \in friends

\* and a code /me returned leads to its user.
HandedOutCodeWorks == \A p \in handed : code[p[1]] = p[2]

-------------------------------------------------------------------------------
\* What an /add has dealt with is committed, its own to commit, or was removed
\* under its hands.
RowsTaken(s) ==
    Adding(s) =>
        LET there == friends \cup req[s].mine \cup raced
            row1  == <<req[s].u, req[s].v>>
            row2  == <<req[s].v, req[s].u>>
        IN  /\ req[s].mine \subseteq {row1, row2}
            /\ ~At(s, "row1") => row1 \in there
            /\ At(s, "commit") => row2 \in there

\* Nobody sets the code of a user whose code is settled.
SettledAlone(u) ==
    settled[u] # NoCode => \A s \in Slots : ~(At(s, "code") /\ req[s].u = u)

\* Why friendships and codes stay what the users were told.
IInv ==
    /\ TypeOK
    /\ AddedIsThere
    /\ SymmetricUnlessRaced
    /\ SettledStays
    /\ \A p \in raced : Swap(p) \in raced
    /\ \A s \in Slots : RowsTaken(s)
    /\ \A u \in Users : SettledAlone(u)
===============================================================================
