----------------------------- MODULE FriendsProofs -----------------------------
(***************************************************************************)
(* For every set of users, codes and requests, and whatever is removed,    *)
(* deleted, aborted, hangs or fails: only a removal that overlaps an /add leaves  *)
(* half a friendship, and a settled code is the user's for good.           *)
(***************************************************************************)
EXTENDS Friends, TLAPS

LEMMA InitInv == Init => IInv
<1> SUFFICES ASSUME Init PROVE IInv
  OBVIOUS
<1>1. \A s \in Slots : req[s].pc = "idle"
  BY DEF Init, Idle
<1>2. TypeOK
  BY DEF Init, TypeOK, Request, Idle
<1> QED BY <1>1, <1>2 DEF Init, IInv, AddedIsThere, SymmetricUnlessRaced, SettledStays, RowsTaken,
                          Adding, SettledAlone

\* What concerns the table friends and the requests that add to it.
FriendsInv ==
    /\ AddedIsThere
    /\ SymmetricUnlessRaced
    /\ \A p \in raced : Swap(p) \in raced
    /\ \A s \in Slots : RowsTaken(s)

\* What concerns the codes.
CodesInv ==
    /\ SettledStays
    /\ \A u \in Users : SettledAlone(u)

LEMMA IInvParts == IInv <=> TypeOK /\ FriendsInv /\ CodesInv
BY DEF IInv, FriendsInv, CodesInv

LEMMA RequestParts ==
    ASSUME TypeOK, NEW s \in Slots
    PROVE  /\ req[s] \in Request /\ req \in [Slots -> Request]
           /\ Adding(s) => req[s].u \in Users /\ req[s].v \in Users /\ req[s].mine \subseteq Users \X Users
           /\ At(s, "code") => req[s].u \in Users /\ req[s].tries \in 1..MaxTries
           /\ Idle \in Request /\ Idle.pc = "idle"
BY DEF TypeOK, Request, Idle, Adding, At

-------------------------------------------------------------------------------
(* Steps of one kind leave the other kind's part alone.                    *)

\* A request that is not an /add goes on, and so does not become one.
LEMMA NotAdding ==
    ASSUME TypeOK, FriendsInv, NEW s \in Slots, NEW r,
           req' = req \/ (Continue(s, r) /\ r.pc \in {"idle", "code"}),
           UNCHANGED <<friends, acked, raced>>
    PROVE  FriendsInv'
<1>1. \A q \in Slots : req'[q] = req[q] \/ req'[q].pc \in {"idle", "code"}
  BY DEF Continue, TypeOK
<1>2. \A q \in Slots : RowsTaken(q)'
  BY <1>1 DEF FriendsInv, RowsTaken, Adding, At
<1> QED BY <1>2 DEF FriendsInv, AddedIsThere, SymmetricUnlessRaced

\* A request that does not come to set a code.
LEMMA NotCoding ==
    ASSUME TypeOK, CodesInv, NEW s \in Slots, NEW r, Continue(s, r), r.pc # "code",
           UNCHANGED <<code, settled>>
    PROVE  CodesInv'
<1>1. \A q \in Slots : req'[q] = req[q] \/ req'[q].pc # "code"
  BY DEF Continue, TypeOK
<1> QED BY <1>1 DEF CodesInv, SettledStays, SettledAlone, At

\* A row that is removed while an /add has dealt with it counts as raced.
LEMMA GoneInv ==
    ASSUME TypeOK, FriendsInv, NEW R, \A p \in R : Swap(p) \in R /\ Swap(Swap(p)) = p, Gone(R), req' = req
    PROVE  FriendsInv'
<1>1. /\ friends' = friends \ R /\ acked' = acked \ R /\ raced \subseteq raced'
      /\ \A p \in raced' : p \in raced \/ p \in R
  BY DEF Gone
<1>2. ASSUME NEW s \in Slots, Adding(s)
      PROVE  /\ <<req[s].u, req[s].v>> \in R => <<req[s].u, req[s].v>> \in raced'
             /\ <<req[s].v, req[s].u>> \in R => <<req[s].v, req[s].u>> \in raced'
  BY <1>2 DEF Gone
<1>3. \A s \in Slots : RowsTaken(s)'
  BY <1>1, <1>2 DEF FriendsInv, RowsTaken, Adding, At
<1>4. ASSUME NEW p \in raced' PROVE Swap(p) \in raced'
  <2>1. CASE p \in raced
    BY <1>1, <2>1 DEF FriendsInv
  <2>2. CASE p \notin raced
    <3>1. PICK s \in Slots : Adding(s) /\ p \in {<<req[s].u, req[s].v>>, <<req[s].v, req[s].u>>} /\ p \in R
      BY <1>4, <2>2 DEF Gone
    <3>2. Swap(p) \in {<<req[s].u, req[s].v>>, <<req[s].v, req[s].u>>}
      BY <3>1 DEF Swap
    <3> QED BY <3>1, <3>2 DEF Gone
  <2> QED BY <2>1, <2>2
<1>5. AddedIsThere' /\ SymmetricUnlessRaced'
  <2>1. \A p \in friends \cup acked : p = <<p[1], p[2]>> /\ Swap(Swap(p)) = p
    BY DEF TypeOK, Swap
  <2>2. \A p \in friends \cup acked : p \notin R => Swap(p) \notin R
    BY <2>1
  <2> QED BY <1>1, <2>2 DEF FriendsInv, AddedIsThere, SymmetricUnlessRaced
<1> QED BY <1>3, <1>4, <1>5 DEF FriendsInv

-------------------------------------------------------------------------------
(* The requests.                                                           *)

LEMMA HandType ==
    ASSUME TypeOK, NEW s, NEW u \in Users, NEW c \in Codes, Hand(s, u, c)
    PROVE  /\ handed' \subseteq Users \X Codes /\ settled' \in [Users -> Codes \cup {NoCode}]
           /\ UNCHANGED <<acked, raced>>
BY DEF Hand, TypeOK

LEMMA MeStartInv ==
    ASSUME IInv, NEW s \in Slots, NEW u \in Users, MeStart(s, u)
    PROVE  IInv'
<1>p. TypeOK /\ FriendsInv /\ CodesInv /\ UNCHANGED <<accounts, code, friends>> /\ At(s, "idle")
  BY IInvParts DEF MeStart
<1>1. CASE code[u] # NoCode /\ Hand(s, u, code[u]) /\ UNCHANGED <<req, hung>>
  <2>0. code[u] \in Codes
    BY <1>p, <1>1 DEF TypeOK
  <2>1. handed' \subseteq Users \X Codes /\ settled' \in [Users -> Codes \cup {NoCode}] /\ UNCHANGED <<acked, raced>>
    BY <1>p, <1>1, <2>0, HandType
  <2>2. TypeOK'
    BY <1>p, <1>1, <2>1 DEF TypeOK
  <2>3. FriendsInv'
    BY <1>p, <1>1, <2>1, NotAdding
  <2>4. ASSUME NEW w \in Users, settled'[w] # NoCode
        PROVE  code[w] = settled'[w] /\ \A q \in Slots : ~(At(q, "code") /\ req[q].u = w)
    <3>1. CASE settled'[w] = settled[w]
      BY <1>p, <2>4, <3>1 DEF CodesInv, SettledStays, SettledAlone
    <3>2. CASE settled'[w] # settled[w]
      BY <1>p, <1>1, <3>2 DEF Hand, TypeOK, At
    <3> QED BY <3>1, <3>2
  <2>5. CodesInv'
    BY <1>p, <1>1, <2>4 DEF CodesInv, SettledStays, SettledAlone, At
  <2> QED BY <2>2, <2>3, <2>5, IInvParts, PTL
<1>2. CASE /\ code[u] = NoCode /\ UNCHANGED observerVars
           /\ Continue(s, [pc |-> "code", u |-> u, tries |-> 1])
  <2> DEFINE r == [pc |-> "code", u |-> u, tries |-> 1]
  <2>1. r \in Request /\ r.pc = "code" /\ r.u = u
    BY TriesAssumption DEF Request
  <2>2. Continue(s, r)
    BY <1>2
  <2> HIDE DEF r
  <2>3. TypeOK'
    BY <1>p, <1>2, <2>1, <2>2 DEF TypeOK, Continue, observerVars
  <2>4. FriendsInv'
    BY <1>p, <1>2, <2>1, <2>2, NotAdding DEF observerVars
  <2>5. settled[u] = NoCode
    BY <1>p, <1>2 DEF CodesInv, SettledStays
  <2>6. \A q \in Slots : req'[q] = req[q] \/ req'[q].u = u
    BY <1>p, <2>1, <2>2 DEF Continue, TypeOK
  <2>7. CodesInv'
    BY <1>p, <1>2, <2>5, <2>6 DEF CodesInv, SettledStays, SettledAlone, At, observerVars
  <2> QED BY <2>3, <2>4, <2>7, IInvParts, PTL
<1> QED BY <1>1, <1>2 DEF MeStart

LEMMA MeStepInv ==
    ASSUME IInv, NEW s \in Slots,
           (\E c \in Codes : MeUpdate(s, c) \/ MeClash(s, c)) \/ MeGone(s) \/ MeFails(s)
    PROVE  IInv'
<1>p. TypeOK /\ FriendsInv /\ CodesInv /\ req[s] \in Request /\ Idle \in Request /\ Idle.pc = "idle"
  BY IInvParts, RequestParts
<1>1. ASSUME NEW c \in Codes, MeUpdate(s, c) PROVE IInv'
  <2> DEFINE u == req[s].u
  <2>1. /\ At(s, "code") /\ u \in Users /\ code' = [code EXCEPT ![u] = c] /\ Hand(s, u, c)
        /\ Continue(s, Idle) /\ UNCHANGED <<accounts, friends>>
    BY <1>1, <1>p, RequestParts DEF MeUpdate
  <2> HIDE DEF u
  <2>2. handed' \subseteq Users \X Codes /\ settled' \in [Users -> Codes \cup {NoCode}] /\ UNCHANGED <<acked, raced>>
    BY <1>p, <2>1, HandType
  <2>3. TypeOK'
    BY <1>p, <2>1, <2>2 DEF TypeOK, Continue
  <2>4. FriendsInv'
    BY <1>p, <2>1, <2>2, NotAdding
  <2>5. settled[u] = NoCode
    BY <1>p, <2>1 DEF CodesInv, SettledAlone, u
  <2>6. \A q \in Slots : (req'[q] = req[q] /\ q # s) \/ req'[q].pc = "idle"
    BY <1>p, <2>1 DEF Continue, TypeOK
  <2>7. ASSUME NEW w \in Users, settled'[w] # NoCode
        PROVE  code'[w] = settled'[w] /\ \A q \in Slots : ~(req'[q].pc = "code" /\ req'[q].u = w)
    <3>1. CASE settled' = settled
      <4>1. w # u
        BY <2>5, <2>7, <3>1
      <4> QED BY <1>p, <2>1, <2>6, <2>7, <3>1, <4>1 DEF CodesInv, SettledStays, SettledAlone, At, TypeOK
    <3>2. CASE settled' = [settled EXCEPT ![u] = c] /\ ~\E q \in Slots \ {s} : At(q, "code") /\ req[q].u = u
      BY <1>p, <2>1, <2>6, <2>7, <3>2 DEF CodesInv, SettledStays, SettledAlone, At, TypeOK
    <3> QED BY <2>1, <3>1, <3>2 DEF Hand
  <2>8. CodesInv'
    BY <2>7 DEF CodesInv, SettledStays, SettledAlone, At
  <2> QED BY <2>3, <2>4, <2>8, IInvParts, PTL
<1>2. ASSUME NEW c \in Codes, MeClash(s, c) PROVE IInv'
  <2>1. PICK r \in Request : /\ Continue(s, r) /\ r.pc \in {"idle", "code"}
                             /\ r.pc = "code" => r.u = req[s].u
    <3>1. CASE Continue(s, Idle)
      BY <1>p, <3>1
    <3>2. CASE req[s].tries < MaxTries /\ Continue(s, [req[s] EXCEPT !.tries = @ + 1])
      <4> DEFINE r == [req[s] EXCEPT !.tries = @ + 1]
      <4>1. r \in Request /\ r.pc = "code" /\ r.u = req[s].u
        BY <1>p, <1>2, <3>2, TriesAssumption DEF MeClash, At, Request, Idle
      <4> QED BY <3>2, <4>1
    <3> QED BY <1>2, <3>1, <3>2 DEF MeClash
  <2>2. At(s, "code") /\ UNCHANGED <<accounts, code, friends, observerVars>>
    BY <1>2 DEF MeClash
  <2>3. TypeOK'
    BY <1>p, <2>1, <2>2 DEF TypeOK, Continue, observerVars
  <2>4. FriendsInv'
    BY <1>p, <2>1, <2>2, NotAdding DEF observerVars
  <2>5. \A q \in Slots : req'[q].pc = "code" => req[q].pc = "code" /\ req'[q].u = req[q].u
    BY <1>p, <2>1, <2>2 DEF Continue, TypeOK, At
  <2>6. CodesInv'
    BY <1>p, <2>2, <2>5 DEF CodesInv, SettledStays, SettledAlone, At, observerVars
  <2> QED BY <2>3, <2>4, <2>6, IInvParts, PTL
<1>3. ASSUME MeGone(s) \/ MeFails(s) PROVE IInv'
  <2>1. /\ At(s, "code") /\ Continue(s, Idle) /\ UNCHANGED <<accounts, friends, observerVars>>
        /\ req[s].u \in Users
        /\ code' = code \/ \E c \in Codes : code' = [code EXCEPT ![req[s].u] = c]
    BY <1>3, <1>p, RequestParts DEF MeGone, MeFails
  <2>2. TypeOK'
    BY <1>p, <2>1 DEF TypeOK, Continue, observerVars
  <2>3. FriendsInv'
    BY <1>p, <2>1, NotAdding DEF observerVars
  <2>4. settled[req[s].u] = NoCode
    BY <1>p, <2>1 DEF CodesInv, SettledAlone
  <2>5. \A w \in Users : settled[w] # NoCode => code'[w] = code[w]
    BY <1>p, <2>1, <2>4 DEF TypeOK
  <2>6. \A q \in Slots : req'[q] = req[q] \/ req'[q].pc = "idle"
    BY <1>p, <2>1 DEF Continue, TypeOK
  <2>7. CodesInv'
    BY <1>p, <2>1, <2>5, <2>6 DEF CodesInv, SettledStays, SettledAlone, At, observerVars
  <2> QED BY <2>2, <2>3, <2>7, IInvParts, PTL
<1> QED BY <1>1, <1>2, <1>3

-------------------------------------------------------------------------------
\* An /add begins or takes a row.
LEMMA AddGoesOn ==
    ASSUME IInv, NEW s \in Slots, NEW r \in Request, Continue(s, r),
           UNCHANGED <<accounts, code, friends, observerVars>>,
           r.pc \in {"row1", "row2", "commit"},
           r.mine \subseteq {<<r.u, r.v>>, <<r.v, r.u>>},
           r.pc # "row1" => <<r.u, r.v>> \in friends \cup r.mine \cup raced,
           r.pc = "commit" => <<r.v, r.u>> \in friends \cup r.mine \cup raced
    PROVE  IInv'
<1>p. TypeOK /\ FriendsInv /\ CodesInv /\ UNCHANGED <<accounts, code, friends, handed, settled, acked, raced>>
  BY IInvParts DEF observerVars
<1>1. \A q \in Slots : req'[q] = IF q = s THEN r ELSE req[q]
  BY <1>p DEF Continue, TypeOK
<1>2. TypeOK'
  BY <1>p DEF TypeOK, Continue
<1>3. \A q \in Slots : RowsTaken(q)'
  BY <1>p, <1>1 DEF FriendsInv, RowsTaken, Adding, At
<1>4. FriendsInv'
  BY <1>p, <1>3 DEF FriendsInv, AddedIsThere, SymmetricUnlessRaced
<1>5. CodesInv'
  BY <1>p, NotCoding
<1> QED BY <1>2, <1>4, <1>5, IInvParts, PTL

LEMMA AddRowInv ==
    ASSUME IInv, NEW s \in Slots, AddRow(s)
    PROVE  IInv'
<1> DEFINE u == req[s].u
           v == req[s].v
           mine == IF NextRow(s) \in friends THEN req[s].mine ELSE req[s].mine \cup {NextRow(s)}
           next == IF At(s, "row1") THEN "row2" ELSE "commit"
           r == [req[s] EXCEPT !.pc = next, !.mine = mine]
<1>p. TypeOK /\ req[s] \in Request /\ u \in Users /\ v \in Users /\ RowsTaken(s) /\ Adding(s)
      /\ req[s].pc \in {"row1", "row2"}
  BY IInvParts, RequestParts DEF IInv, AddRow, Adding
<1>1. Continue(s, r) /\ UNCHANGED <<accounts, code, friends, observerVars>>
  BY DEF AddRow, InsertRow
<1>2. /\ NextRow(s) \in {<<u, v>>, <<v, u>>} /\ NextRow(s) \in friends \cup mine
      /\ req[s].mine \subseteq mine /\ mine \subseteq req[s].mine \cup {NextRow(s)}
      /\ NextRow(s) = IF At(s, "row1") THEN <<u, v>> ELSE <<v, u>>
  BY DEF NextRow
<1>3. mine \subseteq {<<u, v>>, <<v, u>>}
  BY <1>p, <1>2 DEF RowsTaken
<1>n. next \in {"row2", "commit"} /\ (At(s, "row1") <=> next = "row2")
  OBVIOUS
<1> HIDE DEF mine, next
<1>4. r \in Request /\ r.pc = next /\ r.u = u /\ r.v = v /\ r.mine = mine
  <2> DEFINE Adds == [pc : {"row1", "row2", "commit"}, u : Users, v : Users, mine : SUBSET (Users \X Users)]
  <2>1. req[s] \in Adds
    BY <1>p DEF Request, Idle
  <2>2. mine \in SUBSET (Users \X Users)
    BY <1>p, <1>3
  <2>3. r \in Adds /\ r.pc = next /\ r.u = u /\ r.v = v /\ r.mine = mine
    BY <2>1, <2>2, <1>n
  <2> QED BY <2>3 DEF Request
<1> HIDE DEF r
<1>5. <<u, v>> \in friends \cup mine \cup raced
  BY <1>p, <1>2 DEF RowsTaken
<1>6. next = "commit" => <<v, u>> \in friends \cup mine \cup raced
  BY <1>p, <1>2, <1>n
<1> HIDE DEF u, v
<1> QED BY <1>1, <1>3, <1>4, <1>5, <1>6, <1>n, AddGoesOn

\* An /add ends; its rows are committed together or not at all.
LEMMA AddEnds ==
    ASSUME IInv, NEW s \in Slots, Adding(s), Continue(s, Idle), UNCHANGED <<accounts, code, handed, settled, raced>>,
           \/ friends' = friends /\ acked' = acked
           \/ /\ At(s, "commit") /\ friends' = friends \cup req[s].mine
              /\ acked' \subseteq acked \cup {<<req[s].u, req[s].v>>}
    PROVE  IInv'
<1>p. /\ TypeOK /\ FriendsInv /\ CodesInv /\ Idle \in Request /\ Idle.pc = "idle"
      /\ req[s].u \in Users /\ req[s].v \in Users /\ req[s].mine \subseteq Users \X Users
  BY IInvParts, RequestParts
<1>1. \A q \in Slots : req'[q] = req[q] \/ req'[q].pc = "idle"
  BY <1>p DEF Continue, TypeOK
<1>2. TypeOK'
  BY <1>p DEF TypeOK, Continue
<1>3. \A q \in Slots : RowsTaken(q)'
  <2>1. friends \subseteq friends'
    OBVIOUS
  <2> QED BY <1>p, <1>1, <2>1 DEF FriendsInv, RowsTaken, Adding, At
<1>4. AddedIsThere' /\ SymmetricUnlessRaced'
  <2>1. CASE friends' = friends /\ acked' = acked
    BY <1>p, <2>1 DEF FriendsInv, AddedIsThere, SymmetricUnlessRaced
  <2>2. CASE /\ At(s, "commit") /\ friends' = friends \cup req[s].mine
             /\ acked' \subseteq acked \cup {<<req[s].u, req[s].v>>}
    <3> DEFINE row1 == <<req[s].u, req[s].v>>
               row2 == <<req[s].v, req[s].u>>
    <3>1. /\ req[s].mine \subseteq {row1, row2}
          /\ {row1, row2} \subseteq friends' \cup raced
      BY <1>p, <2>2 DEF FriendsInv, RowsTaken, At
    <3>2. Swap(row1) = row2 /\ Swap(row2) = row1
      BY DEF Swap
    <3>3. row1 \in raced <=> row2 \in raced
      BY <1>p, <3>2 DEF FriendsInv
    <3> HIDE DEF row1, row2
    <3>4. \A p \in {row1, row2} : p \in raced \/ {p, Swap(p)} \subseteq friends'
      BY <3>1, <3>2, <3>3
    <3>5. ASSUME NEW p \in friends' PROVE p \in raced \/ Swap(p) \in friends'
      BY <1>p, <2>2, <3>1, <3>4, <3>5 DEF FriendsInv, SymmetricUnlessRaced
    <3>6. ASSUME NEW p \in acked' PROVE p \in raced \/ {p, Swap(p)} \subseteq friends'
      <4>1. p \in acked \/ p = row1
        BY <2>2, <3>6 DEF row1
      <4> QED BY <1>p, <2>2, <3>4, <4>1 DEF FriendsInv, AddedIsThere
    <3> QED BY <3>5, <3>6 DEF AddedIsThere, SymmetricUnlessRaced, Swap
  <2> QED BY <2>1, <2>2
<1>5. FriendsInv'
  BY <1>p, <1>3, <1>4 DEF FriendsInv, Swap
<1>6. CodesInv'
  BY <1>p, NotCoding
<1> QED BY <1>2, <1>5, <1>6, IInvParts, PTL

LEMMA AddInv ==
    ASSUME IInv, NEW s \in Slots,
           \/ \E u, v \in Users : AddStart(s, u, v)
           \/ AddRow(s) \/ AddCommit(s) \/ AddRefused(s) \/ AddFails(s) \/ AddDeadlock(s)
    PROVE  IInv'
<1>1. ASSUME NEW u \in Users, NEW v \in Users, AddStart(s, u, v) PROVE IInv'
  <2> DEFINE r == [pc |-> "row1", u |-> u, v |-> v, mine |-> {}]
  <2>1. r \in Request /\ r.pc = "row1" /\ r.mine = {}
    BY DEF Request
  <2>2. Continue(s, r) /\ UNCHANGED <<accounts, code, friends, observerVars>>
    BY <1>1 DEF AddStart
  <2> HIDE DEF r
  <2> QED BY <2>1, <2>2, AddGoesOn
<1>2. CASE AddCommit(s)
  BY <1>2, AddEnds DEF AddCommit, Adding, At
<1>3. CASE AddFails(s)
  BY <1>3, AddEnds DEF AddFails, Adding, At, observerVars
<1>4. CASE AddDeadlock(s)
  BY <1>4, AddEnds DEF AddDeadlock, WaitsFor, Adding, observerVars
<1>5. CASE AddRefused(s)
  BY <1>5, AddEnds DEF AddRefused, Adding, At, observerVars
<1> QED BY <1>1, <1>2, <1>3, <1>4, <1>5, AddRowInv

LEMMA RemovalInv ==
    ASSUME IInv, NEW u \in Users, (\E v \in Users : Remove(u, v)) \/ DeleteAccount(u)
    PROVE  IInv'
<1>p. TypeOK /\ FriendsInv /\ CodesInv
  BY IInvParts
<1>g. ASSUME NEW R, Gone(R)
      PROVE  friends' \subseteq friends /\ acked' \subseteq acked /\ raced' \subseteq raced \cup R
  BY <1>g DEF Gone
<1>1. ASSUME NEW v \in Users, Remove(u, v) PROVE IInv'
  <2> DEFINE R == {<<u, v>>, <<v, u>>}
  <2>1. Gone(R) /\ UNCHANGED <<accounts, code, req, hung, handed, settled>>
    BY <1>1 DEF Remove
  <2>2. R \subseteq Users \X Users /\ \A p \in R : Swap(p) \in R /\ Swap(Swap(p)) = p
    BY DEF Swap
  <2> HIDE DEF R
  <2>3. TypeOK'
    BY <1>p, <1>g, <2>1, <2>2 DEF TypeOK
  <2>4. FriendsInv'
    BY <1>p, <2>1, <2>2, GoneInv
  <2>5. CodesInv'
    BY <1>p, <2>1 DEF CodesInv, SettledStays, SettledAlone, At
  <2> QED BY <2>3, <2>4, <2>5, IInvParts, PTL
<1>2. CASE DeleteAccount(u)
  <2> DEFINE R == {p \in Users \X Users : u \in {p[1], p[2]}}
  <2>1. /\ Gone(R) /\ accounts' = accounts \ {u} /\ code' = [code EXCEPT ![u] = NoCode]
        /\ settled' = [settled EXCEPT ![u] = NoCode] /\ handed' \subseteq handed /\ UNCHANGED <<req, hung>>
    BY <1>2 DEF DeleteAccount
  <2>2. R \subseteq Users \X Users /\ \A p \in R : Swap(p) \in R /\ Swap(Swap(p)) = p
    BY DEF Swap
  <2> HIDE DEF R
  <2>3. TypeOK'
    BY <1>p, <1>g, <2>1, <2>2 DEF TypeOK
  <2>4. FriendsInv'
    BY <1>p, <2>1, <2>2, GoneInv
  <2>5. CodesInv'
    BY <1>p, <2>1 DEF TypeOK, CodesInv, SettledStays, SettledAlone, At
  <2> QED BY <2>3, <2>4, <2>5, IInvParts, PTL
<1> QED BY <1>1, <1>2

\* A statement that hangs changes nothing.
LEMMA HangInv ==
    ASSUME IInv, NEW s \in Slots, Hang(s)
    PROVE  IInv'
<1>1. /\ UNCHANGED <<accounts, code, friends, req, handed, settled, acked, raced>>
      /\ hung' \subseteq Slots
  BY DEF Hang, IInv, TypeOK, observerVars
<1> QED BY <1>1 DEF IInv, TypeOK, AddedIsThere, SymmetricUnlessRaced, SettledStays,
                    RowsTaken, SettledAlone, Adding, At, Swap

LEMMA NextInv == IInv /\ [Next]_vars => IInv'
<1> SUFFICES ASSUME IInv, [Next]_vars PROVE IInv'
  OBVIOUS
<1>1. CASE UNCHANGED vars
  BY <1>1 DEF vars, observerVars, IInv, TypeOK, AddedIsThere, SymmetricUnlessRaced, SettledStays,
              RowsTaken, SettledAlone, Adding, At, Swap
<1>2. CASE Next
  BY <1>2, MeStartInv, MeStepInv, AddInv, HangInv, RemovalInv DEF Next, Step
<1> QED BY <1>1, <1>2

\* The invariant behind the theorems below is inductive.
THEOREM Invariant == Spec => []IInv
BY InitInv, NextInv, PTL DEF Spec

\* An acknowledged friendship is there in both directions until it is removed,
\* unless a removal overlapped the /add.
THEOREM Friendship == Spec => []AddedIsThere
<1>1. IInv => AddedIsThere
  BY DEF IInv
<1> QED BY <1>1, Invariant, PTL

\* No /add, /me, deletion, abort or failure leaves half a friendship: a row without
\* its mirror is one that a DELETE overlapped while an /add was writing it.
THEOREM Symmetry == Spec => []SymmetricUnlessRaced
<1>1. IInv => SymmetricUnlessRaced
  BY DEF IInv
<1> QED BY <1>1, Invariant, PTL

\* A settled code is the user's for good.
THEOREM SettledCode == Spec => []SettledStays
<1>1. IInv => SettledStays
  BY DEF IInv
<1> QED BY <1>1, Invariant, PTL
===============================================================================
