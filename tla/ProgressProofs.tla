---------------------------- MODULE ProgressProofs ----------------------------
(***************************************************************************)
(* For every set of accounts, sessions, cards and claims, and however the  *)
(* statements interleave and fail: what an account has got right stays     *)
(* right, a late retry is harmless, and an answer is lost, or a right one  *)
(* turned into less, only if a claim of its session overlapped it or the   *)
(* account had the card before the claim.                                  *)
(***************************************************************************)
EXTENDS Progress, TLAPS

LEMMA InitInv == Init => IInv
<1> SUFFICES ASSUME Init PROVE IInv
  OBVIOUS
<1>1. IsStore(rows, Users \X Cards, Row)
  BY DEF Init, IsStore, Empty
<1>2. \A q \in Claims : claim[q].pc = "idle"
  BY DEF Init, NoClaim
<1> QED BY <1>1, <1>2 DEF Init, IInv, TypeOK, Claim, NoClaim, AnswersKept, LateRetryHarmless,
                          SkippedThere, ClaimCovers, PickedThere

\* A recorded answer leaves a row that the same answer, or one recorded before,
\* does not change any more; no other row changes and none disappears.
LEMMA UpsertedRow ==
    ASSUME TypeOK, NEW u \in Users, NEW c \in Cards, NEW mark \in Marks,
           rows' = Upserted(rows, u, c, mark)
    PROVE  /\ IsStore(rows', Users \X Cards, Row)
           /\ DOMAIN rows' = DOMAIN rows \cup {<<u, c>>}
           /\ \A k \in DOMAIN rows : k # <<u, c>> => rows'[k] = rows[k]
           /\ mark = "right" => rows'[<<u, c>>].correct = "right"
           /\ <<u, c>> \in DOMAIN rows =>
                 \/ rows'[<<u, c>>] = rows[<<u, c>>]
                 \/ rows[<<u, c>>].correct # "right" /\ rows'[<<u, c>>] = [at |-> now, correct |-> "right"]
<1> DEFINE e == [at |-> now, correct |-> mark]
           k == <<u, c>>
<1>1. e \in Row /\ e.correct = mark /\ k \in Users \X Cards
  BY DEF Row, TypeOK
<1>2. CASE rows' = Put(rows, k, e) /\ (k \in DOMAIN rows => mark = "right" /\ rows[k].correct # "right")
  <2>1. IsStore(rows', Users \X Cards, Row)
    BY <1>1, <1>2 DEF TypeOK, IsStore, Put
  <2> HIDE DEF e, k
  <2>2. /\ DOMAIN rows' = DOMAIN rows \cup {k} /\ rows'[k] = e
        /\ \A j \in DOMAIN rows : j # k => rows'[j] = rows[j]
    BY <1>2 DEF Put
  <2>3. k \in DOMAIN rows => e = [at |-> now, correct |-> "right"]
    BY <1>2 DEF e
  <2> QED BY <1>1, <1>2, <2>1, <2>2, <2>3 DEF k
<1>3. CASE rows' = rows /\ k \in DOMAIN rows /\ (mark = "right" => rows[k].correct = "right")
  BY <1>3 DEF TypeOK
<1> QED BY <1>2, <1>3 DEF Upserted

\* When an answer changes nothing.
LEMMA UpsertedSame ==
    ASSUME NEW u, NEW c, NEW mark, <<u, c>> \in DOMAIN rows,
           mark = "right" => rows[<<u, c>>].correct = "right"
    PROVE  Upserted(rows, u, c, mark) = rows
BY DEF Upserted

LEMMA UpsertedSameRow ==
    ASSUME NEW u, NEW c, NEW mark, mark \in Marks, Upserted(rows, u, c, mark) = rows
    PROVE  <<u, c>> \in DOMAIN rows /\ (mark = "right" => rows[<<u, c>>].correct = "right")
<1> DEFINE k == <<u, c>>
           e == [at |-> now, correct |-> mark]
<1>1. e.correct = mark
  OBVIOUS
<1> HIDE DEF k, e
<1>2. DOMAIN Put(rows, k, e) = DOMAIN rows \cup {k} /\ Put(rows, k, e)[k] = e
  BY DEF Put
<1>3. Upserted(rows, u, c, mark) =
          IF k \notin DOMAIN rows \/ (mark = "right" /\ rows[k].correct # "right")
          THEN Put(rows, k, e) ELSE rows
  BY DEF Upserted, k, e
<1>4. k \in DOMAIN rows
  BY <1>2, <1>3
<1>5. mark = "right" => rows[k].correct = "right"
  BY <1>1, <1>2, <1>3
<1> QED BY <1>4, <1>5 DEF k

\* What LateRetryHarmless says of the rows themselves.
RetryRows ==
    \A u \in Accounts, c \in Cards, mark \in Marks :
        <<u, c, mark>> \in given =>
            <<u, c>> \in DOMAIN rows /\ (mark = "right" => rows[<<u, c>>].correct = "right")

LEMMA RetryRowsSame == LateRetryHarmless <=> RetryRows
BY UpsertedSame, UpsertedSameRow DEF LateRetryHarmless, RetryRows

\* No row of an account changes or disappears.
AccountRowsStay ==
    \A u \in Accounts, c \in Cards : Has(u, c) => Has(u, c)' /\ rows'[<<u, c>>] = rows[<<u, c>>]

-------------------------------------------------------------------------------
LEMMA AnswerInv ==
    ASSUME IInv, NEW u \in Users, NEW c \in Cards, NEW mark \in Marks, Answer(u, c, mark)
    PROVE  IInv'
<1>1. /\ IsStore(rows', Users \X Cards, Row)
      /\ DOMAIN rows' = DOMAIN rows \cup {<<u, c>>}
      /\ \A k \in DOMAIN rows : k # <<u, c>> => rows'[k] = rows[k]
      /\ mark = "right" => rows'[<<u, c>>].correct = "right"
      /\ <<u, c>> \in DOMAIN rows =>
            \/ rows'[<<u, c>>] = rows[<<u, c>>]
            \/ rows[<<u, c>>].correct # "right" /\ rows'[<<u, c>>] = [at |-> now, correct |-> "right"]
  BY UpsertedRow DEF IInv, Answer
<1>2. UNCHANGED <<now, claim, moved, skipped>> /\ given' = given \cup {<<u, c, mark>>} /\ raced \subseteq raced'
  BY DEF Answer
<1>3. ASSUME NEW q \in Claims, claim[q].pc # "idle", claim[q].anon = u PROVE <<u, c>> \in raced'
  BY <1>3 DEF Answer
<1>4. \A q \in Claims : claim[q].pc # "idle" => claim[q].anon \in Anons
  BY DEF IInv, TypeOK, Claim, NoClaim
<1>5. TypeOK'
  <2>1. raced' \subseteq Anons \X Cards
    BY <1>4 DEF Answer, IInv, TypeOK
  <2> QED BY <1>1, <1>2, <2>1 DEF IInv, TypeOK
<1>6. AnswersKept'
  <2> SUFFICES ASSUME NEW v \in Users, NEW d \in Cards, NEW m \in Marks,
                      <<v, d, m>> \in given', <<v, d>> \notin raced'
               PROVE  Kept(v, d, m)'
    BY DEF AnswersKept
  <2>1. ASSUME NEW w, Stands(w, d, m) PROVE Stands(w, d, m)'
    BY <1>1, <2>1 DEF Stands, Has
  <2>2. ASSUME NEW w, Has(w, d) PROVE Has(w, d)'
    BY <1>1, <2>2 DEF Has
  <2>3. CASE <<v, d, m>> \in given
    <3>1. Kept(v, d, m)
      BY <1>2, <2>3 DEF IInv, AnswersKept
    <3> QED BY <1>2, <2>1, <2>2, <3>1 DEF Kept
  <2>4. CASE v = u /\ d = c /\ m = mark
    BY <1>1, <2>4 DEF Kept, Stands, Has
  <2> QED BY <1>2, <2>3, <2>4
<1>7. LateRetryHarmless'
  <2>1. RetryRows
    BY RetryRowsSame DEF IInv
  <2>2. RetryRows'
    <3> SUFFICES ASSUME NEW v \in Accounts, NEW d \in Cards, NEW m \in Marks, <<v, d, m>> \in given'
                 PROVE  <<v, d>> \in DOMAIN rows' /\ (m = "right" => rows'[<<v, d>>].correct = "right")
      BY DEF RetryRows
    <3>1. CASE <<v, d>> = <<u, c>>
      BY <1>1, <1>2, <2>1, <3>1 DEF RetryRows
    <3>2. CASE <<v, d>> # <<u, c>>
      BY <1>1, <1>2, <2>1, <3>2 DEF RetryRows
    <3> QED BY <3>1, <3>2
  <2> QED BY <2>2, RetryRowsSame, PTL
<1>8. ASSUME NEW q \in Claims PROVE ClaimCovers(q)' /\ PickedThere(q)'
  BY <1>1, <1>2, <1>3 DEF IInv, ClaimCovers, PickedThere, Has
<1>9. SkippedThere'
  BY <1>1, <1>2 DEF IInv, SkippedThere, Has
<1> QED BY <1>5, <1>6, <1>7, <1>8, <1>9 DEF IInv

-------------------------------------------------------------------------------
\* A step of a claim that leaves the accounts' rows alone.
LEMMA RetryStays ==
    ASSUME IInv, AccountRowsStay, given' = given
    PROVE  LateRetryHarmless'
<1>1. RetryRows
  BY RetryRowsSame DEF IInv
<1>2. RetryRows'
  BY <1>1 DEF RetryRows, AccountRowsStay, Has
<1> QED BY <1>2, RetryRowsSame, PTL

LEMMA ClaimParts ==
    ASSUME TypeOK, NEW q \in Claims
    PROVE  /\ claim[q] \in Claim
           /\ claim[q].pc # "idle" => claim[q].account \in Accounts /\ claim[q].anon \in Anons
           /\ claim[q].pc = "update" => claim[q].picked \subseteq Cards
           /\ claim[q].pc \in {"idle", "update", "delete"}
BY DEF TypeOK, Claim, NoClaim

\* Rows and observers stay; one claim moves on and covers what it has to.
LEMMA ClaimStepInv ==
    ASSUME IInv, NEW q \in Claims, NEW r \in Claim, claim' = [claim EXCEPT ![q] = r],
           UNCHANGED <<now, rows, given, raced, moved>>,
           skipped \subseteq skipped', skipped' \subseteq Anons \X Accounts \X Cards,
           \A a \in Anons, u \in Accounts, c \in Cards : <<a, u, c>> \in skipped' => Has(u, c),
           r.pc # "idle" =>
               \A c \in Cards : Has(r.anon, c) /\ <<r.anon, c>> \notin raced
                   => <<r.anon, r.account, c>> \in skipped' \/ (r.pc = "update" /\ c \in r.picked),
           r.pc = "update" => \A c \in r.picked : Has(r.anon, c)
    PROVE  IInv'
<1>1. claim \in [Claims -> Claim]
  BY DEF IInv, TypeOK
<1>2. TypeOK'
  BY <1>1 DEF IInv, TypeOK
<1>3. AnswersKept'
  BY DEF IInv, AnswersKept, Kept, Stands, Has
<1>4. LateRetryHarmless'
  BY <1>1, RetryStays DEF AccountRowsStay, Has
<1>5. ASSUME NEW p \in Claims PROVE ClaimCovers(p)' /\ PickedThere(p)'
  <2>1. CASE p = q
    BY <1>1, <2>1 DEF ClaimCovers, PickedThere, Has
  <2>2. CASE p # q
    BY <1>1, <2>2 DEF IInv, ClaimCovers, PickedThere, Has
  <2> QED BY <2>1, <2>2
<1>6. SkippedThere'
  BY DEF SkippedThere, Has
<1> QED BY <1>2, <1>3, <1>4, <1>5, <1>6 DEF IInv

LEMMA ClaimStartInv ==
    ASSUME IInv, NEW q \in Claims, NEW account \in Accounts, NEW anon \in Anons,
           ClaimStart(q, account, anon)
    PROVE  IInv'
<1> DEFINE K == Picked(account, anon)
           r == [pc |-> "update", account |-> account, anon |-> anon, picked |-> K]
<1>1. K \subseteq Cards /\ \A c \in Cards : c \in K <=> Has(anon, c) /\ ~Has(account, c)
  BY DEF Picked
<1> DEFINE S == {anon} \X {account} \X {c \in Cards : Has(anon, c) /\ Has(account, c)}
<1>2. /\ claim' = [claim EXCEPT ![q] = r] /\ UNCHANGED <<now, rows, given, raced, moved>>
      /\ skipped' = skipped \cup S
  BY DEF ClaimStart
<1>3. /\ S \subseteq Anons \X Accounts \X Cards
      /\ \A a, u, c : <<a, u, c>> \in S =>
            a = anon /\ u = account /\ c \in Cards /\ Has(anon, c) /\ Has(account, c)
      /\ \A c \in Cards : Has(anon, c) /\ Has(account, c) => <<anon, account, c>> \in S
  OBVIOUS
<1> HIDE DEF K, S
<1>4. r \in Claim
  BY <1>1 DEF Claim
<1>5. skipped' \subseteq Anons \X Accounts \X Cards
  BY <1>2, <1>3 DEF IInv, TypeOK
<1>6. \A a \in Anons, u \in Accounts, c \in Cards : <<a, u, c>> \in skipped' => Has(u, c)
  BY <1>2, <1>3 DEF IInv, SkippedThere
<1> QED BY <1>1, <1>2, <1>3, <1>4, <1>5, <1>6, ClaimStepInv

\* The rows after an UPDATE.
LEMMA MovedRows ==
    ASSUME IsStore(rows, Users \X Cards, Row), NEW account \in Accounts, NEW anon \in Anons,
           NEW K \in SUBSET Cards, \A c \in K : Has(anon, c) /\ ~Has(account, c),
           rows' = Moved(rows, account, anon, K)
    PROVE  /\ IsStore(rows', Users \X Cards, Row)
           /\ AccountRowsStay
           /\ \A c \in K : <<account, c>> \in DOMAIN rows' /\ rows'[<<account, c>>] = rows[<<anon, c>>]
           /\ \A k \in DOMAIN rows' : k \in {account} \X K \/ (k \in DOMAIN rows /\ k \notin {anon} \X K)
           /\ \A k \in DOMAIN rows : k \notin {anon} \X K => k \in DOMAIN rows' /\ rows'[k] = rows[k]
<1>1. DOMAIN rows' = (DOMAIN rows \ ({anon} \X K)) \cup ({account} \X K)
  BY DEF Moved
<1>2. \A k \in DOMAIN rows' : rows'[k] = IF k \in {account} \X K THEN rows[<<anon, k[2]>>] ELSE rows[k]
  BY DEF Moved
<1>3. \A k \in {account} \X K : k[2] \in K /\ <<anon, k[2]>> \in DOMAIN rows
  BY DEF Has
<1>4. \A k \in DOMAIN rows : rows[k] \in Row
  BY DEF IsStore
<1>5. \A k \in DOMAIN rows' : rows'[k] \in Row
  BY <1>1, <1>2, <1>3, <1>4
<1>6. DOMAIN rows' \subseteq Users \X Cards
  BY <1>1 DEF IsStore, Users
<1>7. rows' = [k \in DOMAIN rows' |-> rows'[k]]
  BY DEF Moved
<1>8. IsStore(rows', Users \X Cards, Row)
  BY <1>5, <1>6, <1>7 DEF IsStore
<1>9. AccountRowsStay
  <2> SUFFICES ASSUME NEW u \in Accounts, NEW c \in Cards, Has(u, c)
               PROVE  <<u, c>> \in DOMAIN rows' /\ rows'[<<u, c>>] = rows[<<u, c>>]
    BY DEF AccountRowsStay, Has
  <2>1. <<u, c>> \notin {anon} \X K /\ <<u, c>> \notin {account} \X K
    BY UsersAssumption
  <2> QED BY <1>1, <1>2, <2>1 DEF Has
<1>10. \A k \in DOMAIN rows : k \notin {anon} \X K => k \in DOMAIN rows' /\ rows'[k] = rows[k]
  <2> SUFFICES ASSUME NEW k \in DOMAIN rows, k \notin {anon} \X K
               PROVE  k \in DOMAIN rows' /\ rows'[k] = rows[k]
    OBVIOUS
  <2>1. ASSUME k \in {account} \X K PROVE FALSE
    <3>1. PICK c \in K : k = <<account, c>>
      BY <2>1
    <3> QED BY <3>1 DEF Has
  <2> QED BY <1>1, <1>2, <2>1
<1>11. \A c \in K : <<account, c>> \in DOMAIN rows' /\ rows'[<<account, c>>] = rows[<<anon, c>>]
  BY <1>1, <1>2
<1> QED BY <1>1, <1>8, <1>9, <1>10, <1>11

LEMMA ClaimUpdateInv ==
    ASSUME IInv, NEW q \in Claims, ClaimUpdate(q)
    PROVE  IInv'
<1> DEFINE account == claim[q].account
           anon == claim[q].anon
           K == claim[q].picked
<1>1. /\ claim[q].pc = "update" /\ account \in Accounts /\ anon \in Anons /\ K \in SUBSET Cards
      /\ claim \in [Claims -> Claim]
  BY ClaimParts DEF ClaimUpdate, IInv, TypeOK
<1>2. \A c \in K : Has(anon, c) /\ ~Has(account, c)
  BY <1>1 DEF ClaimUpdate, Clash, IInv, PickedThere
<1>3. /\ rows' = Moved(rows, account, anon, K) /\ UNCHANGED <<now, given, raced, skipped>>
      /\ moved' = moved \cup ({anon} \X {account} \X K)
  BY DEF ClaimUpdate
<1>4. PICK r \in Claim :
          /\ claim' = [Unpicked(anon, K) EXCEPT ![q] = r]
          /\ r.pc # "idle" => r.pc = "delete" /\ r.account = account /\ r.anon = anon
  <2>1. NoClaim \in Claim /\ NoClaim.pc = "idle"
    BY DEF Claim, NoClaim
  <2>2. [pc |-> "delete", account |-> account, anon |-> anon] \in Claim
    BY <1>1 DEF Claim
  <2> QED BY <2>1, <2>2 DEF ClaimUpdate
<1>5. \A p \in Claims \ {q} : claim'[p] = IF claim[p].pc = "update" /\ claim[p].anon = anon
                                        THEN [claim[p] EXCEPT !.picked = @ \ K] ELSE claim[p]
  BY <1>4 DEF Unpicked
<1>6. claim'[q] = r
  BY <1>4 DEF Unpicked
<1>7. claim' = [p \in Claims |-> claim'[p]]
  BY <1>4 DEF Unpicked
<1> HIDE DEF account, anon, K
<1>8. /\ IsStore(rows', Users \X Cards, Row)
      /\ AccountRowsStay
      /\ \A c \in K : <<account, c>> \in DOMAIN rows' /\ rows'[<<account, c>>] = rows[<<anon, c>>]
      /\ \A k \in DOMAIN rows' : k \in {account} \X K \/ (k \in DOMAIN rows /\ k \notin {anon} \X K)
      /\ \A k \in DOMAIN rows : k \notin {anon} \X K => k \in DOMAIN rows' /\ rows'[k] = rows[k]
  BY <1>1, <1>2, <1>3, MovedRows DEF IInv, TypeOK
<1>9. ASSUME NEW p \in Claims, p # q
      PROVE  /\ claim'[p] \in Claim /\ claim'[p].pc = claim[p].pc
             /\ claim[p].pc # "idle" => claim'[p].account = claim[p].account /\ claim'[p].anon = claim[p].anon
             /\ claim[p].pc = "update" =>
                   claim'[p].picked = IF claim[p].anon = anon THEN claim[p].picked \ K ELSE claim[p].picked
  <2> DEFINE x == claim[p]
             y == [x EXCEPT !.picked = @ \ K]
  <2>1. x \in Claim /\ claim'[p] = IF x.pc = "update" /\ x.anon = anon THEN y ELSE x
    BY <1>1, <1>5, <1>9
  <2> HIDE DEF x
  <2>2. x.pc = "update" => /\ y \in Claim /\ y.pc = x.pc /\ y.account = x.account /\ y.anon = x.anon
                           /\ y.picked = x.picked \ K
    BY <2>1 DEF Claim, NoClaim
  <2> HIDE DEF y
  <2> QED BY <2>1, <2>2 DEF x
<1>10. TypeOK'
  <2>1. \A p \in Claims : claim'[p] \in Claim
    BY <1>6, <1>9
  <2>2. moved' \subseteq Anons \X Accounts \X Cards
    BY <1>1, <1>3 DEF IInv, TypeOK
  <2> QED BY <1>3, <1>7, <1>8, <2>1, <2>2 DEF IInv, TypeOK
<1>11. AnswersKept'
  <2> SUFFICES ASSUME NEW v \in Users, NEW d \in Cards, NEW m \in Marks,
                      <<v, d, m>> \in given, <<v, d>> \notin raced
               PROVE  Kept(v, d, m)'
    BY <1>3 DEF AnswersKept
  <2>1. Kept(v, d, m)
    BY DEF IInv, AnswersKept
  <2>2. ASSUME NEW u \in Accounts PROVE /\ Has(u, d) => Has(u, d)'
                                        /\ Stands(u, d, m) => Stands(u, d, m)'
    BY <1>8, <2>2 DEF AccountRowsStay, Stands
  <2>3. CASE Stands(v, d, m) /\ <<v, d>> \notin {anon} \X K
    BY <1>8, <2>3 DEF Kept, Stands, Has
  <2>4. CASE Stands(v, d, m) /\ <<v, d>> \in {anon} \X K
    <3>1. v = anon /\ d \in K
      BY <2>4
    <3>2. PICK u \in Accounts : u = account
      BY <1>1
    <3>3. <<v, u, d>> \in moved'
      BY <1>3, <3>1, <3>2
    <3>4. <<u, d>> \in DOMAIN rows' /\ rows'[<<u, d>>] = rows[<<v, d>>]
      BY <1>8, <3>1, <3>2
    <3>5. Stands(u, d, m)'
      BY <2>4, <3>4 DEF Stands, Has
    <3> QED BY <3>3, <3>5 DEF Kept
  <2>5. CASE \E u \in Accounts : \/ <<v, u, d>> \in moved /\ Stands(u, d, m)
                                 \/ <<v, u, d>> \in skipped /\ Has(u, d)
    BY <1>3, <2>2, <2>5 DEF Kept
  <2> QED BY <2>1, <2>3, <2>4, <2>5 DEF Kept
<1>12. LateRetryHarmless'
  BY <1>3, <1>8, RetryStays
<1>13. ASSUME NEW a \in Anons, NEW c \in Cards, <<a, c>> \in DOMAIN rows' PROVE Has(a, c) /\ ~(a = anon /\ c \in K)
  BY <1>1, <1>8, <1>13, UsersAssumption DEF Has
<1>14. ASSUME NEW p \in Claims PROVE ClaimCovers(p)' /\ PickedThere(p)'
  <2>1. CASE p = q
    <3>1. ASSUME NEW c \in Cards, <<anon, c>> \in DOMAIN rows', <<anon, c>> \notin raced
          PROVE  <<anon, account, c>> \in skipped
      <4>1. Has(anon, c) /\ c \notin K
        BY <1>1, <1>13, <3>1
      <4> QED BY <1>1, <3>1, <4>1 DEF IInv, ClaimCovers, account, anon, K
    <3>2. ClaimCovers(p)'
      BY <1>3, <1>4, <1>6, <2>1, <3>1 DEF ClaimCovers, Has
    <3>3. PickedThere(p)'
      BY <1>4, <1>6, <2>1 DEF PickedThere
    <3> QED BY <3>2, <3>3
  <2>2. CASE p # q
    <3>1. claim[p].pc # "idle" => claim[p].account \in Accounts /\ claim[p].anon \in Anons
      BY ClaimParts DEF IInv
    <3>2. ASSUME NEW c \in Cards, claim[p].pc # "idle",
                 <<claim[p].anon, c>> \in DOMAIN rows', <<claim[p].anon, c>> \notin raced
          PROVE  \/ <<claim[p].anon, claim[p].account, c>> \in skipped
                 \/ claim'[p].pc = "update" /\ c \in claim'[p].picked
      <4>1. Has(claim[p].anon, c) /\ ~(claim[p].anon = anon /\ c \in K)
        BY <1>13, <3>1, <3>2
      <4>2. \/ <<claim[p].anon, claim[p].account, c>> \in skipped
            \/ claim[p].pc = "update" /\ c \in claim[p].picked
        BY <3>2, <4>1 DEF IInv, ClaimCovers
      <4> QED BY <1>9, <2>2, <4>1, <4>2
    <3>3. ClaimCovers(p)'
      BY <1>3, <1>9, <2>2, <3>2 DEF ClaimCovers, Has
    <3>4. ASSUME claim[p].pc = "update", NEW c \in claim'[p].picked PROVE <<claim[p].anon, c>> \in DOMAIN rows'
      <4>1. c \in claim[p].picked /\ ~(claim[p].anon = anon /\ c \in K)
        BY <1>9, <2>2, <3>4
      <4>2. Has(claim[p].anon, c)
        BY <3>4, <4>1 DEF IInv, PickedThere
      <4> QED BY <1>8, <4>1, <4>2 DEF Has
    <3>5. PickedThere(p)'
      BY <1>9, <2>2, <3>4 DEF PickedThere, Has
    <3> QED BY <3>3, <3>5
  <2> QED BY <2>1, <2>2
<1>15. SkippedThere'
  BY <1>3, <1>8 DEF IInv, SkippedThere, AccountRowsStay
<1> QED BY <1>10, <1>11, <1>12, <1>14, <1>15 DEF IInv

LEMMA ClaimClashInv ==
    ASSUME IInv, NEW q \in Claims, ClaimClash(q) \/ ClaimFails(q)
    PROVE  IInv'
<1>1. claim' = [claim EXCEPT ![q] = NoClaim] /\ UNCHANGED <<now, rows, observerVars>>
  BY DEF ClaimClash, ClaimFails
<1>2. NoClaim \in Claim /\ NoClaim.pc = "idle"
  BY DEF Claim, NoClaim
<1>3. UNCHANGED <<now, rows, given, raced, moved, skipped>>
  BY <1>1 DEF observerVars
<1>4. /\ skipped \subseteq Anons \X Accounts \X Cards
      /\ \A a \in Anons, u \in Accounts, c \in Cards : <<a, u, c>> \in skipped => Has(u, c)
  BY DEF IInv, TypeOK, SkippedThere
<1> QED BY <1>1, <1>2, <1>3, <1>4, ClaimStepInv

\* The account of a claim past its UPDATE had the cards the DELETE drops.
LEMMA ClaimDeleteInv ==
    ASSUME IInv, NEW q \in Claims, ClaimDelete(q)
    PROVE  IInv'
<1> DEFINE account == claim[q].account
           anon == claim[q].anon
<1>1. /\ claim[q].pc = "delete" /\ account \in Accounts /\ anon \in Anons
      /\ claim \in [Claims -> Claim]
  BY ClaimParts DEF ClaimDelete, IInv, TypeOK
<1>2. /\ rows' = Drop(rows, {anon} \X Cards) /\ UNCHANGED <<now, given, raced, moved, skipped>>
      /\ claim' = [Unpicked(anon, Cards) EXCEPT ![q] = NoClaim]
  BY DEF ClaimDelete, observerVars
<1>3. NoClaim \in Claim /\ NoClaim.pc = "idle"
  BY DEF Claim, NoClaim
<1>4. /\ claim'[q] = NoClaim /\ claim' = [p \in Claims |-> claim'[p]]
      /\ \A p \in Claims \ {q} : claim'[p] = IF claim[p].pc = "update" /\ claim[p].anon = anon
                                           THEN [claim[p] EXCEPT !.picked = @ \ Cards] ELSE claim[p]
  BY <1>2 DEF Unpicked
<1>5. \A c \in Cards : Has(anon, c) /\ <<anon, c>> \notin raced
                         => <<anon, account, c>> \in skipped /\ Has(account, c)
  BY <1>1 DEF IInv, ClaimCovers, SkippedThere
<1> HIDE DEF account, anon
<1>6. /\ IsStore(rows', Users \X Cards, Row)
      /\ DOMAIN rows' = DOMAIN rows \ ({anon} \X Cards)
      /\ \A k \in DOMAIN rows \ ({anon} \X Cards) : rows'[k] = rows[k]
  <2>1. IsStore(Drop(rows, {anon} \X Cards), Users \X Cards, Row)
    BY DEF IInv, TypeOK, IsStore, Drop, Restrict
  <2>2. /\ DOMAIN Drop(rows, {anon} \X Cards) = DOMAIN rows \ ({anon} \X Cards)
        /\ \A k \in DOMAIN rows \ ({anon} \X Cards) : Drop(rows, {anon} \X Cards)[k] = rows[k]
    BY DEF Drop, Restrict
  <2> QED BY <1>2, <2>1, <2>2
<1>7. AccountRowsStay
  BY <1>1, <1>6, UsersAssumption DEF AccountRowsStay, Has
<1>8. ASSUME NEW p \in Claims, p # q
      PROVE  /\ claim'[p] \in Claim /\ claim'[p].pc = claim[p].pc
             /\ claim[p].pc # "idle" => claim'[p].account = claim[p].account /\ claim'[p].anon = claim[p].anon
             /\ claim[p].pc = "update" =>
                   claim'[p].picked = IF claim[p].anon = anon THEN {} ELSE claim[p].picked
  <2> DEFINE x == claim[p]
             y == [x EXCEPT !.picked = @ \ Cards]
  <2>1. x \in Claim /\ claim'[p] = IF x.pc = "update" /\ x.anon = anon THEN y ELSE x
    BY <1>1, <1>4, <1>8
  <2> HIDE DEF x
  <2>2. x.pc = "update" => /\ y \in Claim /\ y.pc = x.pc /\ y.account = x.account /\ y.anon = x.anon
                           /\ y.picked = {}
    BY <2>1 DEF Claim, NoClaim
  <2> HIDE DEF y
  <2> QED BY <2>1, <2>2 DEF x
<1>9. TypeOK'
  <2>1. \A p \in Claims : claim'[p] \in Claim
    BY <1>3, <1>4, <1>8
  <2> QED BY <1>2, <1>4, <1>6, <2>1 DEF IInv, TypeOK
<1>10. AnswersKept'
  <2> SUFFICES ASSUME NEW v \in Users, NEW d \in Cards, NEW m \in Marks,
                      <<v, d, m>> \in given, <<v, d>> \notin raced
               PROVE  Kept(v, d, m)'
    BY <1>2 DEF AnswersKept
  <2>1. Kept(v, d, m)
    BY DEF IInv, AnswersKept
  <2>2. ASSUME NEW u \in Accounts PROVE /\ Has(u, d) => Has(u, d)'
                                        /\ Stands(u, d, m) => Stands(u, d, m)'
    BY <1>7, <2>2 DEF AccountRowsStay, Stands
  <2>3. CASE Stands(v, d, m) /\ v # anon
    BY <1>6, <2>3 DEF Kept, Stands, Has
  <2>4. CASE Stands(v, d, m) /\ v = anon
    <3>1. <<v, account, d>> \in skipped /\ Has(account, d)
      BY <1>5, <2>4 DEF Stands
    <3> QED BY <1>1, <1>2, <2>2, <3>1 DEF Kept
  <2>5. CASE \E u \in Accounts : \/ <<v, u, d>> \in moved /\ Stands(u, d, m)
                                 \/ <<v, u, d>> \in skipped /\ Has(u, d)
    BY <1>2, <2>2, <2>5 DEF Kept
  <2> QED BY <2>1, <2>3, <2>4, <2>5 DEF Kept
<1>11. LateRetryHarmless'
  BY <1>2, <1>7, RetryStays
<1>12. ASSUME NEW p \in Claims PROVE ClaimCovers(p)' /\ PickedThere(p)'
  <2>1. CASE p = q
    BY <1>3, <1>4, <2>1 DEF ClaimCovers, PickedThere
  <2>2. CASE p # q
    <3>1. claim[p].pc # "idle" => claim[p].account \in Accounts /\ claim[p].anon \in Anons
      BY ClaimParts DEF IInv
    <3>2. ASSUME NEW c \in Cards, claim[p].pc # "idle",
                 <<claim[p].anon, c>> \in DOMAIN rows', <<claim[p].anon, c>> \notin raced
          PROVE  \/ <<claim[p].anon, claim[p].account, c>> \in skipped
                 \/ claim'[p].pc = "update" /\ c \in claim'[p].picked
      <4>1. Has(claim[p].anon, c) /\ claim[p].anon # anon
        BY <1>6, <3>2 DEF Has
      <4>2. \/ <<claim[p].anon, claim[p].account, c>> \in skipped
            \/ claim[p].pc = "update" /\ c \in claim[p].picked
        BY <3>2, <4>1 DEF IInv, ClaimCovers
      <4>3. claim[p].pc = "update" => claim'[p].pc = "update" /\ claim'[p].picked = claim[p].picked
        BY <1>8, <2>2, <4>1
      <4> QED BY <4>2, <4>3
    <3>3. ClaimCovers(p)'
      <4> SUFFICES ASSUME claim'[p].pc # "idle", NEW c \in Cards,
                          <<claim'[p].anon, c>> \in DOMAIN rows', <<claim'[p].anon, c>> \notin raced
                   PROVE  \/ <<claim'[p].anon, claim'[p].account, c>> \in skipped
                          \/ claim'[p].pc = "update" /\ c \in claim'[p].picked
        BY <1>2 DEF ClaimCovers, Has
      <4>1. claim[p].pc # "idle" /\ claim'[p].account = claim[p].account /\ claim'[p].anon = claim[p].anon
        BY <1>8, <2>2
      <4> QED BY <3>2, <4>1
    <3>4. PickedThere(p)'
      BY <1>6, <1>8, <2>2 DEF IInv, PickedThere, Has
    <3> QED BY <3>3, <3>4
  <2> QED BY <2>1, <2>2
<1>13. SkippedThere'
  BY <1>2, <1>7 DEF IInv, SkippedThere, AccountRowsStay
<1> QED BY <1>9, <1>10, <1>11, <1>12, <1>13 DEF IInv

LEMMA TickInv ==
    ASSUME IInv, UNCHANGED <<rows, claim, observerVars>>, now' \in Nat
    PROVE  IInv'
<1>1. TypeOK'
  BY DEF IInv, TypeOK, observerVars
<1>2. AnswersKept'
  BY DEF IInv, AnswersKept, Kept, Stands, Has, observerVars
<1>3. LateRetryHarmless'
  BY RetryStays DEF AccountRowsStay, Has, observerVars
<1>4. \A q \in Claims : ClaimCovers(q)' /\ PickedThere(q)'
  BY DEF IInv, ClaimCovers, PickedThere, Has, observerVars
<1>5. SkippedThere'
  BY DEF IInv, SkippedThere, Has, observerVars
<1> QED BY <1>1, <1>2, <1>3, <1>4, <1>5 DEF IInv

LEMMA NextInv == IInv /\ [Next]_vars => IInv'
<1> SUFFICES ASSUME IInv, [Next]_vars PROVE IInv'
  OBVIOUS
<1>1. CASE UNCHANGED vars
  <2>1. now' \in Nat
    BY <1>1 DEF vars, IInv, TypeOK
  <2> QED BY <1>1, <2>1, TickInv DEF vars
<1>2. CASE Tick
  <2>1. now' \in Nat
    BY <1>2 DEF Tick, IInv, TypeOK
  <2> QED BY <1>2, <2>1, TickInv DEF Tick
<1> QED BY <1>1, <1>2, AnswerInv, ClaimStartInv, ClaimUpdateInv, ClaimClashInv, ClaimDeleteInv DEF Next

\* The invariant that shows why no answer is lost is inductive.
THEOREM Invariant == Spec => []IInv
BY InitInv, NextInv, PTL DEF Spec

\* An answer that no claim of its session overlapped is never lost: it stands,
\* as right as it was given, with who gave it or with the account a claim moved it
\* to, unless that account had the card before the claim.
THEOREM NothingLost == Spec => []AnswersKept
<1>1. IInv => AnswersKept
  BY DEF IInv
<1> QED BY <1>1, Invariant, PTL

\* An answer of an account sent again changes nothing.
THEOREM RetriesHarmless == Spec => []LateRetryHarmless
<1>1. IInv => LateRetryHarmless
  BY DEF IInv
<1> QED BY <1>1, Invariant, PTL

-------------------------------------------------------------------------------
\* What any step does to an account's rows: nothing, or it turns a row right.
LEMMA RowsOnlyImprove ==
    ASSUME IInv, [Next]_vars, NEW u \in Accounts, NEW c \in Cards, Has(u, c)
    PROVE  /\ Has(u, c)'
           /\ \/ rows'[<<u, c>>] = rows[<<u, c>>]
              \/ /\ rows[<<u, c>>].correct # "right" /\ rows'[<<u, c>>].correct = "right"
<1>1. ASSUME NEW v \in Users, NEW d \in Cards, NEW mark \in Marks, Answer(v, d, mark)
      PROVE  /\ Has(u, c)'
             /\ \/ rows'[<<u, c>>] = rows[<<u, c>>]
                \/ rows[<<u, c>>].correct # "right" /\ rows'[<<u, c>>].correct = "right"
  <2>1. /\ DOMAIN rows' = DOMAIN rows \cup {<<v, d>>}
        /\ \A k \in DOMAIN rows : k # <<v, d>> => rows'[k] = rows[k]
        /\ <<v, d>> \in DOMAIN rows =>
              \/ rows'[<<v, d>>] = rows[<<v, d>>]
              \/ rows[<<v, d>>].correct # "right" /\ rows'[<<v, d>>] = [at |-> now, correct |-> "right"]
    BY <1>1, UpsertedRow DEF IInv, Answer
  <2>2. CASE <<u, c>> = <<v, d>>
    BY <2>1, <2>2 DEF Has
  <2>3. CASE <<u, c>> # <<v, d>>
    BY <2>1, <2>3 DEF Has
  <2> QED BY <2>2, <2>3
<1>2. ASSUME AccountRowsStay PROVE Has(u, c)' /\ rows'[<<u, c>>] = rows[<<u, c>>]
  BY <1>2 DEF AccountRowsStay
<1>3. ASSUME rows' = rows PROVE AccountRowsStay
  BY <1>3 DEF AccountRowsStay, Has
<1>4. ASSUME NEW q \in Claims, ClaimUpdate(q) PROVE AccountRowsStay
  <2> DEFINE account == claim[q].account
             anon == claim[q].anon
             K == claim[q].picked
  <2>1. /\ account \in Accounts /\ anon \in Anons /\ K \in SUBSET Cards
        /\ \A d \in K : Has(anon, d) /\ ~Has(account, d)
        /\ rows' = Moved(rows, account, anon, K)
    BY <1>4, ClaimParts DEF ClaimUpdate, Clash, IInv, PickedThere
  <2> HIDE DEF account, anon, K
  <2> QED BY <2>1, MovedRows DEF IInv, TypeOK
<1>5. ASSUME NEW q \in Claims, ClaimDelete(q) PROVE AccountRowsStay
  <2> DEFINE D == {claim[q].anon} \X Cards
  <2>1. claim[q].anon \in Anons /\ rows' = Drop(rows, D)
    BY <1>5, ClaimParts DEF ClaimDelete, IInv
  <2>2. \A v \in Accounts, d \in Cards : <<v, d>> \notin D
    BY <2>1, UsersAssumption
  <2> HIDE DEF D
  <2>3. DOMAIN Drop(rows, D) = DOMAIN rows \ D /\ \A k \in DOMAIN rows \ D : Drop(rows, D)[k] = rows[k]
    BY DEF Drop, Restrict
  <2> QED BY <2>1, <2>2, <2>3 DEF AccountRowsStay, Has
<1> QED BY <1>1, <1>2, <1>3, <1>4, <1>5 DEF Next, ClaimStart, ClaimClash, ClaimFails, Tick, vars

\* A card an account has got right stays right.
THEOREM Mastered == Spec => MasteredStays
<1>1. IInv /\ [Next]_vars =>
        [\A u \in Accounts, c \in Cards :
            Has(u, c) /\ rows[<<u, c>>].correct = "right"
                => Has(u, c)' /\ (rows[<<u, c>>].correct = "right")']_vars
  BY RowsOnlyImprove
<1> QED BY <1>1, Invariant, PTL DEF Spec, MasteredStays

\* While the clock stands still, what an account has seen only grows: UserCache
\* relies on it.
THEOREM SeenOnlyGrows == Spec => SeenGrows
<1>1. IInv /\ [Next]_vars => [now' = now => \A u \in Accounts : Seen(u) \subseteq Seen(u)']_vars
  <2> SUFFICES ASSUME IInv, [Next]_vars, now' = now, NEW u \in Accounts, NEW c \in Cards,
                      Has(u, c), c \notin Due(u)
               PROVE  Has(u, c)' /\ c \notin Due(u)'
    BY DEF Seen
  <2>1. Has(u, c)'
    BY RowsOnlyImprove
  <2>2. \/ rows'[<<u, c>>] = rows[<<u, c>>]
        \/ rows'[<<u, c>>].correct = "right"
    BY RowsOnlyImprove
  <2> QED BY <2>1, <2>2 DEF Due
<1> QED BY <1>1, Invariant, PTL DEF Spec, SeenGrows
===============================================================================
