---------------------------- MODULE AnalyticsProofs ----------------------------
(***************************************************************************)
(* For every number of users, cards and rows, and every length of the      *)
(* periods: a day that is over stays as it was reported, the streak counts *)
(* as a user would, the grid of retention hides nobody, and the figures of *)
(* a snapshot agree.                                                       *)
(*                                                                         *)
(* The queries are functions of one state, so the invariant is small: no   *)
(* row is of a day to come, there are finitely many, and an event on its   *)
(* way arrived in time for its day.  The work is in                        *)
(* what the queries count: largest and smallest days, whole weeks, and     *)
(* sums over sets, which are inductions on the size of a set and go by a   *)
(* counterexample of the least size.                                       *)
(***************************************************************************)
EXTENDS Analytics, TLAPS, FiniteSetTheorems

Marks == {"right", "wrong", "unknown"}
Row == [day : 0..today, mark : Marks]

FlushesOf == [user : Users, day : 0..today, received : 0..today]

\* No row is of a day to come, there are finitely many rows, and the events that are on
\* their way arrived in time for their day.
IInv ==
    /\ today \in 0..MaxDay
    /\ IsStore(progress, Users \X Cards, Row) /\ IsFiniteSet(DOMAIN progress)
    /\ dailies \subseteq Users \X (0..today) /\ IsFiniteSet(dailies)
    /\ events \subseteq Users \X (0..today) /\ IsFiniteSet(events)
    /\ flushes \subseteq FlushesOf
    /\ \A p \in flushes : p.day >= p.received - MaxBackdate

-------------------------------------------------------------------------------
(* The invariant.                                                          *)

\* The values of a function with a finite domain.
LEMMA ImageFinite ==
    ASSUME NEW f, IsFiniteSet(DOMAIN f), f = [x \in DOMAIN f |-> f[x]]
    PROVE  IsFiniteSet({f[x] : x \in DOMAIN f})
<1> DEFINE T == {f[x] : x \in DOMAIN f}
<1>1. f \in Surjection(DOMAIN f, T)
  BY DEF Surjection
<1> QED BY <1>1, FS_Surjection

LEMMA InitInv == Init => IInv
<1> SUFFICES ASSUME Init PROVE IInv
  OBVIOUS
<1>1. IsStore(progress, Users \X Cards, Row) /\ DOMAIN progress = {}
  BY DEF Init, IsStore, Empty
<1> QED BY <1>1, FS_EmptySet, PeriodsAssumption DEF Init, IInv

\* An answer gives its user the day it was given on.
LEMMA AnswerInv ==
    ASSUME IInv, NEW u \in Users, NEW c \in Cards, NEW mark \in Marks, Answer(u, c, mark)
    PROVE  IInv'
<1> DEFINE k == <<u, c>>
           row == [day |-> today, mark |-> mark]
<1>1. /\ progress' = Put(progress, k, row) /\ UNCHANGED <<today, dailies, events, flushes>>
      /\ k \in Users \X Cards
  BY DEF Answer
<1>2. row \in Row
  BY PeriodsAssumption DEF IInv, Row
<1> HIDE DEF k, row
<1>3. IsStore(Put(progress, k, row), Users \X Cards, Row)
  BY <1>1, <1>2 DEF IInv, IsStore, Put
<1>4. IsFiniteSet(DOMAIN Put(progress, k, row))
  <2>1. DOMAIN Put(progress, k, row) = DOMAIN progress \cup {k}
    BY DEF Put
  <2> QED BY <2>1, FS_AddElement DEF IInv
<1> QED BY <1>1, <1>3, <1>4 DEF IInv, Row, FlushesOf

\* A claim moves rows and dates none.
LEMMA ClaimRows ==
    ASSUME IInv, NEW a \in Anons, NEW u \in Accounts, Claim(a, u)
    PROVE  /\ IsStore(progress', Users \X Cards, Row)
           /\ \A k \in DOMAIN progress' :
                 \/ k \in DOMAIN progress /\ progress'[k] = progress[k]
                 \/ /\ k[1] = u /\ <<a, k[2]>> \in DOMAIN progress
                    /\ progress'[k] = progress[<<a, k[2]>>]
<1> DEFINE moved == {c \in Cards : <<a, c>> \in DOMAIN progress /\ <<u, c>> \notin DOMAIN progress}
           kept == {k \in DOMAIN progress : k[1] # a}
<1>1. progress' = [k \in kept \cup ({u} \X moved) |->
                      IF k \in kept THEN progress[k] ELSE progress[<<a, k[2]>>]]
  BY DEF Claim
<1>2. \A k \in {u} \X moved : /\ k \in Users \X Cards /\ k[1] = u
                              /\ <<a, k[2]>> \in DOMAIN progress
  BY DEF Users
<1>3. \A k \in DOMAIN progress : k \in Users \X Cards /\ progress[k] \in Row
  BY DEF IInv, IsStore
<1>4. DOMAIN progress' = kept \cup ({u} \X moved)
  BY <1>1
<1>5. \A k \in kept : progress'[k] = progress[k] /\ k \in DOMAIN progress
  BY <1>1
<1>6. \A k \in ({u} \X moved) \ kept : progress'[k] = progress[<<a, k[2]>>]
  BY <1>1
<1>7. progress' = [k \in DOMAIN progress' |-> progress'[k]]
  BY <1>1
<1> HIDE DEF moved, kept
<1>8. \A k \in DOMAIN progress' :
          \/ k \in DOMAIN progress /\ progress'[k] = progress[k]
          \/ /\ k[1] = u /\ <<a, k[2]>> \in DOMAIN progress
             /\ progress'[k] = progress[<<a, k[2]>>]
  BY <1>2, <1>4, <1>5, <1>6
<1>9. \A k \in DOMAIN progress' : k \in Users \X Cards /\ progress'[k] \in Row
  BY <1>2, <1>3, <1>4, <1>5, <1>6
<1> QED BY <1>7, <1>8, <1>9 DEF IsStore

LEMMA ClaimInv ==
    ASSUME IInv, NEW a \in Anons, NEW u \in Accounts, Claim(a, u)
    PROVE  IInv'
<1> DEFINE K == DOMAIN progress
           f == [k \in K |-> <<u, k[2]>>]
<1>1. UNCHANGED <<today, dailies, events, flushes>>
  BY DEF Claim
<1>2. IsStore(progress', Users \X Cards, Row)
  BY ClaimRows
<1>3. IsFiniteSet(DOMAIN progress')
  <2>1. IsFiniteSet({f[k] : k \in DOMAIN f})
    <3>1. DOMAIN f = K /\ IsFiniteSet(K)
      BY DEF IInv
    <3> QED BY <3>1, ImageFinite
  <2>2. IsFiniteSet(K \cup {f[k] : k \in K})
    BY <2>1, FS_Union DEF IInv
  <2>3. DOMAIN progress' \subseteq K \cup {f[k] : k \in K}
    <3>1. ASSUME NEW k \in DOMAIN progress' PROVE k \in K \/ \E j \in K : k = f[j]
      <4>1. k \in Users \X Cards
        BY <1>2 DEF IsStore
      <4>2. k \in K \/ (k[1] = u /\ <<a, k[2]>> \in K)
        BY ClaimRows
      <4>3. k[1] = u => k = <<u, k[2]>>
        BY <4>1
      <4>4. <<a, k[2]>> \in K => f[<<a, k[2]>>] = <<u, k[2]>>
        OBVIOUS
      <4> QED BY <4>2, <4>3, <4>4
    <3> QED BY <3>1
  <2> QED BY <2>2, <2>3, FS_Subset
<1> QED BY <1>1, <1>2, <1>3 DEF IInv, Row, FlushesOf

LEMMA OtherStepsInv ==
    ASSUME IInv,
           \/ \E u \in Users : CompleteDaily(u) \/ \E d \in 0..MaxDay : Receive(u, d)
           \/ \E p \in flushes : Insert(p) \/ Lose(p)
           \/ Prune \/ NextDay
    PROVE  IInv'
<1> USE DEF IInv
<1>1. ASSUME NEW u \in Users, CompleteDaily(u) PROVE IInv'
  <2>1. dailies' = dailies \cup {<<u, today>>} /\ UNCHANGED <<today, progress, events, flushes>>
    BY <1>1 DEF CompleteDaily
  <2>2. IsFiniteSet(dailies')
    BY <2>1, FS_AddElement
  <2>3. dailies' \subseteq Users \X (0..today)
    BY <2>1, PeriodsAssumption
  <2> QED BY <2>1, <2>2, <2>3 DEF Row, FlushesOf
<1>2. ASSUME NEW u \in Users, NEW d \in 0..MaxDay, Receive(u, d) PROVE IInv'
  <2>1. /\ flushes' = flushes \cup {Flush(u, d)} /\ UNCHANGED <<today, progress, dailies, events>>
        /\ d \in 0..today /\ today \in 0..today /\ d >= today - MaxBackdate
    BY <1>2, PeriodsAssumption DEF Receive
  <2>2. Flush(u, d) \in FlushesOf /\ Flush(u, d).day >= Flush(u, d).received - MaxBackdate
    BY <2>1 DEF Flush, FlushesOf
  <2> HIDE DEF IInv
  <2>3. flushes' \subseteq FlushesOf' /\ \A p \in flushes' : p.day >= p.received - MaxBackdate
    BY <2>1, <2>2 DEF IInv, FlushesOf
  <2> QED BY <2>1, <2>3 DEF IInv, Row
<1>3. ASSUME NEW p \in flushes, Insert(p) PROVE IInv'
  <2>1. /\ events' = events \cup {<<p.user, p.day>>} /\ flushes' \subseteq flushes
        /\ UNCHANGED <<today, progress, dailies>>
    BY <1>3 DEF Insert
  <2>2. IsFiniteSet(events')
    BY <2>1, FS_AddElement
  <2>3. events' \subseteq Users \X (0..today)
    BY <2>1 DEF FlushesOf
  <2> QED BY <2>1, <2>2, <2>3 DEF Row, FlushesOf
<1>4. ASSUME NEW p \in flushes, Lose(p) PROVE IInv'
  <2>1. flushes' \subseteq flushes /\ UNCHANGED <<today, progress, dailies, events>>
    BY <1>4 DEF Lose
  <2> QED BY <2>1 DEF Row, FlushesOf
<1>5. CASE Prune
  <2>1. events' \subseteq events /\ UNCHANGED <<today, progress, dailies, flushes>>
    BY <1>5 DEF Prune
  <2>2. IsFiniteSet(events')
    BY <2>1, FS_Subset
  <2> QED BY <2>1, <2>2 DEF Row, FlushesOf
<1>6. CASE NextDay
  <2>1. today' = today + 1 /\ today' \in 0..MaxDay /\ UNCHANGED <<progress, dailies, events, flushes>>
    BY <1>6, PeriodsAssumption DEF NextDay
  <2>2. Row \subseteq Row' /\ 0..today \subseteq 0..today' /\ FlushesOf \subseteq FlushesOf'
    BY <2>1 DEF Row, FlushesOf
  <2>3. IsStore(progress', Users \X Cards, Row')
    BY <2>1, <2>2 DEF IsStore
  <2> QED BY <2>1, <2>2, <2>3
<1> QED BY <1>1, <1>2, <1>3, <1>4, <1>5, <1>6

\* The invariant behind the theorems below is inductive.
THEOREM Invariant == Spec => []IInv
<1>1. IInv /\ [Next]_vars => IInv'
  <2> SUFFICES ASSUME IInv, [Next]_vars PROVE IInv'
    OBVIOUS
  <2>1. CASE UNCHANGED vars
    BY <2>1 DEF vars, IInv, Row, FlushesOf
  <2>2. CASE Next
    BY <2>2, AnswerInv, ClaimInv, OtherStepsInv DEF Next, Marks
  <2> QED BY <2>1, <2>2
<1> QED BY <1>1, InitInv, PTL DEF Spec

-------------------------------------------------------------------------------
(* Active days.                                                            *)

LEMMA ActiveRows ==
    ASSUME NEW u, NEW d
    PROVE  <<u, d>> \in ActiveDays <=>
              \/ \E k \in DOMAIN progress : k[1] = u /\ progress[k].day = d
              \/ <<u, d>> \in dailies \/ <<u, d>> \in events
BY DEF ActiveDays

\* An event that arrived in time and is on its way to day d of user u.
OnItsWay(u, d) ==
    \E p \in flushes : p.user = u /\ p.day = d /\ d >= p.received - MaxBackdate

\* What a step adds to a day that is over for longer than an event may be late.
LEMMA LateSteps ==
    ASSUME IInv, [Next]_vars, NEW u \in Users, NEW d \in 0..(today - MaxBackdate - 1),
           <<u, d>> \in ActiveDays', <<u, d>> \notin ActiveDays
    PROVE  \/ u \in Accounts /\ \E a \in Anons : <<a, d>> \in ActiveDays
           \/ OnItsWay(u, d)
<1>t. today \in Nat /\ MaxBackdate \in Nat /\ d < today /\ d < today - MaxBackdate
  BY PeriodsAssumption DEF IInv
<1>r. \/ \E k \in DOMAIN progress' : k[1] = u /\ progress'[k].day = d
      \/ <<u, d>> \in dailies' \/ <<u, d>> \in events'
  BY DEF ActiveDays
<1>n. /\ \A k \in DOMAIN progress : ~(k[1] = u /\ progress[k].day = d)
      /\ <<u, d>> \notin dailies /\ <<u, d>> \notin events
  BY ActiveRows
<1>1. ASSUME NEW v \in Users, NEW c \in Cards, NEW mark \in Marks, Answer(v, c, mark) PROVE FALSE
  <2> DEFINE row == [day |-> today, mark |-> mark]
  <2>1. progress' = Put(progress, <<v, c>>, row) /\ dailies' = dailies /\ events' = events
    BY <1>1 DEF Answer
  <2>2. row.day = today
    OBVIOUS
  <2> HIDE DEF row
  <2>3. \A k \in DOMAIN progress' : progress'[k] = row \/ (k \in DOMAIN progress /\ progress'[k] = progress[k])
    BY <2>1 DEF Put
  <2> QED BY <1>t, <1>r, <1>n, <2>1, <2>2, <2>3
<1>2. ASSUME NEW v \in Users, CompleteDaily(v) PROVE FALSE
  BY <1>t, <1>r, <1>n, <1>2 DEF CompleteDaily
<1>3. ASSUME NEW v \in Users, NEW e \in 0..MaxDay, Receive(v, e) PROVE FALSE
  BY <1>r, <1>n, <1>3 DEF Receive
<1>6. ASSUME NEW p \in flushes, Insert(p) PROVE OnItsWay(u, d)
  <2>1. <<u, d>> = <<p.user, p.day>>
    BY <1>r, <1>n, <1>6 DEF Insert
  <2> QED BY <2>1 DEF IInv, OnItsWay
<1>7. ASSUME NEW p \in flushes, Lose(p) PROVE FALSE
  BY <1>r, <1>n, <1>7 DEF Lose
<1>4. ASSUME NEW a \in Anons, NEW v \in Accounts, Claim(a, v)
      PROVE  u \in Accounts /\ \E b \in Anons : <<b, d>> \in ActiveDays
  <2>1. dailies' = dailies /\ events' = events
    BY <1>4 DEF Claim
  <2>2. PICK k \in DOMAIN progress' : k[1] = u /\ progress'[k].day = d
    BY <1>r, <1>n, <2>1
  <2>3. /\ k[1] = v /\ <<a, k[2]>> \in DOMAIN progress
        /\ progress'[k] = progress[<<a, k[2]>>]
    BY <1>4, <1>n, <2>2, ClaimRows
  <2>4. <<a, d>> \in ActiveDays
    BY <2>2, <2>3, ActiveRows
  <2> QED BY <2>2, <2>3, <2>4
<1>5. CASE Prune \/ NextDay \/ UNCHANGED vars
  BY <1>r, <1>n, <1>5 DEF Prune, NextDay, vars
<1> QED BY <1>1, <1>2, <1>3, <1>4, <1>5, <1>6, <1>7 DEF Next, Marks

\* The reports of a day that is over for longer than an event may be late stay as
\* they are, but for an account that claims a session of that day and a user whose
\* event arrived in time and is inserted late (resolveAt, withDbRetry).
THEOREM DaysClosed == Spec => ClosedDaysStay
<1> DEFINE Closed ==
      \A d \in 0..(today - MaxBackdate - 1) : \A u \in ActiveOn(d)' \ ActiveOn(d) :
          \/ ~IsAnon(u) /\ \E a \in ActiveOn(d) : IsAnon(a)
          \/ \E p \in flushes : p.user = u /\ p.day = d /\ d >= p.received - MaxBackdate
<1>1. IInv /\ [Next]_vars => Closed
  <2> SUFFICES ASSUME IInv, [Next]_vars, NEW d \in 0..(today - MaxBackdate - 1),
                      NEW u \in ActiveOn(d)' \ ActiveOn(d)
               PROVE  (~IsAnon(u) /\ \E a \in ActiveOn(d) : IsAnon(a)) \/ OnItsWay(u, d)
    BY DEF OnItsWay
  <2>1. u \in Users /\ <<u, d>> \in ActiveDays' /\ <<u, d>> \notin ActiveDays
    BY DEF ActiveOn
  <2>2. (u \in Accounts /\ \E a \in Anons : <<a, d>> \in ActiveDays) \/ OnItsWay(u, d)
    BY <2>1, LateSteps
  <2> QED BY <2>2, UsersAssumption DEF ActiveOn, IsAnon, Users
<1>2. IInv /\ [Next]_vars => [Closed]_vars
  BY <1>1
<1> QED BY <1>2, Invariant, PTL DEF Spec, ClosedDaysStay

-------------------------------------------------------------------------------
(* The largest and the smallest of bounded days.                           *)

\* The smallest of some naturals.
LEMMA LeastNat ==
    ASSUME NEW T, T \subseteq Nat, T # {}
    PROVE  Min(T) \in T /\ \A y \in T : Min(T) <= y
<1> DEFINE R == {ss \in Nat \X Nat : ss[1] < ss[2]}
<1>1. IsWellFoundedOn(R, Nat)
  BY NatLessThanWellFounded DEF OpToRel
<1>2. \A x, y \in Nat : y < x => <<y, x>> \in R
  OBVIOUS
<1> HIDE DEF R
<1>3. PICK x \in T : \A y \in T : <<y, x>> \notin R
  BY <1>1, WFMin
<1>4. \A y \in T : x <= y
  <2> SUFFICES ASSUME NEW y \in T PROVE x <= y
    OBVIOUS
  <2>1. ~(y < x)
    BY <1>2, <1>3
  <2> QED BY <2>1
<1> QED BY <1>4 DEF Min

\* The largest of some naturals with a bound: the least that is above all of them.
LEMMA LargestNat ==
    ASSUME NEW b \in Nat, NEW S, S \subseteq 0..b, S # {}
    PROVE  Max(S) \in S /\ \A y \in S : y <= Max(S)
<1> DEFINE Above == {n \in Nat : \A y \in S : y <= n}
           m == Min(Above)
<1>1. b \in Above
  OBVIOUS
<1>2. m \in Above /\ \A n \in Above : m <= n
  <2>1. Above \subseteq Nat /\ Above # {}
    BY <1>1
  <2> HIDE DEF Above
  <2> QED BY <2>1, LeastNat
<1>3. m \in Nat /\ \A y \in S : y <= m
  BY <1>2
<1>4. m \in S
  <2>1. SUFFICES ASSUME m \notin S PROVE FALSE
    OBVIOUS
  <2>2. \A y \in S : y <= m - 1 /\ y >= 0
    BY <1>3, <2>1
  <2>3. m - 1 >= 0
    <3>1. PICK y \in S : TRUE
      OBVIOUS
    <3> QED BY <1>3, <2>2, <3>1
  <2>4. m - 1 \in Above
    BY <1>3, <2>2, <2>3
  <2> QED BY <1>2, <1>3, <2>4
<1> HIDE DEF m
<1>5. \E x \in S : \A y \in S : x >= y
  BY <1>3, <1>4
<1> QED BY <1>5 DEF Max

LEMMA LargestIs ==
    ASSUME NEW S, S \subseteq Int, NEW m \in S, \A y \in S : y <= m
    PROVE  Max(S) = m
<1> DEFINE x == Max(S)
<1>1. x \in S /\ \A y \in S : x >= y
  <2>1. \E z \in S : \A y \in S : z >= y
    OBVIOUS
  <2> QED BY <2>1 DEF Max
<1> HIDE DEF x
<1>2. x = m
  BY <1>1
<1> QED BY <1>2 DEF x

LEMMA SmallerOfTwo ==
    ASSUME NEW a \in Int, NEW b \in Int
    PROVE  Min({a, b}) = IF a <= b THEN a ELSE b
<1>1. Min({a, b}) \in {a, b} /\ \A y \in {a, b} : Min({a, b}) <= y
  <2>1. \E x \in {a, b} : \A y \in {a, b} : x =< y
    OBVIOUS
  <2> QED BY <2>1 DEF Min
<1> QED BY <1>1

-------------------------------------------------------------------------------
(* The streak.                                                             *)

\* The streak of who practised on the days D, on day t.
Runs(D, recent) == {n \in 1..StreakRows : (recent - n + 1)..recent \subseteq D}
StreakOf(D, t) ==
    IF D = {} \/ t - Max(D) > 1 THEN 0 ELSE Max(Runs(D, Max(D)))

LEMMA LongestRun ==
    ASSUME NEW D, NEW r \in D, r \in Int
    PROVE  /\ Max(Runs(D, r)) \in 1..StreakRows
           /\ (r - Max(Runs(D, r)) + 1)..r \subseteq D
           /\ \A n \in 1..StreakRows : (r - n + 1)..r \subseteq D => n <= Max(Runs(D, r))
<1>1. Runs(D, r) \subseteq 0..StreakRows
  BY DEF Runs
<1>2. 1 \in Runs(D, r)
  BY PeriodsAssumption DEF Runs
<1>3. StreakRows \in Nat
  BY PeriodsAssumption
<1>4. Max(Runs(D, r)) \in Runs(D, r) /\ \A n \in Runs(D, r) : n <= Max(Runs(D, r))
  BY <1>1, <1>2, <1>3, LargestNat
<1> DEFINE m == Max(Runs(D, r))
<1> HIDE DEF m
<1>5. m \in Runs(D, r) /\ \A n \in Runs(D, r) : n <= m
  BY <1>4 DEF m
<1>6. /\ m \in 1..StreakRows /\ (r - m + 1)..r \subseteq D
      /\ \A n \in 1..StreakRows : (r - n + 1)..r \subseteq D => n <= m
  BY <1>5 DEF Runs
<1> QED BY <1>6 DEF m

\* Midnight: the streak of who practised on the day that ends stays, others have none.
LEMMA StreakAtMidnight ==
    ASSUME NEW t \in Nat, NEW D, D \subseteq 0..t
    PROVE  StreakOf(D, t + 1) = IF t \in D THEN StreakOf(D, t) ELSE 0
<1>1. CASE D = {}
  BY <1>1 DEF StreakOf
<1>2. CASE D # {}
  <2> DEFINE r == Max(D)
             tomorrow == t + 1
  <2>1. r \in D /\ \A d \in D : d <= r
    BY <1>2, LargestNat
  <2>2. ~(t - r > 1) => StreakOf(D, t) = Max(Runs(D, r))
    BY <1>2 DEF StreakOf
  <2> HIDE DEF tomorrow
  <2>3. ~(tomorrow - r > 1) => StreakOf(D, tomorrow) = Max(Runs(D, r))
    BY <1>2 DEF StreakOf
  <2>4. tomorrow - r > 1 => StreakOf(D, tomorrow) = 0
    BY DEF StreakOf
  <2> HIDE DEF r
  <2>5. t \in D => ~(tomorrow - r > 1) /\ ~(t - r > 1)
    BY <2>1 DEF tomorrow
  <2>6. t \notin D => tomorrow - r > 1
    BY <2>1 DEF tomorrow
  <2>7. StreakOf(D, tomorrow) = IF t \in D THEN StreakOf(D, t) ELSE 0
    BY <2>2, <2>3, <2>4, <2>5, <2>6
  <2> QED BY <2>7 DEF tomorrow
<1> QED BY <1>1, <1>2

\* The first practice of a day adds one, up to the limit.
LEMMA StreakPractised ==
    ASSUME NEW t \in Nat, NEW D, D \subseteq 0..t, t \notin D
    PROVE  StreakOf(D \cup {t}, t) = Min({StreakOf(D, t) + 1, StreakRows})
<1> DEFINE E == D \cup {t}
           e == Max(Runs(E, t))
<1>0. StreakRows \in Nat /\ StreakRows >= 1
  BY PeriodsAssumption
<1>1. Max(E) = t
  <2>1. E \subseteq Int /\ t \in E /\ \A y \in E : y <= t
    OBVIOUS
  <2> QED BY <2>1, LargestIs
<1>2. StreakOf(E, t) = e
  BY <1>1 DEF StreakOf
<1>3. /\ e \in 1..StreakRows /\ (t - e + 1)..t \subseteq E
      /\ \A n \in 1..StreakRows : (t - n + 1)..t \subseteq E => n <= e
  BY LongestRun
<1> HIDE DEF e
<1>4. CASE D = {} \/ t - Max(D) > 1
  <2>1. StreakOf(D, t) = 0
    BY <1>4 DEF StreakOf
  <2>2. t - 1 \notin D
    <3>1. D # {} => Max(D) \in 0..t /\ \A d \in D : d <= Max(D)
      BY LargestNat
    <3> QED BY <1>4, <3>1
  <2>3. e = 1
    <3>1. e >= 2 => t - 1 \in (t - e + 1)..t
      BY <1>3
    <3>2. t - 1 \notin E
      BY <2>2
    <3> QED BY <1>3, <3>1, <3>2
  <2> QED BY <1>0, <1>2, <2>1, <2>3, SmallerOfTwo
<1>5. CASE D # {} /\ ~(t - Max(D) > 1)
  <2> DEFINE r == Max(D)
             n == Max(Runs(D, r))
  <2>1. r \in D /\ r = t - 1
    <3>1. r \in D /\ \A d \in D : d <= r
      BY <1>5, LargestNat
    <3>2. ~(t - r > 1)
      BY <1>5
    <3> HIDE DEF r
    <3> QED BY <3>1, <3>2
  <2>2. StreakOf(D, t) = n
    BY <1>5 DEF StreakOf
  <2> HIDE DEF r
  <2>3. /\ n \in 1..StreakRows /\ (r - n + 1)..r \subseteq D
        /\ \A m \in 1..StreakRows : (r - m + 1)..r \subseteq D => m <= n
    BY <2>1, LongestRun
  <2> HIDE DEF n
  <2>4. e <= n + 1
    <3>1. CASE e = 1
      BY <2>3, <3>1
    <3>2. CASE e # 1
      <4>1. e - 1 \in 1..StreakRows
        BY <1>0, <1>3, <3>2
      <4>2. ASSUME NEW d \in (r - (e - 1) + 1)..r PROVE d \in D
        <5>1. d \in (t - e + 1)..t /\ d # t
          BY <1>3, <2>1, <4>1
        <5> QED BY <1>3, <5>1
      <4>3. e - 1 <= n
        BY <2>3, <4>1, <4>2
      <4> QED BY <1>3, <2>3, <4>3
    <3> QED BY <3>1, <3>2
  <2>5. ASSUME NEW m \in 1..StreakRows, m <= n + 1 PROVE m <= e
    <3>1. ASSUME NEW d \in (t - m + 1)..t PROVE d \in E
      <4>1. d = t \/ d \in (r - n + 1)..r
        BY <2>1, <2>3, <2>5
      <4> QED BY <2>3, <4>1
    <3> QED BY <1>3, <3>1
  <2>6. n + 1 <= StreakRows => e = n + 1
    BY <1>3, <2>3, <2>4, <2>5
  <2>7. ~(n + 1 <= StreakRows) => e = StreakRows
    BY <1>0, <1>3, <2>3, <2>5
  <2> QED BY <1>0, <1>2, <2>2, <2>3, <2>6, <2>7, SmallerOfTwo
<1> QED BY <1>4, <1>5

\* More days never make a streak shorter.
LEMMA StreakGrows ==
    ASSUME NEW t \in Nat, NEW D, NEW E, D \subseteq E, E \subseteq 0..t
    PROVE  StreakOf(E, t) >= StreakOf(D, t)
<1>0. StreakRows \in Nat /\ StreakRows >= 1
  BY PeriodsAssumption
<1>1. ASSUME E # {} PROVE StreakOf(E, t) \in Nat
  <2> DEFINE s == Max(E)
  <2>1. s \in E
    BY <1>1, LargestNat
  <2>2. StreakOf(E, t) \in {0, Max(Runs(E, s))}
    BY DEF StreakOf
  <2> HIDE DEF s
  <2>3. Max(Runs(E, s)) \in 1..StreakRows
    BY <2>1, LongestRun
  <2> QED BY <2>2, <2>3
<1>2. CASE D = {} \/ t - Max(D) > 1
  <2>1. StreakOf(D, t) = 0 /\ (E = {} => StreakOf(E, t) = 0)
    BY <1>2 DEF StreakOf
  <2> QED BY <1>1, <2>1
<1>3. CASE D # {} /\ ~(t - Max(D) > 1)
  <2> DEFINE r == Max(D)
             s == Max(E)
             n == Max(Runs(D, r))
             m == Max(Runs(E, s))
  <2>1. r \in D /\ s \in E /\ \A d \in E : d <= s
    BY <1>3, LargestNat
  <2>2. StreakOf(D, t) = n /\ ~(t - r > 1)
    BY <1>3 DEF StreakOf
  <2>3. ~(t - s > 1) => StreakOf(E, t) = m
    BY <1>3 DEF StreakOf
  <2> HIDE DEF r, s
  <2>4. r \in 0..t /\ s \in 0..t /\ r <= s /\ r >= t - 1
    BY <2>1, <2>2
  <2>5. n \in 1..StreakRows /\ (r - n + 1)..r \subseteq D
    BY <2>1, <2>4, LongestRun
  <2>6. /\ m \in 1..StreakRows
        /\ \A i \in 1..StreakRows : (s - i + 1)..s \subseteq E => i <= m
    BY <2>1, <2>4, LongestRun
  <2>7. ~(t - s > 1)
    BY <2>4
  <2> HIDE DEF n, m
  <2>8. ASSUME NEW d \in (s - n + 1)..s PROVE d \in E
    <3>1. d = s \/ d \in (r - n + 1)..r
      BY <2>4, <2>5
    <3> QED BY <2>1, <2>5, <3>1
  <2> QED BY <2>2, <2>3, <2>5, <2>6, <2>8, <2>7
<1> QED BY <1>2, <1>3

\* Nobody practised on a day to come.
LEMMA PracticePast == IInv => \A u \in Users : PracticeDays(u) \subseteq 0..today
BY DEF IInv, IsStore, Row, PracticeDays

\* At midnight nothing but the date changes.
LEMMA Midnight == IInv /\ [Next]_vars /\ today' = today + 1 => UNCHANGED progress
<1> SUFFICES ASSUME IInv, [Next]_vars, today' # today PROVE UNCHANGED progress
  BY DEF IInv
<1>1. ASSUME NEW u \in Users, NEW c \in Cards, NEW mark \in Marks, Answer(u, c, mark) PROVE FALSE
  BY <1>1 DEF Answer
<1>2. ASSUME NEW u \in Users, CompleteDaily(u) PROVE FALSE
  BY <1>2 DEF CompleteDaily
<1>3. ASSUME NEW u \in Users, NEW d \in 0..MaxDay, Receive(u, d) PROVE FALSE
  BY <1>3 DEF Receive
<1>6. ASSUME NEW p \in flushes, Insert(p) \/ Lose(p) PROVE FALSE
  BY <1>6 DEF Insert, Lose
<1>4. ASSUME NEW a \in Anons, NEW u \in Accounts, Claim(a, u) PROVE FALSE
  BY <1>4 DEF Claim
<1>5. CASE Prune \/ NextDay \/ UNCHANGED vars
  BY <1>5 DEF Prune, NextDay, vars
<1> QED BY <1>1, <1>2, <1>3, <1>4, <1>5, <1>6 DEF Next, Marks

\* The streak counts from day to day as a user would.
THEOREM StreakIsCounted == Spec => StreakCounts
<1> DEFINE Counted ==
      \A u \in Users :
          LET days == PracticeDays(u)
          IN  /\ today' = today + 1 => Streak(u)' = IF today \in days THEN Streak(u) ELSE 0
              /\ today' = today =>
                    /\ PracticeDays(u)' = days \cup {today} /\ today \notin days
                          => Streak(u)' = Min({Streak(u) + 1, StreakRows})
                    /\ days = PracticeDays(u)' => Streak(u)' = Streak(u)
                    /\ days \subseteq PracticeDays(u)' => Streak(u)' >= Streak(u)
<1>1. IInv /\ IInv' /\ [Next]_vars => Counted
  <2> SUFFICES ASSUME IInv, IInv', [Next]_vars, NEW u \in Users
      PROVE  /\ today' = today + 1 =>
                   Streak(u)' = IF today \in PracticeDays(u) THEN Streak(u) ELSE 0
             /\ today' = today =>
                   /\ PracticeDays(u)' = PracticeDays(u) \cup {today} /\ today \notin PracticeDays(u)
                         => Streak(u)' = Min({Streak(u) + 1, StreakRows})
                   /\ PracticeDays(u) = PracticeDays(u)' => Streak(u)' = Streak(u)
                   /\ PracticeDays(u) \subseteq PracticeDays(u)' => Streak(u)' >= Streak(u)
    OBVIOUS
  <2> DEFINE D == PracticeDays(u)
             E == PracticeDays(u)'
  <2>1. /\ Streak(u) = StreakOf(D, today) /\ Streak(u)' = StreakOf(E, today')
        /\ today \in Nat
    BY PeriodsAssumption DEF IInv, Streak, StreakOf, Runs
  <2>2. D \subseteq 0..today
    BY PracticePast
  <2>3. E \subseteq 0..today'
    BY DEF IInv, IsStore, Row, PracticeDays
  <2>4. today' = today + 1 => E = D
    BY Midnight DEF PracticeDays
  <2> HIDE DEF D, E
  <2>5. today' = today + 1 => Streak(u)' = IF today \in D THEN Streak(u) ELSE 0
    BY <2>1, <2>2, <2>4, StreakAtMidnight
  <2>6. today' = today /\ E = D \cup {today} /\ today \notin D
           => Streak(u)' = Min({Streak(u) + 1, StreakRows})
    BY <2>1, <2>2, StreakPractised
  <2>7. today' = today /\ D \subseteq E => Streak(u)' >= Streak(u)
    BY <2>1, <2>3, StreakGrows
  <2>8. today' = today /\ D = E => Streak(u)' = Streak(u)
    BY <2>1
  <2> QED BY <2>5, <2>6, <2>7, <2>8 DEF D, E
<1>2. IInv /\ IInv' /\ [Next]_vars => [Counted]_vars
  BY <1>1
<1> QED BY <1>2, Invariant, PTL DEF Spec, StreakCounts

-------------------------------------------------------------------------------
(* Whole weeks.                                                            *)

LEMMA Quotient ==
    ASSUME NEW a \in Int, NEW n \in Nat, n > 0
    PROVE  a \div n \in Int /\ n * (a \div n) <= a /\ a < n * (a \div n) + n
<1>1. a \div n \in Int
  OBVIOUS
<1>2. a - n * (a \div n) \in 0..(n - 1)
  BY SMTT(30)
<1> DEFINE x == n * (a \div n)
<1>3. x \in Int
  BY <1>1
<1>4. a - x \in 0..(n - 1)
  BY <1>2
<1> HIDE DEF x
<1>5. x <= a /\ a < x + n
  BY <1>3, <1>4
<1> QED BY <1>1, <1>5 DEF x

\* Of two multiples of n, the larger is larger by n at least.
LEMMA NextMultiple ==
    ASSUME NEW x \in Int, NEW y \in Int, NEW n \in Nat, x < y
    PROVE  n * x + n <= n * y
<1>1. PICK z \in Nat : y = x + 1 + z
  <2>1. y - x - 1 \in Nat /\ y = x + 1 + (y - x - 1)
    OBVIOUS
  <2> QED BY <2>1
<1>2. n * y = n * x + n + n * z
  BY <1>1
<1>3. n * z >= 0 /\ n * x \in Int /\ n * y \in Int /\ n * z \in Int
  OBVIOUS
<1> QED BY <1>2, <1>3

LEMMA QuotientGrows ==
    ASSUME NEW a \in Int, NEW b \in Int, NEW n \in Nat, n > 0, a <= b
    PROVE  a \div n <= b \div n
<1> DEFINE p == a \div n
           q == b \div n
<1>1. p \in Int /\ n * p <= a
  BY Quotient
<1>2. q \in Int /\ b < n * q + n
  BY Quotient
<1> HIDE DEF p, q
<1>3. ~(q < p)
  <2>1. q < p => n * q + n <= n * p
    BY <1>1, <1>2, NextMultiple
  <2>2. n * q \in Int /\ n * p \in Int
    BY <1>1, <1>2
  <2> QED BY <1>1, <1>2, <2>1, <2>2
<1>4. p <= q
  BY <1>1, <1>2, <1>3
<1> QED BY <1>4 DEF p, q

\* A quotient lies below what its dividend lies below a multiple of.
LEMMA QuotientBelow ==
    ASSUME NEW a \in Int, NEW m \in Int, NEW n \in Nat, n > 0, a < n * m + n
    PROVE  a \div n <= m
<1> DEFINE p == a \div n
<1>1. p \in Int /\ n * p <= a
  BY Quotient
<1> HIDE DEF p
<1>2. ~(m < p)
  <2>1. m < p => n * m + n <= n * p
    BY <1>1, NextMultiple
  <2>2. n * m \in Int /\ n * p \in Int
    BY <1>1
  <2> QED BY <1>1, <2>1, <2>2
<1>3. p <= m
  BY <1>1, <1>2
<1> QED BY <1>3 DEF p

\* A week begins on one of the seven days up to any of its days.
LEMMA WeekBegins ==
    ASSUME NEW d \in Int
    PROVE  /\ WeekOf(d) \in Int /\ WeekOf(d) <= d /\ d < WeekOf(d) + Week
           /\ d >= 0 => WeekOf(d) >= 0
<1>1. Week \in Nat /\ Week > 0
  BY PeriodsAssumption
<1>2. d % Week \in 0..(Week - 1)
  BY <1>1
<1>3. d >= 0 => d % Week <= d
  <2> DEFINE q == d \div Week
             x == Week * q
  <2>1. q \in Int /\ x <= d /\ d < x + Week /\ x \in Int
    BY <1>1, Quotient
  <2>2. d >= 0 => x >= 0
    <3>1. q < 0 => x + Week <= 0
      <4>1. q < 0 => Week * q + Week <= Week * 0
        BY <1>1, <2>1, NextMultiple
      <4> QED BY <1>1, <4>1
    <3>2. q >= 0 => x >= 0
      BY <1>1, <2>1
    <3> QED BY <1>1, <2>1, <3>1, <3>2
  <2>3. d % Week = d - x
    <3> DEFINE r == d - x
    <3>1. r \in 0..(Week - 1) /\ d = Week * q + r
      BY <1>1, <2>1
    <3> HIDE DEF q, r
    <3>2. d % Week = r
      BY <1>1, <2>1, <3>1, SMTT(30)
    <3> QED BY <3>2 DEF r
  <2> QED BY <2>1, <2>2, <2>3
<1> QED BY <1>1, <1>2, <1>3 DEF WeekOf

-------------------------------------------------------------------------------
(* Retention.                                                              *)

\* There are finitely many active days, none of them to come.
LEMMA ActivePast ==
    IInv => IsFiniteSet(ActiveDays) /\ ActiveDays \subseteq Users \X (0..today)
<1> SUFFICES ASSUME IInv PROVE IsFiniteSet(ActiveDays) /\ ActiveDays \subseteq Users \X (0..today)
  OBVIOUS
<1> DEFINE K == DOMAIN progress
           f == [k \in K |-> <<k[1], progress[k].day>>]
<1>1. IsFiniteSet({f[k] : k \in DOMAIN f})
  <2>1. DOMAIN f = K /\ IsFiniteSet(K)
    BY DEF IInv
  <2> QED BY <2>1, ImageFinite
<1>2. ActiveDays = {f[k] : k \in DOMAIN f} \cup dailies \cup events
  BY DEF ActiveDays
<1>3. IsFiniteSet(ActiveDays)
  BY <1>1, <1>2, FS_Union DEF IInv
<1>4. \A k \in K : f[k] \in Users \X (0..today)
  BY DEF IInv, IsStore, Row
<1> HIDE DEF f
<1>5. ActiveDays \subseteq Users \X (0..today)
  BY <1>2, <1>4 DEF IInv, f
<1> QED BY <1>3, <1>5

LEMMA EverActiveFinite == IInv => IsFiniteSet(EverActive)
<1> SUFFICES ASSUME IInv PROVE IsFiniteSet(EverActive)
  OBVIOUS
<1> DEFINE f == [p \in ActiveDays |-> p[1]]
<1>1. IsFiniteSet({f[p] : p \in DOMAIN f})
  BY ActivePast, ImageFinite
<1>2. EverActive = {f[p] : p \in DOMAIN f}
  BY DEF EverActive
<1> QED BY <1>1, <1>2

\* Whoever was ever active has a first day.
LEMMA FirstOfDays ==
    ASSUME IInv, NEW u \in EverActive
    PROVE  /\ DaysOf(u) \subseteq 0..today /\ FirstDay(u) \in DaysOf(u)
           /\ \A d \in DaysOf(u) : FirstDay(u) <= d
<1>1. ActiveDays \subseteq Users \X (0..today)
  BY ActivePast
<1>2. DaysOf(u) \subseteq 0..today
  BY <1>1 DEF DaysOf
<1>3. DaysOf(u) # {}
  BY DEF EverActive, DaysOf
<1>4. DaysOf(u) \subseteq Nat
  BY <1>2, PeriodsAssumption DEF IInv
<1> QED BY <1>2, <1>3, <1>4, LeastNat DEF FirstDay

\* The members of a cohort, and how far back they may have come first.
LEMMA CohortMember ==
    ASSUME IInv, NEW w, NEW u \in Cohort(w)
    PROVE  /\ u \in EverActive /\ w \in 0..FirstDay(u) /\ FirstDay(u) \in 0..today
           /\ today - FirstDay(u) < Week * Weeks + Week
<1> DEFINE f == FirstDay(u)
           span == Week * Weeks
<1>1. u \in EverActive /\ WeekOf(f) = w /\ f >= WeekOf(today - Weeks * Week)
  BY DEF Cohort, CohortOf
<1>2. f \in 0..today /\ today \in Nat
  BY <1>1, FirstOfDays, PeriodsAssumption DEF IInv
<1>3. Week \in Nat /\ Week > 0 /\ span \in Int /\ Weeks * Week = span
  BY PeriodsAssumption
<1> HIDE DEF f, span
<1>4. w \in 0..f
  BY <1>1, <1>2, WeekBegins
<1>5. f >= WeekOf(today - span)
  BY <1>1, <1>3
<1>6. today - f < span + Week
  <2>1. today - span \in Int
    BY <1>2, <1>3
  <2>2. WeekOf(today - span) \in Int /\ today - span < WeekOf(today - span) + Week
    BY <2>1, WeekBegins
  <2> QED BY <1>2, <1>3, <1>5, <2>2
<1> QED BY <1>1, <1>2, <1>4, <1>6 DEF f, span

\* A week somebody is counted in has happened, and is one of the grid's.
LEMMA HitWeek ==
    ASSUME IInv, NEW w, NEW i, Hits(w, i) # {}
    PROVE  i <= Elapsed(w) /\ i <= Weeks
<1>1. PICK u \in Cohort(w) : \E d \in DaysOf(u) : (d - FirstDay(u)) \div Week = i
  BY DEF Hits
<1>2. PICK d \in DaysOf(u) : (d - FirstDay(u)) \div Week = i
  BY <1>1
<1> DEFINE f == FirstDay(u)
           span == Week * Weeks
<1>3. u \in EverActive /\ w \in 0..f /\ f \in 0..today /\ today - f < span + Week
  BY CohortMember
<1>4. d \in 0..today /\ f <= d
  BY <1>3, FirstOfDays
<1>5. Week \in Nat /\ Week > 0 /\ Weeks \in Nat /\ today \in Nat /\ span \in Int
  BY PeriodsAssumption DEF IInv
<1>6. (d - f) \div Week = i
  BY <1>2
<1> HIDE DEF f
<1>7. i <= Elapsed(w)
  <2>1. d - f \in Int /\ today - w \in Int /\ d - f <= today - w
    BY <1>3, <1>4, <1>5
  <2> QED BY <1>5, <1>6, <2>1, QuotientGrows DEF Elapsed
<1>8. i <= Weeks
  <2> HIDE DEF span
  <2>1. d - f \in Int /\ d - f < span + Week
    BY <1>3, <1>4, <1>5
  <2> USE DEF span
  <2> QED BY <1>5, <1>6, <2>1, QuotientBelow
<1> QED BY <1>7, <1>8

\* The grid reaches to every week somebody is counted in.
LEMMA GridWidth ==
    ASSUME IInv
    PROVE  /\ MaxWeekOffset \in 0..Weeks
           /\ \A w \in Cohorts : \A i \in 0..MaxDay : Hits(w, i) # {} => i <= MaxWeekOffset
<1> DEFINE hit == {i \in 0..MaxDay : \E w \in Cohorts : Hits(w, i) # {}}
           widest == {Elapsed(w) : w \in Cohorts}
           all == {0} \cup hit \cup widest
           widthOfAll == Max(all)
<1>1. MaxDay \in Nat /\ Weeks \in Nat /\ Week \in Nat /\ Week > 0 /\ today \in 0..MaxDay
  BY PeriodsAssumption DEF IInv
<1>2. ASSUME NEW w \in Cohorts PROVE Elapsed(w) \in 0..MaxDay
  <2>1. PICK u \in Cohort(w) : TRUE
    BY DEF Cohorts
  <2>2. w \in 0..today
    BY <2>1, <1>1, CohortMember
  <2> DEFINE e == (today - w) \div Week
  <2>3. e \in Int /\ Week * e <= today - w /\ today - w < Week * e + Week
    BY <1>1, <2>2, Quotient
  <2> HIDE DEF e
  <2>4. e >= 0
    <3>1. e < 0 => Week * e + Week <= Week * 0
      BY <1>1, <2>3, NextMultiple
    <3>2. Week * e \in Int /\ Week * 0 = 0
      BY <1>1, <2>3
    <3> QED BY <1>1, <2>2, <2>3, <3>1, <3>2
  <2>5. e <= MaxDay
    <3>1. e <= Week * e
      BY <1>1, <2>3, <2>4
    <3>2. Week * e \in Int
      BY <1>1, <2>3
    <3> QED BY <1>1, <2>2, <2>3, <3>1, <3>2
  <2> QED BY <2>3, <2>4, <2>5, <1>1 DEF Elapsed, e
<1>3. all \subseteq 0..MaxDay /\ all # {}
  BY <1>1, <1>2
<1>4. widthOfAll \in all /\ \A y \in all : y <= widthOfAll
  <2> HIDE DEF all
  <2> QED BY <1>1, <1>3, LargestNat
<1>5. MaxWeekOffset = Min({widthOfAll, Weeks})
  BY DEF MaxWeekOffset
<1>6. \A w \in Cohorts : \A i \in 0..MaxDay : Hits(w, i) # {} => i <= widthOfAll /\ i <= Weeks
  <2> SUFFICES ASSUME NEW w \in Cohorts, NEW i \in 0..MaxDay, Hits(w, i) # {}
               PROVE  i <= widthOfAll /\ i <= Weeks
    OBVIOUS
  <2>1. i \in all
    OBVIOUS
  <2> QED BY <1>4, <2>1, HitWeek
<1>7. widthOfAll \in 0..MaxDay
  BY <1>3, <1>4
<1> HIDE DEF widthOfAll
<1>8. MaxWeekOffset = IF widthOfAll <= Weeks THEN widthOfAll ELSE Weeks
  BY <1>1, <1>5, <1>7, SmallerOfTwo
<1> QED BY <1>1, <1>6, <1>7, <1>8

\* The cells of a row: the cohort first, never more than it, and blank for the future.
LEMMA RowOfGrid ==
    ASSUME IInv, NEW w \in Cohorts
    PROVE  /\ Cells(w)[0] = Cardinality(Cohort(w))
           /\ \A i \in 0..MaxWeekOffset : Cells(w)[i] <= Cells(w)[0]
           /\ \A i \in 0..MaxDay : Hits(w, i) # {} => i <= MaxWeekOffset /\ Cells(w)[i] > 0
           /\ \A i \in 0..MaxWeekOffset :
                 Cells(w)[i] = -1 => \A u \in Cohort(w) : FirstDay(u) + i * Week > today
<1>1. /\ Week \in Nat /\ Week > 0 /\ Weeks \in Nat /\ today \in Nat
      /\ MaxWeekOffset \in Nat
  BY GridWidth, PeriodsAssumption DEF IInv
<1>2. w \in 0..today
  <2>1. PICK u \in Cohort(w) : TRUE
    BY DEF Cohorts
  <2> QED BY <1>1, <2>1, CohortMember
<1>3. /\ Elapsed(w) \in Int
      /\ Week * Elapsed(w) <= today - w /\ today - w < Week * Elapsed(w) + Week
  BY <1>1, <1>2, Quotient DEF Elapsed
<1>4. IsFiniteSet(Cohort(w)) /\ Cardinality(Cohort(w)) \in Nat
  BY EverActiveFinite, FS_Subset, FS_CardinalityType DEF Cohort
<1>5. \A i : /\ Hits(w, i) \subseteq Cohort(w) /\ Cardinality(Hits(w, i)) \in Nat
             /\ Cardinality(Hits(w, i)) <= Cardinality(Cohort(w))
             /\ Hits(w, i) # {} => Cardinality(Hits(w, i)) > 0
  <2> SUFFICES ASSUME NEW i
      PROVE  /\ Hits(w, i) \subseteq Cohort(w) /\ Cardinality(Hits(w, i)) \in Nat
             /\ Cardinality(Hits(w, i)) <= Cardinality(Cohort(w))
             /\ Hits(w, i) # {} => Cardinality(Hits(w, i)) > 0
    OBVIOUS
  <2>1. Hits(w, i) \subseteq Cohort(w)
    BY DEF Hits
  <2>2. /\ IsFiniteSet(Hits(w, i)) /\ Cardinality(Hits(w, i)) <= Cardinality(Cohort(w))
        /\ Cardinality(Hits(w, i)) \in Nat
    BY <1>4, <2>1, FS_Subset, FS_CardinalityType
  <2>3. Hits(w, i) # {} => Cardinality(Hits(w, i)) # 0
    BY <2>2, FS_EmptySet
  <2> QED BY <2>1, <2>2, <2>3
<1>6. Hits(w, 0) = Cohort(w)
  <2>1. ASSUME NEW u \in Cohort(w) PROVE \E d \in DaysOf(u) : (d - FirstDay(u)) \div Week = 0
    <3>1. FirstDay(u) \in DaysOf(u) /\ FirstDay(u) \in Nat
      BY <1>1, CohortMember, FirstOfDays
    <3>2. (FirstDay(u) - FirstDay(u)) \div Week = 0
      <4>1. 0 \div Week = 0
        BY <1>1, SMTT(30)
      <4> QED BY <3>1, <4>1
    <3> QED BY <3>1, <3>2
  <2> QED BY <2>1 DEF Hits
<1>7. Elapsed(w) >= 0
  <2>1. Elapsed(w) < 0 => Week * Elapsed(w) + Week <= Week * 0
    BY <1>1, <1>3, NextMultiple
  <2>2. Week * Elapsed(w) \in Int /\ Week * 0 = 0
    BY <1>1, <1>3
  <2> QED BY <1>1, <1>2, <1>3, <2>1, <2>2
<1>8. \A i \in 0..MaxWeekOffset :
         Cells(w)[i] = IF i <= Elapsed(w) THEN Cardinality(Hits(w, i)) ELSE -1
  BY DEF Cells
<1>9. Cells(w)[0] = Cardinality(Cohort(w))
  BY <1>1, <1>6, <1>7, <1>8
<1>10. \A i \in 0..MaxWeekOffset : Cells(w)[i] <= Cells(w)[0]
  BY <1>4, <1>5, <1>8, <1>9
<1>11. ASSUME NEW i \in 0..MaxDay, Hits(w, i) # {}
       PROVE  i <= MaxWeekOffset /\ Cells(w)[i] > 0
  <2>1. i <= MaxWeekOffset /\ i <= Elapsed(w)
    BY <1>11, GridWidth, HitWeek
  <2>2. i \in 0..MaxWeekOffset
    BY <1>1, <2>1
  <2> QED BY <1>5, <1>8, <1>11, <2>1, <2>2
<1>12. ASSUME NEW i \in 0..MaxWeekOffset, Cells(w)[i] = -1, NEW u \in Cohort(w)
       PROVE  FirstDay(u) + i * Week > today
  <2>1. Elapsed(w) < i /\ i \in Int
    BY <1>1, <1>3, <1>5, <1>8, <1>12
  <2>2. Week * Elapsed(w) + Week <= Week * i
    BY <1>1, <1>3, <2>1, NextMultiple
  <2>3. w <= FirstDay(u) /\ FirstDay(u) \in Int
    BY CohortMember, <1>1
  <2>4. Week * Elapsed(w) \in Int /\ Week * i \in Int /\ i * Week = Week * i
    BY <1>1, <1>3, <2>1
  <2> QED BY <1>1, <1>2, <1>3, <2>2, <2>3, <2>4
<1> QED BY <1>9, <1>10, <1>11, <1>12

\* The figures of retention are consistent with each other and hide nobody.
THEOREM Retained == Spec => []RetentionSound
<1>1. IInv => RetentionSound
  <2> SUFFICES ASSUME IInv PROVE RetentionSound
    OBVIOUS
  <2>1. \A u \in EverActive : FirstDay(u) \in Nat /\ DaysOf(u) \subseteq Nat /\ today \in Nat
    BY FirstOfDays, PeriodsAssumption DEF IInv
  <2>2. ASSUME NEW m \in Milestones, NEW n \in Milestones, m <= n
        PROVE  Eligible(n) \subseteq Eligible(m) /\ Returned(n) \subseteq Returned(m)
    <3>1. m \in Nat /\ n \in Nat
      BY PeriodsAssumption
    <3>2. Eligible(n) \subseteq Eligible(m)
      BY <2>1, <2>2, <3>1 DEF Eligible
    <3>3. ASSUME NEW u \in Returned(n) PROVE u \in Returned(m)
      <4>1. u \in Eligible(n) /\ u \in EverActive
        BY DEF Returned, Eligible
      <4>2. PICK d \in DaysOf(u) : d >= FirstDay(u) + n
        BY DEF Returned
      <4>3. d >= FirstDay(u) + m
        BY <2>1, <2>2, <3>1, <4>1, <4>2
      <4> QED BY <3>2, <4>1, <4>3 DEF Returned
    <3> QED BY <3>2, <3>3
  <2>3. ReturnedNextDay \subseteq Returned(1)
    <3>1. ASSUME NEW u \in ReturnedNextDay PROVE u \in Returned(1)
      <4>1. u \in Eligible(1) /\ u \in EverActive /\ FirstDay(u) + 1 \in DaysOf(u)
        BY DEF ReturnedNextDay, Eligible
      <4>2. FirstDay(u) + 1 >= FirstDay(u) + 1
        BY <2>1, <4>1
      <4> QED BY <4>1, <4>2 DEF Returned
    <3> QED BY <3>1
  <2>4. \A v, w \in Cohorts : v # w => Cohort(v) \cap Cohort(w) = {}
    BY DEF Cohort
  <2> HIDE DEF RetentionSound
  <2>5. \A w \in Cohorts :
          /\ Cells(w)[0] = Cardinality(Cohort(w))
          /\ \A i \in 0..MaxWeekOffset : Cells(w)[i] <= Cells(w)[0]
          /\ \A i \in 0..MaxDay : Hits(w, i) # {} => i <= MaxWeekOffset /\ Cells(w)[i] > 0
          /\ \A i \in 0..MaxWeekOffset :
                Cells(w)[i] = -1 => \A u \in Cohort(w) : FirstDay(u) + i * Week > today
    BY RowOfGrid
  <2> QED BY <2>2, <2>3, <2>4, <2>5 DEF RetentionSound
<1> QED BY <1>1, Invariant, PTL

-------------------------------------------------------------------------------
(* Sums over a set: what is counted part by part is counted in all.        *)

SumOver(c, S) == MapThenSumSet(LAMBDA x : c[x], S)
Part(K, h, x) == {k \in K : h[k] = x}

LEMMA TwoPartsAddUp ==
    ASSUME NEW S, IsFiniteSet(S), NEW T, IsFiniteSet(T), S \cap T = {}
    PROVE  /\ IsFiniteSet(S \cup T) /\ Cardinality(S) \in Nat /\ Cardinality(T) \in Nat
           /\ Cardinality(S \cup T) = Cardinality(S) + Cardinality(T)
<1>1. Cardinality(S \cup T) = Cardinality(S) + Cardinality(T) - Cardinality(S \cap T)
  BY FS_Union
<1>2. Cardinality(S \cap T) = 0
  BY FS_EmptySet
<1>3. IsFiniteSet(S \cup T) /\ Cardinality(S) \in Nat /\ Cardinality(T) \in Nat
  BY FS_Union, FS_CardinalityType
<1> QED BY <1>1, <1>2, <1>3

\* Of K, divided by h into a part for each member of S.
LEMMA PartsAddUp ==
    ASSUME NEW K, IsFiniteSet(K), NEW S, IsFiniteSet(S),
           NEW h, \A k \in K : h[k] \in S,
           NEW c, \A x \in S : c[x] = Cardinality(Part(K, h, x))
    PROVE  SumOver(c, S) = Cardinality(K)
<1> DEFINE In(T) == {k \in K : h[k] \in T}
           pick(T) == CHOOSE x \in T : TRUE
           Adds(g) == g = [T \in SUBSET S |-> IF T = {} THEN 0 ELSE c[pick(T)] + g[T \ {pick(T)}]]
           sum == CHOOSE g : Adds(g)
<1>1. SumOver(c, S) = sum[S]
  BY Zenon DEF SumOver, MapThenSumSet, MapThenFoldSet
<1>2. \A T \in SUBSET S : IsFiniteSet(In(T)) /\ Cardinality(In(T)) \in Nat
  BY FS_Subset, FS_CardinalityType
<1>3. In({}) = {} /\ In(S) = K
  OBVIOUS
<1>4. ASSUME NEW T \in SUBSET S, T # {}
      PROVE  /\ pick(T) \in T /\ c[pick(T)] \in Nat
             /\ Cardinality(In(T)) = c[pick(T)] + Cardinality(In(T \ {pick(T)}))
  <2> DEFINE x == pick(T)
             F == Part(K, h, x)
             R == In(T \ {x})
  <2>1. x \in T
    BY <1>4
  <2> HIDE DEF x
  <2>2. In(T) = F \cup R /\ F \cap R = {} /\ T \ {x} \in SUBSET S
    BY <2>1 DEF Part
  <2>3. IsFiniteSet(F) /\ Cardinality(F) \in Nat /\ IsFiniteSet(R) /\ Cardinality(R) \in Nat
    BY <1>2, <2>2, FS_Subset, FS_CardinalityType DEF Part
  <2>4. c[x] = Cardinality(F)
    BY <2>1
  <2> HIDE DEF F, R, In
  <2>5. Cardinality(F \cup R) = Cardinality(F) + Cardinality(R)
    BY <2>2, <2>3, TwoPartsAddUp
  <2>6. Cardinality(In(T)) = c[x] + Cardinality(In(T \ {x}))
    BY <2>2, <2>4, <2>5 DEF R
  <2> QED BY <2>1, <2>3, <2>4, <2>6 DEF x
<1>5. Adds(sum)
  <2> DEFINE counted == [T \in SUBSET S |-> Cardinality(In(T))]
  <2>1. \A T \in SUBSET S :
           counted[T] = IF T = {} THEN 0 ELSE c[pick(T)] + counted[T \ {pick(T)}]
    <3> SUFFICES ASSUME NEW T \in SUBSET S
        PROVE  counted[T] = IF T = {} THEN 0 ELSE c[pick(T)] + counted[T \ {pick(T)}]
      OBVIOUS
    <3>1. CASE T = {}
      BY <1>3, <3>1, FS_EmptySet
    <3>2. CASE T # {}
      <4> HIDE DEF In, pick
      <4> QED BY <1>4, <3>2
    <3> QED BY <3>1, <3>2
  <2>2. counted = [T \in SUBSET S |-> counted[T]]
    OBVIOUS
  <2> HIDE DEF counted, pick
  <2>3. Adds(counted)
    BY <2>1, <2>2
  <2> HIDE DEF Adds
  <2> QED BY <2>3
<1>6. \A T \in SUBSET S :
         sum[T] = IF T = {} THEN 0 ELSE c[pick(T)] + sum[T \ {pick(T)}]
  <2> HIDE DEF sum, pick
  <2> QED BY <1>5
<1> HIDE DEF sum, In, pick
<1>7. \A T \in SUBSET S : IsFiniteSet(T) /\ Cardinality(T) \in Nat
  BY FS_Subset, FS_CardinalityType
<1>8. \A T \in SUBSET S : sum[T] = Cardinality(In(T))
  <2> DEFINE Wrong == {T \in SUBSET S : sum[T] # Cardinality(In(T))}
             Sizes == {Cardinality(T) : T \in Wrong}
  <2>1. SUFFICES ASSUME Wrong # {} PROVE FALSE
    OBVIOUS
  <2>2. Min(Sizes) \in Sizes /\ \A n \in Sizes : Min(Sizes) <= n
    <3>1. Sizes \subseteq Nat /\ Sizes # {}
      BY <1>7, <2>1
    <3> HIDE DEF Sizes
    <3> QED BY <3>1, LeastNat
  <2>3. PICK T \in Wrong : Cardinality(T) = Min(Sizes)
    BY <2>2
  <2>4. T # {}
    BY <1>3, <1>6, FS_EmptySet
  <2>5. pick(T) \in T
    BY <1>4, <2>4
  <2>6. Cardinality(T \ {pick(T)}) = Cardinality(T) - 1 /\ T \ {pick(T)} \in SUBSET S
    BY <1>7, <2>5, FS_RemoveElement
  <2>7. T \ {pick(T)} \notin Wrong
    <3> DEFINE U == T \ {pick(T)}
    <3>1. Cardinality(U) = Cardinality(T) - 1 /\ Cardinality(T) \in Nat
      BY <1>7, <2>6
    <3>2. U \in Wrong => Cardinality(T) <= Cardinality(U)
      BY <2>2, <2>3
    <3> HIDE DEF U
    <3>3. U \notin Wrong
      BY <3>1, <3>2
    <3> QED BY <3>3 DEF U
  <2> QED BY <1>4, <1>6, <2>4, <2>6, <2>7
<1> QED BY <1>1, <1>3, <1>8

-------------------------------------------------------------------------------
(* The figures of one snapshot.                                            *)

LEMMA Counted ==
    ASSUME NEW T, IsFiniteSet(T), NEW S, S \subseteq T
    PROVE  /\ IsFiniteSet(S) /\ Cardinality(S) \in Nat /\ Cardinality(T) \in Nat
           /\ Cardinality(S) <= Cardinality(T) /\ (S # {} => Cardinality(S) > 0)
<1>1. IsFiniteSet(S) /\ Cardinality(S) \in Nat /\ Cardinality(T) \in Nat /\ Cardinality(S) <= Cardinality(T)
  BY FS_Subset, FS_CardinalityType
<1>2. S # {} => Cardinality(S) # 0
  BY <1>1, FS_EmptySet
<1> QED BY <1>1, <1>2

LEMMA SplitAddsUp ==
    ASSUME NEW S, IsFiniteSet(S)
    PROVE  /\ Split(S).all = Cardinality(S) /\ Split(S).all = Split(S).authed + Split(S).anon
           /\ Split(S).all \in Nat /\ Split(S).authed \in Nat
           /\ Split(S).authed <= Split(S).all
<1> DEFINE A == {u \in S : ~IsAnon(u)}
           B == {u \in S : IsAnon(u)}
<1>1. /\ Split(S).all = Cardinality(S) /\ Split(S).authed = Cardinality(A)
      /\ Split(S).anon = Cardinality(B)
  BY DEF Split
<1>2. A \cup B = S /\ A \cap B = {} /\ A \subseteq S /\ B \subseteq S
  OBVIOUS
<1>3. IsFiniteSet(A) /\ IsFiniteSet(B)
  BY Counted
<1> HIDE DEF A, B
<1>4. Cardinality(S) = Cardinality(A) + Cardinality(B)
  BY <1>2, <1>3, TwoPartsAddUp
<1>5. Cardinality(S) \in Nat /\ Cardinality(A) \in Nat /\ Cardinality(B) \in Nat
  BY <1>2, <1>3, Counted
<1> QED BY <1>1, <1>4, <1>5

\* No share is above 100 %.
LEMMA ShareBounded ==
    ASSUME NEW part \in Nat, NEW whole \in Nat, part <= whole
    PROVE  Pct(part, whole) \in -1..1000
<1>1. CASE whole <= 0
  BY <1>1 DEF Pct
<1>2. CASE ~(whole <= 0)
  <2> DEFINE a == 2000 * part + whole
             n == 2 * whole
             q == a \div n
  <2>1. a \in Int /\ n \in Nat /\ n > 0 /\ a >= 0 /\ a < n * 1000 + n
    BY <1>2
  <2>2. Pct(part, whole) = q
    BY <1>2 DEF Pct
  <2> HIDE DEF a, n
  <2>3. q \in Int /\ n * q <= a /\ a < n * q + n /\ q <= 1000
    BY <2>1, Quotient, QuotientBelow
  <2> HIDE DEF q
  <2>4. q >= 0
    <3>1. q < 0 => n * q + n <= n * 0
      BY <2>1, <2>3, NextMultiple
    <3>2. n * q \in Int /\ n * 0 = 0
      BY <2>1, <2>3
    <3> QED BY <2>1, <2>3, <3>1, <3>2
  <2> QED BY <2>2, <2>3, <2>4
<1> QED BY <1>1, <1>2

\* A day is within a window that reaches back to it, a window within a longer one.
LEMMA Windows ==
    ASSUME IInv
    PROVE  /\ \A d \in Int : ActiveOn(d) \subseteq ActiveSince(d) /\ ActiveOn(d) \subseteq EverActive
           /\ \A d, e \in Int : d >= e => ActiveSince(d) \subseteq ActiveSince(e)
           /\ \A d \in Int : ActiveSince(d) \subseteq EverActive
<1>1. \A q \in ActiveDays : q \in Users \X Nat
  <2>1. 0..today \subseteq Nat
    OBVIOUS
  <2> QED BY <2>1, ActivePast
<1>2. ASSUME NEW d \in Int, NEW u \in ActiveOn(d) PROVE u \in ActiveSince(d) /\ u \in EverActive
  <2> DEFINE q == <<u, d>>
  <2>1. q \in ActiveDays /\ q[2] >= d /\ q[1] = u
    BY DEF ActiveOn
  <2> HIDE DEF q
  <2> QED BY <2>1 DEF ActiveSince, EverActive
<1>3. ASSUME NEW d \in Int, NEW e \in Int, d >= e, NEW u \in ActiveSince(d)
      PROVE  u \in ActiveSince(e)
  <2>1. PICK q \in ActiveDays : q[2] >= d /\ q[1] = u
    BY DEF ActiveSince
  <2>2. q[2] \in Nat
    BY <1>1
  <2>3. q[2] >= e
    BY <1>3, <2>1, <2>2
  <2> QED BY <2>1, <2>3 DEF ActiveSince
<1>4. \A d \in Int : ActiveSince(d) \subseteq EverActive
  BY DEF ActiveSince, EverActive
<1> QED BY <1>2, <1>3, <1>4

LEMMA PointIs ==
    ASSUME NEW d
    PROVE  /\ Point(d).active = Split(ActiveOn(d))
           /\ Point(d).newCards = Cardinality({k \in DOMAIN progress : progress[k].day = d})
           /\ Point(d).correct = Cardinality({k \in {r \in DOMAIN progress : progress[r].day = d} :
                                                progress[k].mark = "right"})
           /\ Point(d).dailies = Cardinality({p \in dailies : p[2] = d})
BY DEF Point

\* The day of the series and the totals, and a longer window and a shorter one.
LEMMA WindowsAgree ==
    ASSUME IInv
    PROVE  /\ Series[today].active.all = Totals.dau
           /\ Totals.dau <= Totals.wau /\ Totals.wau <= Totals.mau.all
           /\ Totals.mau.all <= Totals.ever.all
           /\ \A split \in {Series[d].active : d \in DOMAIN Series} \cup {Totals.mau, Totals.ever} :
                 split.all = split.authed + split.anon
           /\ \A d \in DOMAIN Series :
                 /\ d >= today - Recently[2] => Series[d].active.all <= Totals.mau.all
                 /\ Series[d].newCards + Series[d].dailies > 0 => Series[d].active.all > 0
           /\ {Totals.stickiness, Totals.signupRate} \subseteq -1..1000
<1>0. /\ today \in Nat /\ Days \in Nat /\ Days > 0
      /\ Recently[1] \in Nat /\ Recently[2] \in Nat /\ Recently[1] <= Recently[2]
  BY PeriodsAssumption DEF IInv
<1>1. DOMAIN Series = (today - Days + 1)..today /\ today \in DOMAIN Series
  BY <1>0 DEF Series
<1>2. \A d \in DOMAIN Series : Series[d] = Point(d)
  BY DEF Series
<1>3. \A d \in DOMAIN Series : Series[d].active = Split(ActiveOn(d))
  BY <1>2, PointIs
<1>4. /\ Totals.dau = Cardinality(ActiveOn(today))
      /\ Totals.wau = Cardinality(ActiveSince(today - Recently[1]))
      /\ Totals.mau = Split(ActiveSince(today - Recently[2]))
      /\ Totals.ever = Split(EverActive)
      /\ Totals.stickiness = Pct(Totals.dau, Totals.mau.all)
      /\ Totals.signupRate = Pct(Totals.ever.authed, Totals.ever.all)
  BY DEF Totals, Mau
<1> DEFINE week == ActiveSince(today - Recently[1])
           month == ActiveSince(today - Recently[2])
<1>5. ActiveOn(today) \subseteq week /\ week \subseteq month /\ month \subseteq EverActive
  <2>1. /\ today - Recently[1] \in Int /\ today - Recently[2] \in Int
        /\ today >= today - Recently[1] /\ today - Recently[1] >= today - Recently[2]
    BY <1>0
  <2>2. ActiveOn(today) \subseteq ActiveSince(today) /\ ActiveSince(today) \subseteq week
    BY <1>0, <2>1, Windows
  <2> QED BY <2>1, <2>2, Windows
<1>6. IsFiniteSet(EverActive) /\ IsFiniteSet(month) /\ IsFiniteSet(week) /\ IsFiniteSet(ActiveOn(today))
  <2>1. IsFiniteSet(EverActive)
    BY EverActiveFinite
  <2>2. week \subseteq EverActive /\ ActiveOn(today) \subseteq EverActive
    BY <1>5
  <2> QED BY <1>5, <2>1, <2>2, Counted
<1>7. \A d \in DOMAIN Series : IsFiniteSet(ActiveOn(d))
  <2>1. \A d \in DOMAIN Series : ActiveOn(d) \subseteq EverActive
    BY <1>0, <1>1, Windows
  <2> QED BY <1>6, <2>1, Counted
<1> HIDE DEF week, month
<1>8. /\ Totals.dau = Cardinality(ActiveOn(today)) /\ Totals.wau = Cardinality(week)
      /\ Totals.mau = Split(month) /\ Totals.mau.all = Cardinality(month)
      /\ Totals.ever = Split(EverActive) /\ Totals.ever.all = Cardinality(EverActive)
      /\ Totals.ever.authed \in Nat /\ Totals.ever.authed <= Totals.ever.all
  BY <1>4, <1>6, SplitAddsUp DEF week, month
<1>9. /\ Cardinality(ActiveOn(today)) \in Nat /\ Cardinality(week) \in Nat
      /\ Cardinality(month) \in Nat /\ Cardinality(EverActive) \in Nat
      /\ Cardinality(ActiveOn(today)) <= Cardinality(week)
      /\ Cardinality(week) <= Cardinality(month)
      /\ Cardinality(month) <= Cardinality(EverActive)
  BY <1>5, <1>6, Counted
<1>10. Series[today].active.all = Totals.dau
  BY <1>1, <1>3, <1>6, <1>8, SplitAddsUp
<1>11. Totals.dau <= Totals.wau /\ Totals.wau <= Totals.mau.all /\ Totals.mau.all <= Totals.ever.all
  BY <1>8, <1>9
<1>12. ASSUME NEW split \in {Series[d].active : d \in DOMAIN Series} \cup {Totals.mau, Totals.ever}
       PROVE  split.all = split.authed + split.anon
  <2>1. \E S : IsFiniteSet(S) /\ split = Split(S)
    BY <1>3, <1>6, <1>7, <1>8
  <2> QED BY <2>1, SplitAddsUp
<1>13. ASSUME NEW d \in DOMAIN Series, d >= today - Recently[2]
       PROVE  Series[d].active.all <= Totals.mau.all
  <2>1. d \in Int /\ today - Recently[2] \in Int
    BY <1>0, <1>1
  <2>2. ActiveOn(d) \subseteq month
    BY <1>13, <2>1, Windows DEF month
  <2>3. Cardinality(ActiveOn(d)) <= Cardinality(month)
    BY <1>6, <2>2, Counted
  <2> QED BY <1>3, <1>7, <1>8, <2>3, SplitAddsUp
<1>14. ASSUME NEW d \in DOMAIN Series, Series[d].newCards + Series[d].dailies > 0
       PROVE  Series[d].active.all > 0
  <2> DEFINE mine == {k \in DOMAIN progress : progress[k].day = d}
             done == {p \in dailies : p[2] = d}
  <2>1. Series[d].newCards = Cardinality(mine) /\ Series[d].dailies = Cardinality(done)
    BY <1>2, PointIs
  <2> HIDE DEF mine, done
  <2>2. mine # {} \/ done # {}
    BY <1>14, <2>1, FS_EmptySet
  <2>3. ActiveOn(d) # {}
    <3> USE DEF mine, done
    <3>1. CASE mine # {}
      <4>1. PICK k \in mine : TRUE
        BY <3>1
      <4>2. k[1] \in Users
        BY DEF IInv, IsStore
      <4>3. k[1] \in ActiveOn(d)
        BY <4>2, ActiveRows DEF ActiveOn
      <4> QED BY <4>3
    <3>2. CASE done # {}
      <4>1. PICK p \in done : TRUE
        BY <3>2
      <4>2. p[1] \in Users /\ p = <<p[1], d>>
        BY DEF IInv
      <4>3. p[1] \in ActiveOn(d)
        BY <4>2, ActiveRows DEF ActiveOn
      <4> QED BY <4>3
    <3> QED BY <2>2, <3>1, <3>2
  <2>4. Cardinality(ActiveOn(d)) > 0
    BY <1>7, <2>3, Counted
  <2> QED BY <1>3, <1>7, <2>4, SplitAddsUp
<1>15. {Totals.stickiness, Totals.signupRate} \subseteq -1..1000
  <2>1. Totals.dau \in Nat /\ Totals.mau.all \in Nat /\ Totals.dau <= Totals.mau.all
    BY <1>8, <1>9
  <2>2. /\ Totals.ever.authed \in Nat /\ Totals.ever.all \in Nat
        /\ Totals.ever.authed <= Totals.ever.all
        /\ Totals.signupRate = Pct(Totals.ever.authed, Totals.ever.all)
    BY <1>4, <1>8, <1>9
  <2>3. Totals.stickiness \in -1..1000
    BY <1>4, <2>1, ShareBounded
  <2>4. Totals.signupRate \in -1..1000
    <3>1. Pct(Totals.ever.authed, Totals.ever.all) \in -1..1000
      BY <2>2, ShareBounded
    <3> QED BY <2>2, <3>1
  <2> QED BY <2>3, <2>4
<1> QED BY <1>10, <1>11, <1>12, <1>13, <1>14, <1>15

\* The series added up, when it reaches back to the first day.
LEMMA SeriesAddsUp ==
    ASSUME IInv, today < Days
    PROVE  /\ MapThenSumSet(LAMBDA d : Series[d].newCards, DOMAIN Series) = Totals.answers
           /\ MapThenSumSet(LAMBDA d : Series[d].correct, DOMAIN Series) = Totals.correct
           /\ MapThenSumSet(LAMBDA d : Series[d].dailies, DOMAIN Series) = Totals.dailies
<1> DEFINE S == DOMAIN Series
           K == DOMAIN progress
           R == {k \in K : progress[k].mark = "right"}
           rowDay == [k \in K |-> progress[k].day]
           date == [p \in dailies |-> p[2]]
<1>0. today \in Nat /\ Days \in Nat
  BY PeriodsAssumption DEF IInv
<1>1. S = (today - Days + 1)..today /\ IsFiniteSet(S) /\ 0..today \subseteq S
  <2>1. S = (today - Days + 1)..today
    BY DEF Series
  <2> QED BY <1>0, <2>1, FS_Interval
<1>2. \A d \in S : Series[d] = Point(d)
  BY DEF Series
<1>3. Totals.answers = Cardinality(K) /\ Totals.correct = Cardinality(R) /\ Totals.dailies = Cardinality(dailies)
  BY DEF Totals
<1>4. IsFiniteSet(K) /\ IsFiniteSet(R) /\ IsFiniteSet(dailies)
  BY FS_Subset DEF IInv
<1>5. \A k \in K : rowDay[k] \in S
  BY <1>1 DEF IInv, IsStore, Row
<1>6. \A k \in R : rowDay[k] \in S
  BY <1>5
<1>7. \A p \in dailies : date[p] \in S
  BY <1>1 DEF IInv
<1> DEFINE pick(T) == CHOOSE x \in T : TRUE
           cards == [d \in S |-> Series[d].newCards]
           right == [d \in S |-> Series[d].correct]
           done == [d \in S |-> Series[d].dailies]
<1>8. \A d \in S : cards[d] = Cardinality(Part(K, rowDay, d))
  <2>1. \A d \in S : Part(K, rowDay, d) = {k \in K : progress[k].day = d}
    BY DEF Part
  <2> QED BY <1>2, <2>1, PointIs
<1>9. \A d \in S : right[d] = Cardinality(Part(R, rowDay, d))
  <2>1. \A d \in S : Part(R, rowDay, d)
                        = {k \in {r \in K : progress[r].day = d} : progress[k].mark = "right"}
    BY DEF Part
  <2> QED BY <1>2, <2>1, PointIs
<1>10. \A d \in S : done[d] = Cardinality(Part(dailies, date, d))
  <2>1. \A d \in S : Part(dailies, date, d) = {p \in dailies : p[2] = d}
    BY DEF Part
  <2> QED BY <1>2, <2>1, PointIs
<1>11. \A T \in SUBSET S : T # {} => pick(T) \in S
  OBVIOUS
<1> HIDE DEF S, K, R, rowDay, date, cards, right, done
<1>12. SumOver(cards, S) = Cardinality(K)
  BY <1>1, <1>4, <1>5, <1>8, PartsAddUp
<1>13. SumOver(right, S) = Cardinality(R)
  BY <1>1, <1>4, <1>6, <1>9, PartsAddUp
<1>14. SumOver(done, S) = Cardinality(dailies)
  BY <1>1, <1>4, <1>7, <1>10, PartsAddUp
<1>15. MapThenSumSet(LAMBDA d : Series[d].newCards, S) = SumOver(cards, S)
  <2> DEFINE P(g) == g = [T \in SUBSET S |->
                IF T = {} THEN 0 ELSE Series[pick(T)].newCards + g[T \ {pick(T)}]]
             Q(g) == g = [T \in SUBSET S |-> IF T = {} THEN 0 ELSE cards[pick(T)] + g[T \ {pick(T)}]]
  <2>1. MapThenSumSet(LAMBDA d : Series[d].newCards, S) = (CHOOSE g : P(g))[S]
    BY Zenon DEF MapThenSumSet, MapThenFoldSet
  <2>2. SumOver(cards, S) = (CHOOSE g : Q(g))[S]
    BY Zenon DEF SumOver, MapThenSumSet, MapThenFoldSet
  <2>3. \A T \in SUBSET S : T # {} => Series[pick(T)].newCards = cards[pick(T)]
    BY <1>11 DEF cards
  <2>4. ASSUME NEW g PROVE P(g) <=> Q(g)
    <3> HIDE DEF pick
    <3> QED BY <2>3
  <2> HIDE DEF P, Q
  <2>5. (CHOOSE g : P(g)) = (CHOOSE g : Q(g))
    BY <2>4, Zenon
  <2> QED BY <2>1, <2>2, <2>5
<1>16. MapThenSumSet(LAMBDA d : Series[d].correct, S) = SumOver(right, S)
  <2> DEFINE P(g) == g = [T \in SUBSET S |->
                IF T = {} THEN 0 ELSE Series[pick(T)].correct + g[T \ {pick(T)}]]
             Q(g) == g = [T \in SUBSET S |-> IF T = {} THEN 0 ELSE right[pick(T)] + g[T \ {pick(T)}]]
  <2>1. MapThenSumSet(LAMBDA d : Series[d].correct, S) = (CHOOSE g : P(g))[S]
    BY Zenon DEF MapThenSumSet, MapThenFoldSet
  <2>2. SumOver(right, S) = (CHOOSE g : Q(g))[S]
    BY Zenon DEF SumOver, MapThenSumSet, MapThenFoldSet
  <2>3. \A T \in SUBSET S : T # {} => Series[pick(T)].correct = right[pick(T)]
    BY <1>11 DEF right
  <2>4. ASSUME NEW g PROVE P(g) <=> Q(g)
    <3> HIDE DEF pick
    <3> QED BY <2>3
  <2> HIDE DEF P, Q
  <2>5. (CHOOSE g : P(g)) = (CHOOSE g : Q(g))
    BY <2>4, Zenon
  <2> QED BY <2>1, <2>2, <2>5
<1>17. MapThenSumSet(LAMBDA d : Series[d].dailies, S) = SumOver(done, S)
  <2> DEFINE P(g) == g = [T \in SUBSET S |->
                IF T = {} THEN 0 ELSE Series[pick(T)].dailies + g[T \ {pick(T)}]]
             Q(g) == g = [T \in SUBSET S |-> IF T = {} THEN 0 ELSE done[pick(T)] + g[T \ {pick(T)}]]
  <2>1. MapThenSumSet(LAMBDA d : Series[d].dailies, S) = (CHOOSE g : P(g))[S]
    BY Zenon DEF MapThenSumSet, MapThenFoldSet
  <2>2. SumOver(done, S) = (CHOOSE g : Q(g))[S]
    BY Zenon DEF SumOver, MapThenSumSet, MapThenFoldSet
  <2>3. \A T \in SUBSET S : T # {} => Series[pick(T)].dailies = done[pick(T)]
    BY <1>11 DEF done
  <2>4. ASSUME NEW g PROVE P(g) <=> Q(g)
    <3> HIDE DEF pick
    <3> QED BY <2>3
  <2> HIDE DEF P, Q
  <2>5. (CHOOSE g : P(g)) = (CHOOSE g : Q(g))
    BY <2>4, Zenon
  <2> QED BY <2>1, <2>2, <2>5
<1> QED BY <1>3, <1>12, <1>13, <1>14, <1>15, <1>16, <1>17 DEF S

LEMMA UserRowIs ==
    ASSUME NEW u
    PROVE  /\ UserRow(u).active = Cardinality(DaysOf(u))
           /\ UserRow(u).since = today - Max(DaysOf(u))
           /\ UserRow(u).lifespan = Max(DaysOf(u)) - FirstDay(u) + 1
           /\ UserRow(u).answers = Cardinality({k \in DOMAIN progress : k[1] = u})
           /\ UserRow(u).dailies = Cardinality({p \in dailies : p[1] = u})
BY DEF UserRow, FirstDay

\* Nobody was active on more days than lie between the first and the last.
LEMMA LifespanCovers ==
    ASSUME IInv, NEW u \in EverActive
    PROVE  UserRow(u).active <= UserRow(u).lifespan /\ UserRow(u).since >= 0
<1> DEFINE D == DaysOf(u)
           f == FirstDay(u)
           l == Max(D)
<1>1. today \in Nat
  BY PeriodsAssumption DEF IInv
<1>2. D \subseteq 0..today /\ f \in D /\ \A d \in D : f <= d
  BY FirstOfDays
<1>3. l \in D /\ \A d \in D : d <= l
  BY <1>1, <1>2, LargestNat
<1>4. /\ UserRow(u).active = Cardinality(D) /\ UserRow(u).since = today - l
      /\ UserRow(u).lifespan = l - f + 1
  BY UserRowIs
<1> HIDE DEF D, f, l
<1>5. D \subseteq f..l /\ f \in Int /\ l \in Int /\ f <= l /\ l <= today
  BY <1>1, <1>2, <1>3
<1>6. Cardinality(D) <= l - f + 1
  <2>1. IsFiniteSet(f..l) /\ Cardinality(f..l) = l - f + 1
    BY <1>5, FS_Interval
  <2> QED BY <1>5, <2>1, Counted
<1> QED BY <1>1, <1>5, <1>6, <1>4

\* The people listed and the people counted.
LEMMA UsersAddUp ==
    ASSUME IInv
    PROVE  /\ MapThenSumSet(LAMBDA u : UserRow(u).answers, EverActive) = Totals.answers
           /\ MapThenSumSet(LAMBDA u : UserRow(u).dailies, EverActive) = Totals.dailies
<1> DEFINE S == EverActive
           K == DOMAIN progress
           rowUser == [k \in K |-> k[1]]
           who == [p \in dailies |-> p[1]]
           pick(T) == CHOOSE x \in T : TRUE
           answers == [u \in S |-> UserRow(u).answers]
           done == [u \in S |-> UserRow(u).dailies]
<1>1. /\ Totals.answers = Cardinality(K) /\ Totals.dailies = Cardinality(dailies)
      /\ IsFiniteSet(K) /\ IsFiniteSet(dailies) /\ IsFiniteSet(S)
  BY EverActiveFinite DEF Totals, IInv
<1>2. ASSUME NEW k \in K PROVE rowUser[k] \in S
  <2> DEFINE q == <<k[1], progress[k].day>>
  <2>1. q \in ActiveDays /\ q[1] = k[1]
    BY DEF ActiveDays
  <2> HIDE DEF q
  <2> QED BY <2>1 DEF EverActive
<1>3. ASSUME NEW p \in dailies PROVE who[p] \in S
  BY DEF EverActive, ActiveDays
<1>4. /\ \A u \in S : answers[u] = Cardinality(Part(K, rowUser, u))
      /\ \A u \in S : done[u] = Cardinality(Part(dailies, who, u))
  <2>1. \A u \in S : Part(K, rowUser, u) = {k \in K : k[1] = u}
    BY DEF Part
  <2>2. \A u \in S : Part(dailies, who, u) = {p \in dailies : p[1] = u}
    BY DEF Part
  <2> QED BY <2>1, <2>2, UserRowIs
<1>5. \A T \in SUBSET S : T # {} => pick(T) \in S
  OBVIOUS
<1> HIDE DEF S, K, rowUser, who, answers, done
<1>6. SumOver(answers, S) = Cardinality(K)
  BY <1>1, <1>2, <1>4, PartsAddUp
<1>7. SumOver(done, S) = Cardinality(dailies)
  BY <1>1, <1>3, <1>4, PartsAddUp
<1>8. MapThenSumSet(LAMBDA u : UserRow(u).answers, S) = SumOver(answers, S)
  <2> DEFINE P(g) == g = [T \in SUBSET S |->
                IF T = {} THEN 0 ELSE UserRow(pick(T)).answers + g[T \ {pick(T)}]]
             Q(g) == g = [T \in SUBSET S |-> IF T = {} THEN 0 ELSE answers[pick(T)] + g[T \ {pick(T)}]]
  <2>1. MapThenSumSet(LAMBDA u : UserRow(u).answers, S) = (CHOOSE g : P(g))[S]
    BY Zenon DEF MapThenSumSet, MapThenFoldSet
  <2>2. SumOver(answers, S) = (CHOOSE g : Q(g))[S]
    BY Zenon DEF SumOver, MapThenSumSet, MapThenFoldSet
  <2>3. \A T \in SUBSET S : T # {} => UserRow(pick(T)).answers = answers[pick(T)]
    BY <1>5 DEF answers
  <2>4. ASSUME NEW g PROVE P(g) <=> Q(g)
    <3> HIDE DEF pick
    <3> QED BY <2>3
  <2> HIDE DEF P, Q
  <2>5. (CHOOSE g : P(g)) = (CHOOSE g : Q(g))
    BY <2>4, Zenon
  <2> QED BY <2>1, <2>2, <2>5
<1>9. MapThenSumSet(LAMBDA u : UserRow(u).dailies, S) = SumOver(done, S)
  <2> DEFINE P(g) == g = [T \in SUBSET S |->
                IF T = {} THEN 0 ELSE UserRow(pick(T)).dailies + g[T \ {pick(T)}]]
             Q(g) == g = [T \in SUBSET S |-> IF T = {} THEN 0 ELSE done[pick(T)] + g[T \ {pick(T)}]]
  <2>1. MapThenSumSet(LAMBDA u : UserRow(u).dailies, S) = (CHOOSE g : P(g))[S]
    BY Zenon DEF MapThenSumSet, MapThenFoldSet
  <2>2. SumOver(done, S) = (CHOOSE g : Q(g))[S]
    BY Zenon DEF SumOver, MapThenSumSet, MapThenFoldSet
  <2>3. \A T \in SUBSET S : T # {} => UserRow(pick(T)).dailies = done[pick(T)]
    BY <1>5 DEF done
  <2>4. ASSUME NEW g PROVE P(g) <=> Q(g)
    <3> HIDE DEF pick
    <3> QED BY <2>3
  <2> HIDE DEF P, Q
  <2>5. (CHOOSE g : P(g)) = (CHOOSE g : Q(g))
    BY <2>4, Zenon
  <2> QED BY <2>1, <2>2, <2>5
<1> QED BY <1>1, <1>6, <1>7, <1>8, <1>9 DEF S

\* The answers by category, however the cards are divided, and in all.
LEMMA BucketsAgree ==
    ASSUME IInv
    PROVE  /\ Totals.accuracy \in -1..1000 /\ Bucket(Cards).accuracy = Totals.accuracy
           /\ \A S \in SUBSET Cards :
                 /\ Bucket(S).attempts + Bucket(Cards \ S).attempts = Totals.answers
                 /\ Bucket(S).users <= Cardinality(EverActive)
           /\ \A c \in Measured : c \notin Unseen
<1> DEFINE K == DOMAIN progress
           tried(S) == UNION {Attempts(c) : c \in S}
           graded(S) == UNION {Graded(c) : c \in S}
           G == {k \in K : progress[k].mark # "unknown"}
           R == {k \in K : progress[k].mark = "right"}
<1>1. IsFiniteSet(K) /\ K \subseteq Users \X Cards
  BY DEF IInv, IsStore
<1>2. Totals.answers = Cardinality(K) /\ Totals.accuracy = Pct(Cardinality(R), Cardinality(G))
  BY DEF Totals
<1>3. \A S : /\ Bucket(S).attempts = Cardinality(tried(S))
             /\ Bucket(S).users = Cardinality({k[1] : k \in tried(S)})
             /\ Bucket(S).accuracy = Pct(Cardinality({k \in graded(S) : progress[k].mark = "right"}),
                                         Cardinality(graded(S)))
  BY DEF Bucket
<1>4. \A S : tried(S) = {k \in K : k[2] \in S}
  BY DEF Attempts
<1> HIDE DEF tried
<1>5. graded(Cards) = G /\ {k \in graded(Cards) : progress[k].mark = "right"} = R
  BY <1>1 DEF Graded, Attempts
<1>6. Totals.accuracy \in -1..1000
  <2>1. IsFiniteSet(G) /\ R \subseteq G
    BY <1>1, Counted
  <2>2. Cardinality(R) \in Nat /\ Cardinality(G) \in Nat /\ Cardinality(R) <= Cardinality(G)
    BY <2>1, Counted
  <2> QED BY <1>2, <2>2, ShareBounded
<1>7. Bucket(Cards).accuracy = Totals.accuracy
  <2> HIDE DEF graded, G, R
  <2> QED BY <1>2, <1>3, <1>5
<1>8. ASSUME NEW S \in SUBSET Cards
      PROVE  /\ Bucket(S).attempts + Bucket(Cards \ S).attempts = Totals.answers
             /\ Bucket(S).users <= Cardinality(EverActive)
  <2> DEFINE A == tried(S)
             B == tried(Cards \ S)
             people == {k[1] : k \in A}
  <2>1. A \cup B = K /\ A \cap B = {} /\ A \subseteq K /\ B \subseteq K
    BY <1>1, <1>4
  <2>2. people \subseteq EverActive
    <3>1. ASSUME NEW k \in K PROVE k[1] \in EverActive
      <4> DEFINE q == <<k[1], progress[k].day>>
      <4>1. q \in ActiveDays /\ q[1] = k[1]
        BY DEF ActiveDays
      <4> HIDE DEF q
      <4> QED BY <4>1 DEF EverActive
    <3> QED BY <2>1, <3>1
  <2>3. /\ Bucket(S).attempts = Cardinality(A) /\ Bucket(Cards \ S).attempts = Cardinality(B)
        /\ Bucket(S).users = Cardinality(people)
    BY <1>3
  <2> HIDE DEF A, B, people, K
  <2>4. IsFiniteSet(A) /\ IsFiniteSet(B)
    BY <1>1, <2>1, Counted
  <2>5. Cardinality(K) = Cardinality(A) + Cardinality(B)
    BY <2>1, <2>4, TwoPartsAddUp
  <2>6. Cardinality(people) <= Cardinality(EverActive)
    BY <2>2, EverActiveFinite, Counted
  <2> QED BY <1>2, <2>3, <2>5, <2>6
<1>9. ASSUME NEW c \in Measured PROVE c \notin Unseen
  <2>1. Cardinality(Graded(c)) >= MinAnswers /\ MinAnswers \in Nat /\ MinAnswers > 0
    BY PeriodsAssumption DEF Measured
  <2>2. Graded(c) # {}
    BY <2>1, FS_EmptySet
  <2> QED BY <2>2 DEF Graded, Unseen
<1> QED BY <1>6, <1>7, <1>8, <1>9

\* The figures of one snapshot agree across the queries.
THEOREM Agreement == Spec => []CountsAgree
<1>1. IInv => CountsAgree
  <2> SUFFICES ASSUME IInv PROVE CountsAgree
    OBVIOUS
  <2>1. \A u \in EverActive : UserRow(u).active <= UserRow(u).lifespan /\ UserRow(u).since >= 0
    BY LifespanCovers
  <2>2. {Totals.stickiness, Totals.signupRate, Totals.accuracy} \subseteq -1..1000
    BY WindowsAgree, BucketsAgree
  <2>3. today < Days =>
           /\ MapThenSumSet(LAMBDA d : Series[d].newCards, DOMAIN Series) = Totals.answers
           /\ MapThenSumSet(LAMBDA d : Series[d].correct, DOMAIN Series) = Totals.correct
           /\ MapThenSumSet(LAMBDA d : Series[d].dailies, DOMAIN Series) = Totals.dailies
    BY SeriesAddsUp
  <2>4. /\ MapThenSumSet(LAMBDA u : UserRow(u).answers, EverActive) = Totals.answers
        /\ MapThenSumSet(LAMBDA u : UserRow(u).dailies, EverActive) = Totals.dailies
    BY UsersAddUp
  <2>5. /\ Series[today].active.all = Totals.dau
        /\ Totals.dau <= Totals.wau /\ Totals.wau <= Totals.mau.all
        /\ Totals.mau.all <= Totals.ever.all
        /\ \A split \in {Series[d].active : d \in DOMAIN Series} \cup {Totals.mau, Totals.ever} :
              split.all = split.authed + split.anon
        /\ \A d \in DOMAIN Series :
              /\ d >= today - Recently[2] => Series[d].active.all <= Totals.mau.all
              /\ Series[d].newCards + Series[d].dailies > 0 => Series[d].active.all > 0
    BY WindowsAgree
  <2>6. /\ Bucket(Cards).accuracy = Totals.accuracy
        /\ \A S \in SUBSET Cards :
              /\ Bucket(S).attempts + Bucket(Cards \ S).attempts = Totals.answers
              /\ Bucket(S).users <= Cardinality(EverActive)
        /\ \A c \in Measured : c \notin Unseen
    BY BucketsAgree
  <2> QED BY ONLY <2>1, <2>2, <2>3, <2>4, <2>5, <2>6, Zenon DEF CountsAgree
<1> QED BY <1>1, Invariant, PTL
===============================================================================
