----------------------------- MODULE PagingProofs -----------------------------
(***************************************************************************)
(* The two lists that are ranked and cut into pages: the feed of a user    *)
(* and the tables of the dashboard.  What a sort returns and what leaves   *)
(* its first places when elements leave the list comes first; then the     *)
(* weights of the feed and the walk through its pages; then the pages of a *)
(* table, the page of the dashboard with its fetches, and the rows.        *)
(***************************************************************************)
EXTENDS Feed, Dashboard, TLAPS, FiniteSetTheorems, SequenceTheorems

\* R puts the elements of S in a row.
TotalOn(R, S) ==
    /\ \A a \in S : <<a, a>> \notin R
    /\ \A a, b \in S : a = b \/ <<a, b>> \in R \/ <<b, a>> \in R
    /\ \A a, b, c \in S : <<a, b>> \in R /\ <<b, c>> \in R => <<a, c>> \in R

\* The first n of them.
First(S, R, n) == {a \in S : Ahead(S, R, a) < n}

\* Fewer than all come before an element.
LEMMA AheadRange ==
    ASSUME NEW S, NEW R, IsFiniteSet(S), TotalOn(R, S), NEW a \in S
    PROVE  Ahead(S, R, a) \in 0..(Cardinality(S) - 1)
<1> DEFINE before_a == {b \in S : <<b, a>> \in R}
<1>1. before_a \subseteq S \ {a}
  BY DEF TotalOn
<1>2. IsFiniteSet(S \ {a}) /\ Cardinality(S \ {a}) = Cardinality(S) - 1
  BY FS_RemoveElement
<1> HIDE DEF before_a
<1>3. Cardinality(before_a) \in Nat /\ Cardinality(before_a) <= Cardinality(S) - 1
  <2>1. IsFiniteSet(before_a) /\ Cardinality(before_a) <= Cardinality(S \ {a})
    BY <1>1, <1>2, FS_Subset
  <2> QED BY <2>1, <1>2, FS_CardinalityType
<1>4. Cardinality(S) \in Nat
  BY FS_CardinalityType
<1>5. Cardinality(before_a) \in 0..(Cardinality(S) - 1)
  BY <1>3, <1>4
<1> QED BY <1>5 DEF Ahead, before_a

\* Fewer come before the one of two that is before the other.
LEMMA AheadGrows ==
    ASSUME NEW S, NEW R, IsFiniteSet(S), TotalOn(R, S),
           NEW a \in S, NEW b \in S, <<a, b>> \in R
    PROVE  Ahead(S, R, a) < Ahead(S, R, b)
<1> DEFINE A == {c \in S : <<c, a>> \in R}
           B == {c \in S : <<c, b>> \in R}
<1>1. A \subseteq B /\ a \in B /\ a \notin A
  BY DEF TotalOn
<1>2. IsFiniteSet(B) /\ IsFiniteSet(A)
  BY FS_Subset
<1> HIDE DEF A, B
<1>3. Cardinality(A) <= Cardinality(B) /\ Cardinality(A) # Cardinality(B)
  BY <1>1, <1>2, FS_Subset
<1>4. Cardinality(A) \in Nat /\ Cardinality(B) \in Nat
  BY <1>2, FS_CardinalityType
<1>5. Cardinality(A) < Cardinality(B)
  BY <1>3, <1>4
<1> QED BY <1>5 DEF Ahead, A, B

\* What a sort returns: each place has the element that as many come before as the
\* place says, and each element has one.
LEMMA InOrderPlaces ==
    ASSUME NEW S, NEW R, IsFiniteSet(S), TotalOn(R, S)
    PROVE  /\ InOrder(S, R) \in [1..Cardinality(S) -> S]
           /\ \A k \in 1..Cardinality(S) :
                 InOrder(S, R)[k] \in S /\ Ahead(S, R, InOrder(S, R)[k]) = k - 1
           /\ \A a \in S : /\ Ahead(S, R, a) + 1 \in 1..Cardinality(S)
                           /\ InOrder(S, R)[Ahead(S, R, a) + 1] = a
<1> DEFINE n == Cardinality(S)
           f == [a \in S |-> Ahead(S, R, a)]
<1>n. n \in Nat
  BY FS_CardinalityType
<1>1. \A a \in S : Ahead(S, R, a) \in 0..(n - 1)
  BY AheadRange
<1>2. \A a, b \in S : Ahead(S, R, a) = Ahead(S, R, b) => a = b
  <2>1. \A a \in S : Ahead(S, R, a) \in Int
    BY <1>1, <1>n
  <2>2. \A a, b \in S : <<a, b>> \in R => Ahead(S, R, a) < Ahead(S, R, b)
    BY AheadGrows
  <2>3. \A a, b \in S : a = b \/ <<a, b>> \in R \/ <<b, a>> \in R
    BY DEF TotalOn
  <2> SUFFICES ASSUME NEW a \in S, NEW b \in S, a # b
               PROVE  Ahead(S, R, a) # Ahead(S, R, b)
    OBVIOUS
  <2>4. CASE <<a, b>> \in R
    BY <2>1, <2>2, <2>4
  <2>5. CASE <<b, a>> \in R
    BY <2>1, <2>2, <2>5
  <2> QED BY <2>3, <2>4, <2>5
<1>3. f \in Injection(S, 0..(n - 1))
  BY <1>1, <1>2 DEF Injection, IsInjective
<1>4. IsFiniteSet(0..(n - 1)) /\ Cardinality(0..(n - 1)) = n
  BY <1>n, FS_Interval
<1>5. f \in Surjection(S, 0..(n - 1))
  <2> DEFINE T == 0..(n - 1)
  <2>1. f \in Injection(S, T) /\ IsFiniteSet(T) /\ Cardinality(S) = Cardinality(T)
    BY <1>3, <1>4
  <2> HIDE DEF f, n, T
  <2>2. f \in Surjection(S, T)
    BY <2>1, FS_Injection
  <2> QED BY <2>2 DEF T
<1>6. \A k \in 1..n : \E a \in S : f[a] = k - 1
  <2> SUFFICES ASSUME NEW k \in 1..n PROVE \E a \in S : f[a] = k - 1
    OBVIOUS
  <2>1. k - 1 \in 0..(n - 1)
    BY <1>n
  <2> HIDE DEF f, n
  <2> QED BY <2>1, <1>5 DEF Surjection
<1>7. InOrder(S, R) = [k \in 1..n |-> CHOOSE a \in S : f[a] = k - 1]
  BY DEF InOrder
<1>8. \A k \in 1..n : InOrder(S, R)[k] \in S /\ f[InOrder(S, R)[k]] = k - 1
  <2> SUFFICES ASSUME NEW k \in 1..n
               PROVE  InOrder(S, R)[k] \in S /\ f[InOrder(S, R)[k]] = k - 1
    OBVIOUS
  <2>1. InOrder(S, R)[k] = CHOOSE a \in S : f[a] = k - 1
    BY <1>7
  <2> HIDE DEF f
  <2> QED BY <2>1, <1>6
<1>9. \A k \in 1..n : InOrder(S, R)[k] \in S /\ Ahead(S, R, InOrder(S, R)[k]) = k - 1
  BY <1>8
<1>10. InOrder(S, R) \in [1..n -> S]
  BY <1>7, <1>8
<1> HIDE DEF n, f
<1>11. ASSUME NEW a \in S
       PROVE  Ahead(S, R, a) + 1 \in 1..n /\ InOrder(S, R)[Ahead(S, R, a) + 1] = a
  <2> DEFINE k == Ahead(S, R, a) + 1
  <2>1. k \in 1..n /\ Ahead(S, R, a) = k - 1
    BY <1>1, <1>n
  <2>2. Ahead(S, R, InOrder(S, R)[k]) = k - 1 /\ InOrder(S, R)[k] \in S
    BY <2>1, <1>9, <1>10
  <2> QED BY <2>1, <2>2, <1>2
<1> QED BY <1>9, <1>10, <1>11 DEF n

\* The cards the first n places of a sort show are the first n.
LEMMA FirstShown ==
    ASSUME NEW S, NEW R, IsFiniteSet(S), TotalOn(R, S), NEW m \in Nat, NEW n \in Nat
    PROVE  {InOrder(S, R)[k] : k \in (m + 1)..(IF Cardinality(S) < n THEN Cardinality(S) ELSE n)}
           = {a \in S : Ahead(S, R, a) \in m..(n - 1)}
<1> DEFINE s == InOrder(S, R)
           size == Cardinality(S)
           last == IF size < n THEN size ELSE n
<1>1. size \in Nat
  BY FS_CardinalityType
<1>2. /\ \A k \in 1..size : s[k] \in S /\ Ahead(S, R, s[k]) = k - 1
      /\ \A a \in S : Ahead(S, R, a) + 1 \in 1..size /\ s[Ahead(S, R, a) + 1] = a
  BY InOrderPlaces
<1>3. \A a \in S : Ahead(S, R, a) \in Nat
  BY AheadRange, <1>1
<1> HIDE DEF s, size
<1>4. ASSUME NEW k \in (m + 1)..last
      PROVE  s[k] \in S /\ Ahead(S, R, s[k]) \in m..(n - 1)
  BY <1>1, <1>2
<1>5. ASSUME NEW a \in S, Ahead(S, R, a) \in m..(n - 1)
      PROVE  \E k \in (m + 1)..last : s[k] = a
  <2>1. Ahead(S, R, a) + 1 \in (m + 1)..last
    BY <1>1, <1>2, <1>5
  <2> QED BY <1>2, <2>1
<1>6. {s[k] : k \in (m + 1)..last} = {a \in S : Ahead(S, R, a) \in m..(n - 1)}
  BY <1>4, <1>5
<1> QED BY <1>6 DEF s, size

\* There are n of them, or all.
LEMMA FirstSize ==
    ASSUME NEW S, NEW R, IsFiniteSet(S), TotalOn(R, S), NEW n \in Nat
    PROVE  /\ IsFiniteSet(First(S, R, n))
           /\ Cardinality(First(S, R, n)) = IF Cardinality(S) < n THEN Cardinality(S) ELSE n
<1> DEFINE F == First(S, R, n)
           size == Cardinality(S)
           last == IF size < n THEN size ELSE n
           s == InOrder(S, R)
           f == [k \in 1..last |-> s[k]]
<1>1. size \in Nat
  BY FS_CardinalityType
<1>2. /\ \A k \in 1..size : s[k] \in S /\ Ahead(S, R, s[k]) = k - 1
      /\ \A a \in S : Ahead(S, R, a) + 1 \in 1..size /\ s[Ahead(S, R, a) + 1] = a
  BY InOrderPlaces
<1>3. \A a \in S : Ahead(S, R, a) \in Nat
  BY AheadRange, <1>1
<1> HIDE DEF s, size
<1>4. last \in Nat /\ \A k \in 1..last : k \in 1..size /\ k - 1 < n
  BY <1>1
<1>5. \A a \in F : a \in S /\ Ahead(S, R, a) + 1 \in 1..last
  BY <1>1, <1>2, <1>3 DEF First
<1>6. \A k \in 1..last : s[k] \in F
  BY <1>2, <1>4 DEF First
<1> HIDE DEF last, F
<1>7. f \in [1..last -> F]
  BY <1>6
<1>8. \A j, k \in 1..last : f[j] = f[k] => j = k
  <2>1. \A k \in 1..last : Ahead(S, R, f[k]) = k - 1 /\ k \in Int
    BY <1>2, <1>4
  <2> QED BY <2>1
<1>9. \A a \in F : f[Ahead(S, R, a) + 1] = a
  BY <1>2, <1>5
<1> HIDE DEF f
<1>10. f \in Bijection(1..last, F)
  <2>1. f \in Injection(1..last, F)
    BY <1>7, <1>8 DEF Injection, IsInjective
  <2>2. f \in Surjection(1..last, F)
    BY <1>5, <1>7, <1>9 DEF Surjection
  <2> QED BY <2>1, <2>2 DEF Bijection
<1>11. ExistsBijection(1..last, F)
  BY <1>10 DEF ExistsBijection
<1>12. Cardinality(F) = last
  BY <1>4, <1>11, FS_CountingElements
<1>13. IsFiniteSet(F)
  BY FS_Subset DEF F, First
<1> QED BY <1>12, <1>13 DEF F, last, size

\* Who is left has no more ahead when others leave.
LEMMA AheadShrinks ==
    ASSUME NEW T, NEW S \in SUBSET T, NEW R, IsFiniteSet(T), NEW a
    PROVE  /\ Ahead(S, R, a) \in Nat /\ Ahead(T, R, a) \in Nat
           /\ Ahead(S, R, a) <= Ahead(T, R, a)
<1> DEFINE A == {b \in S : <<b, a>> \in R}
           B == {b \in T : <<b, a>> \in R}
<1>1. A \subseteq B /\ B \subseteq T
  OBVIOUS
<1> HIDE DEF A, B
<1>2. IsFiniteSet(B)
  BY <1>1, FS_Subset
<1>3. IsFiniteSet(A) /\ Cardinality(A) <= Cardinality(B)
  BY <1>1, <1>2, FS_Subset
<1>4. Cardinality(A) \in Nat /\ Cardinality(B) \in Nat
  BY <1>2, <1>3, FS_CardinalityType
<1> QED BY <1>3, <1>4 DEF A, B, Ahead

LEMMA FirstKept ==
    ASSUME NEW T, NEW S \in SUBSET T, NEW R, IsFiniteSet(T), NEW n \in Nat
    PROVE  First(T, R, n) \cap S \subseteq First(S, R, n)
<1>1. ASSUME NEW a \in First(T, R, n) \cap S PROVE a \in First(S, R, n)
  BY AheadShrinks DEF First
<1> QED BY <1>1

\* When elements leave a set, no more become one of the first n than leave the first n:
\* some elements C of the first n and those that join them are bounded by C and by the
\* others that leave.
LEMMA FirstAdvance ==
    ASSUME NEW T, NEW S \in SUBSET T, NEW R, IsFiniteSet(T), TotalOn(R, T), NEW n \in Nat,
           NEW C \in SUBSET First(T, R, n)
    PROVE  LET W == (C \cap S) \cup (First(S, R, n) \ First(T, R, n))
               X == (First(T, R, n) \ S) \ C
           IN  /\ IsFiniteSet(W) /\ IsFiniteSet(C) /\ IsFiniteSet(X)
               /\ Cardinality(W) <= Cardinality(C) + Cardinality(X)
<1> DEFINE A == First(S, R, n)
           B == First(T, R, n)
           N == B \ S
           X == N \ C
           W == (C \cap S) \cup (A \ B)
<1>1. IsFiniteSet(S) /\ TotalOn(R, S) /\ Cardinality(S) <= Cardinality(T)
  BY FS_Subset DEF TotalOn
<1>2. /\ IsFiniteSet(A)
      /\ Cardinality(A) = IF Cardinality(S) < n THEN Cardinality(S) ELSE n
  BY <1>1, FirstSize
<1>3. /\ IsFiniteSet(B)
      /\ Cardinality(B) = IF Cardinality(T) < n THEN Cardinality(T) ELSE n
  BY FirstSize
<1>4. B \cap S \subseteq A /\ A \subseteq S /\ B \subseteq T
  BY FirstKept DEF First
<1>5. Cardinality(S) \in Nat /\ Cardinality(T) \in Nat
  BY <1>1, FS_CardinalityType
<1>6. C \subseteq B
  OBVIOUS
<1> HIDE DEF A, B
<1>7. Cardinality(A) <= Cardinality(B)
  BY <1>1, <1>2, <1>3, <1>5
<1>8. /\ IsFiniteSet(A \ B) /\ Cardinality(A \ B) = Cardinality(A) - Cardinality(A \cap B)
      /\ IsFiniteSet(B \ A) /\ Cardinality(B \ A) = Cardinality(B) - Cardinality(B \cap A)
      /\ IsFiniteSet(N) /\ IsFiniteSet(C)
  BY <1>2, <1>3, <1>6, FS_Difference, FS_Subset
<1>9. B \ A \in SUBSET N /\ C \ N = C \cap S
  BY <1>4, <1>6
<1>10. Cardinality(B \ A) <= Cardinality(N)
  BY <1>8, <1>9, FS_Subset
<1>11. A \cap B = B \cap A /\ N \cap C = C \cap N
  OBVIOUS
<1> HIDE DEF N
<1>12. IsFiniteSet(X) /\ Cardinality(X) = Cardinality(N) - Cardinality(C \cap N)
  BY <1>8, <1>11, FS_Difference
<1>13. IsFiniteSet(C \cap S) /\ Cardinality(C \cap S) = Cardinality(C) - Cardinality(C \cap N)
  <2>1. IsFiniteSet(C \ N) /\ Cardinality(C \ N) = Cardinality(C) - Cardinality(C \cap N)
    BY <1>8, FS_Difference
  <2> QED BY <1>9, <2>1
<1> DEFINE P == C \cap S
           J == A \ B
<1>14. /\ IsFiniteSet(W) /\ Cardinality(W) = Cardinality(P) + Cardinality(J) - Cardinality(P \cap J)
       /\ IsFiniteSet(P \cap J)
  BY <1>8, <1>13, FS_Union, FS_Intersection
<1>15. /\ Cardinality(A) \in Nat /\ Cardinality(B) \in Nat /\ Cardinality(A \cap B) \in Nat
       /\ Cardinality(C) \in Nat /\ Cardinality(N) \in Nat /\ Cardinality(C \cap N) \in Nat
       /\ Cardinality(P \cap J) \in Nat
  <2>1. IsFiniteSet(A \cap B) /\ IsFiniteSet(C \cap N)
    BY <1>2, <1>8, FS_Intersection
  <2> QED BY <1>2, <1>3, <1>8, <1>14, <2>1, FS_CardinalityType
<1>16. /\ Cardinality(J) = Cardinality(A) - Cardinality(A \cap B)
       /\ Cardinality(B \ A) = Cardinality(B) - Cardinality(A \cap B)
       /\ Cardinality(P) = Cardinality(C) - Cardinality(C \cap N)
  BY <1>8, <1>11, <1>13
<1> HIDE DEF X, W, P, J
<1>17. Cardinality(W) <= Cardinality(C) + Cardinality(X)
  BY <1>7, <1>10, <1>12, <1>14, <1>15, <1>16
<1> QED BY <1>8, <1>12, <1>14, <1>17 DEF W, X, N, A, B

-------------------------------------------------------------------------------
(* The order of the feed: scores are fractions, compared crosswise.        *)

LEMMA ProductsCompare ==
    ASSUME NEW a \in Int, NEW b \in Int, NEW c \in Nat \ {0}
    PROVE  /\ a < b <=> a * c < b * c
           /\ a <= b <=> a * c <= b * c
<1>1. a < b => a * c < b * c
  OBVIOUS
<1>2. b < a => b * c < a * c
  OBVIOUS
<1>3. a * c \in Int /\ b * c \in Int
  OBVIOUS
<1> QED BY <1>1, <1>2, <1>3

LEMMA ScaledUp ==
    ASSUME NEW a \in Nat, NEW b \in Nat, NEW c \in Nat, a <= b
    PROVE  c * a <= c * b
<1>1. CASE c = 0
  BY <1>1
<1>2. CASE c # 0
  <2>1. a * c <= b * c
    BY <1>2, ProductsCompare
  <2>2. a * c = c * a /\ b * c = c * b
    OBVIOUS
  <2> QED BY <2>1, <2>2
<1> QED BY <1>1, <1>2

\* x / p up to y / q and that up to z / r.
LEMMA FractionsCompare ==
    ASSUME NEW x \in Nat, NEW y \in Nat, NEW z \in Nat,
           NEW p \in Nat \ {0}, NEW q \in Nat \ {0}, NEW r \in Nat \ {0},
           x * q <= y * p, y * r <= z * q
    PROVE  /\ x * r <= z * p
           /\ x * q < y * p \/ y * r < z * q => x * r < z * p
<1> DEFINE a == x * q
           b == y * p
           c == y * r
           d == z * q
<1>1. a \in Int /\ b \in Int /\ c \in Int /\ d \in Int /\ x * r \in Int /\ z * p \in Int
  OBVIOUS
<1>2. a * r = (x * r) * q /\ d * p = (z * p) * q /\ b * r = c * p
  OBVIOUS
<1>3. a <= b /\ c <= d
  OBVIOUS
<1>4. (a < b => a * r < b * r) /\ (c < d => c * p < d * p)
      /\ a * r <= b * r /\ c * p <= d * p
  <2> HIDE DEF a, b, c, d
  <2> QED BY <1>1, <1>3, ProductsCompare
<1>5. a * r \in Int /\ b * r \in Int /\ d * p \in Int
  BY <1>1
<1> HIDE DEF a, b, c, d
<1>6. a * r <= d * p /\ (a < b \/ c < d => a * r < d * p)
  <2> DEFINE ar == a * r
             br == b * r
             dp == d * p
             cp == c * p
  <2>1. ar \in Int /\ br \in Int /\ dp \in Int /\ br = cp
    BY <1>2, <1>5
  <2>2. (a < b => ar < br) /\ (c < d => cp < dp) /\ ar <= br /\ cp <= dp
    BY <1>4
  <2> HIDE DEF ar, br, cp, dp
  <2>3. ar <= dp /\ (a < b \/ c < d => ar < dp)
    BY <2>1, <2>2
  <2> QED BY <2>3 DEF ar, dp
<1>7. (x * r) * q <= (z * p) * q /\ (a < b \/ c < d => (x * r) * q < (z * p) * q)
  BY <1>2, <1>6
<1>8. x * r <= z * p /\ (a < b \/ c < d => x * r < z * p)
  <2> DEFINE m == x * r
             n == z * p
  <2>1. m \in Int /\ n \in Int /\ m * q <= n * q /\ (a < b \/ c < d => m * q < n * q)
    BY <1>1, <1>7
  <2> HIDE DEF m, n
  <2>2. m <= n /\ (a < b \/ c < d => m < n)
    BY <2>1, ProductsCompare
  <2> QED BY <2>2 DEF m, n
<1> QED BY <1>8 DEF a, b, c, d

\* The scores put the cards in a row, whatever the hashes and weights are.
LEMMA OrderTotal ==
    ASSUME NEW h \in [Cards -> Nat], NEW w \in [Cards -> Nat \ {0}]
    PROVE  TotalOn(Order(h, w), Cards)
<1>1. Cards \subseteq Int
  BY CardsAssumption, FS_CardinalityType
<1>2. \A a, b \in Cards : <<a, b>> \in Order(h, w) <=> Before(h, w, a, b)
  BY DEF Order
<1>3. \A a, b \in Cards : h[a] * w[b] \in Int
  OBVIOUS
<1>4. ASSUME NEW a \in Cards PROVE ~Before(h, w, a, a)
  BY <1>1, <1>3 DEF Before
<1>5. ASSUME NEW a \in Cards, NEW b \in Cards
      PROVE  a = b \/ Before(h, w, a, b) \/ Before(h, w, b, a)
  <2> DEFINE m == h[a] * w[b]
             n == h[b] * w[a]
  <2>1. m \in Int /\ n \in Int /\ a \in Int /\ b \in Int
    BY <1>1, <1>3
  <2> HIDE DEF m, n
  <2>2. m < n \/ n < m \/ (m = n /\ (a < b \/ a = b \/ b < a))
    BY <2>1
  <2> QED BY <2>2 DEF Before, m, n
<1>6. ASSUME NEW a \in Cards, NEW b \in Cards, NEW c \in Cards,
             Before(h, w, a, b), Before(h, w, b, c)
      PROVE  Before(h, w, a, c)
  <2>1. h[a] * w[b] <= h[b] * w[a] /\ h[b] * w[c] <= h[c] * w[b]
    BY <1>3, <1>6 DEF Before
  <2>2. /\ h[a] * w[c] <= h[c] * w[a]
        /\ h[a] * w[b] < h[b] * w[a] \/ h[b] * w[c] < h[c] * w[b]
              => h[a] * w[c] < h[c] * w[a]
    BY <2>1, FractionsCompare
  <2>3. ~(h[a] * w[b] < h[b] * w[a]) /\ ~(h[b] * w[c] < h[c] * w[b]) => a < c
    BY <1>1, <1>6 DEF Before
  <2>4. h[a] * w[c] < h[c] * w[a] \/ h[a] * w[c] = h[c] * w[a]
    <3> DEFINE m == h[a] * w[c]
               n == h[c] * w[a]
    <3>1. m \in Int /\ n \in Int /\ m <= n
      BY <1>3, <2>2
    <3> HIDE DEF m, n
    <3>2. m < n \/ m = n
      BY <3>1
    <3> QED BY <3>2 DEF m, n
  <2> QED BY <2>2, <2>3, <2>4 DEF Before
<1> QED BY <1>2, <1>4, <1>5, <1>6 DEF TotalOn

-------------------------------------------------------------------------------
(* The weights.                                                            *)

Tiers == {"easy", "medium", "hard"}
Rungs == 0..MaxDifficultyLevel

\* The table of the ladder: from rung to rung hard cards gain and easy ones lose.
LEMMA Ladder ==
    ASSUME NEW rung \in Rungs, NEW tier \in Tiers
    PROVE  /\ LevelWeights[rung + 1][tier] \in Nat \ {0}
           /\ Floor[tier] \in Nat \ {0}
           /\ rung < MaxDifficultyLevel =>
                 /\ LevelWeights[rung + 1]["hard"] <= LevelWeights[rung + 2]["hard"]
                 /\ LevelWeights[rung + 2]["easy"] <= LevelWeights[rung + 1]["easy"]
<1>1. rung \in {0, 1, 2, 3, 4}
  BY DEF Rungs, MaxDifficultyLevel
<1>2. CASE rung = 0
  BY <1>2 DEF LevelWeights, Floor, MaxDifficultyLevel, Tiers
<1>3. CASE rung = 1
  BY <1>3 DEF LevelWeights, Floor, MaxDifficultyLevel, Tiers
<1>4. CASE rung = 2
  BY <1>4 DEF LevelWeights, Floor, MaxDifficultyLevel, Tiers
<1>5. CASE rung = 3
  BY <1>5 DEF LevelWeights, Floor, MaxDifficultyLevel, Tiers
<1>6. CASE rung = 4
  BY <1>6 DEF LevelWeights, Floor, MaxDifficultyLevel, Tiers
<1> QED BY <1>1, <1>2, <1>3, <1>4, <1>5, <1>6

\* The parts of a weight.
ByTier(c, rung, difficulty) ==
    IF difficulty = Difficulty[c] THEN AtLeast(LevelWeights[rung + 1][Difficulty[c]], Floor[difficulty])
    ELSE LevelWeights[rung + 1][Difficulty[c]]

ByCategory(c, category) ==
    IF category = Category[c] /\ category \in DOMAIN CategoryWeight THEN 35
    ELSE IF Category[c] \in DOMAIN CategoryWeight THEN CategoryWeight[Category[c]] ELSE 10

Rest(c, category, boosted) == ByCategory(c, category) * (IF c \in boosted THEN 3 ELSE 1)

LEMMA WeightParts ==
    ASSUME NEW c \in Cards, NEW rung \in Rungs, NEW difficulty, NEW category, NEW boosted
    PROVE  /\ Difficulty[c] \in Tiers
           /\ ByTier(c, rung, difficulty) \in Nat \ {0}
           /\ Rest(c, category, boosted) \in Nat \ {0}
           /\ Weight(c, rung, difficulty, category, boosted)
                = ByTier(c, rung, difficulty) * Rest(c, category, boosted)
           /\ Weight(c, rung, difficulty, category, boosted) \in Nat \ {0}
<1>1. Difficulty[c] \in Tiers
  BY RankingAssumption DEF Tiers
<1>2. ByTier(c, rung, difficulty) \in Nat \ {0}
  BY <1>1, Ladder DEF ByTier, AtLeast
<1>3. ByCategory(c, category) \in Nat \ {0}
  <2>1. \A k \in DOMAIN CategoryWeight : CategoryWeight[k] \in Nat \ {0}
    BY DEF CategoryWeight
  <2> QED BY <2>1 DEF ByCategory
<1>4. Rest(c, category, boosted) \in Nat \ {0}
  BY <1>3 DEF Rest
<1>5. Weight(c, rung, difficulty, category, boosted)
        = ByTier(c, rung, difficulty) * ByCategory(c, category) * (IF c \in boosted THEN 3 ELSE 1)
  BY DEF Weight, ByTier, ByCategory
<1>6. Weight(c, rung, difficulty, category, boosted)
        = ByTier(c, rung, difficulty) * Rest(c, category, boosted)
  BY <1>2, <1>3, <1>5 DEF Rest
<1>7. ByTier(c, rung, difficulty) * Rest(c, category, boosted) \in Nat \ {0}
  BY <1>2, <1>4
<1> QED BY <1>1, <1>2, <1>4, <1>6, <1>7

LEMMA WeightsPositive ==
    ASSUME NEW rung \in Rungs, NEW boosted
    PROVE  Weights(rung, boosted) \in [Cards -> Nat \ {0}]
BY WeightParts DEF Weights

\* A card that gains weight keeps ahead of one that loses.
LEMMA BeforeKept ==
    ASSUME NEW h \in [Cards -> Nat],
           NEW v \in [Cards -> Nat \ {0}], NEW w \in [Cards -> Nat \ {0}],
           NEW a \in Cards, NEW b \in Cards,
           v[a] <= w[a], w[b] <= v[b], Before(h, v, a, b)
    PROVE  Before(h, w, a, b)
<1> DEFINE k == h[a] * w[b]
           l == h[a] * v[b]
           m == h[b] * v[a]
           n == h[b] * w[a]
<1>1. k \in Int /\ l \in Int /\ m \in Int /\ n \in Int
  OBVIOUS
<1>2. k <= l /\ m <= n
  <2>1. h[a] \in Nat /\ h[b] \in Nat /\ v[a] \in Nat /\ w[a] \in Nat /\ v[b] \in Nat /\ w[b] \in Nat
    OBVIOUS
  <2> DEFINE ha == h[a]
             hb == h[b]
             va == v[a]
             wa == w[a]
             vb == v[b]
             wb == w[b]
  <2>2. ha \in Nat /\ hb \in Nat /\ va \in Nat /\ wa \in Nat /\ vb \in Nat /\ wb \in Nat
        /\ va <= wa /\ wb <= vb
    BY <2>1
  <2> HIDE DEF ha, hb, va, wa, vb, wb
  <2>3. ha * wb <= ha * vb
    BY <2>2, ScaledUp
  <2>4. hb * va <= hb * wa
    BY <2>2, ScaledUp
  <2> QED BY <2>3, <2>4 DEF ha, hb, va, wa, vb, wb
<1>3. l < m \/ (l = m /\ a < b)
  BY DEF Before
<1> HIDE DEF k, l, m, n
<1>4. k < n \/ (k = n /\ a < b)
  BY <1>1, <1>2, <1>3
<1> QED BY <1>4 DEF Before, k, n

\* The weights of all cards as WeightsOrdered names them.
Toward(rung, difficulty) == [c \in Cards |-> Weight(c, rung, difficulty, "none", due)]

LEMMA TowardPositive ==
    ASSUME NEW rung \in Rungs, NEW difficulty
    PROVE  Toward(rung, difficulty) \in [Cards -> Nat \ {0}]
BY WeightParts DEF Toward

\* What a tier gains or loses, its cards gain or lose.
LEMMA WeightGrows ==
    ASSUME NEW c \in Cards, NEW r \in Rungs, NEW s \in Rungs, NEW p, NEW q,
           ByTier(c, r, p) <= ByTier(c, s, q)
    PROVE  Toward(r, p)[c] <= Toward(s, q)[c]
<1> DEFINE x == ByTier(c, r, p)
           y == ByTier(c, s, q)
           z == Rest(c, "none", due)
<1>1. x \in Nat /\ y \in Nat /\ z \in Nat
  BY WeightParts
<1>2. Toward(r, p)[c] = x * z /\ Toward(s, q)[c] = y * z
  <2>1. /\ Toward(r, p)[c] = Weight(c, r, p, "none", due)
        /\ Toward(s, q)[c] = Weight(c, s, q, "none", due)
    BY DEF Toward
  <2>2. Weight(c, r, p, "none", due) = x * z
    BY WeightParts
  <2>3. Weight(c, s, q, "none", due) = y * z
    BY WeightParts
  <2> QED BY <2>1, <2>2, <2>3, Zenon
<1> HIDE DEF x, y, z
<1>3. x * z = z * x /\ y * z = z * y
  BY <1>1
<1>4. x <= y
  BY DEF x, y
<1>5. z * x <= z * y
  BY <1>1, <1>4, ScaledUp
<1> QED BY <1>2, <1>3, <1>5

LEMMA RungOrdered ==
    ASSUME hash \in [Cards -> Nat], NEW a \in Cards, NEW b \in Cards, NEW p,
           NEW rung \in 0..(MaxDifficultyLevel - 1),
           Difficulty[a] = "hard", Difficulty[b] = "easy",
           Before(hash, Toward(rung, p), a, b)
    PROVE  Before(hash, Toward(rung + 1, p), a, b)
<1>1. rung \in Rungs /\ rung + 1 \in Rungs /\ rung < MaxDifficultyLevel
      /\ rung + 1 + 1 = rung + 2
  BY DEF Rungs, MaxDifficultyLevel
<1>2. "hard" \in Tiers /\ "easy" \in Tiers
  BY DEF Tiers
<1>3. /\ LevelWeights[rung + 1]["hard"] <= LevelWeights[rung + 2]["hard"]
      /\ LevelWeights[rung + 2]["easy"] <= LevelWeights[rung + 1]["easy"]
      /\ \A t \in {"hard", "easy"} :
            /\ LevelWeights[rung + 1][t] \in Nat /\ LevelWeights[rung + 2][t] \in Nat
            /\ Floor[t] \in Nat
  BY <1>1, <1>2, Ladder
<1>4. ByTier(a, rung, p) <= ByTier(a, rung + 1, p)
  BY <1>1, <1>3 DEF ByTier, AtLeast
<1>5. ByTier(b, rung + 1, p) <= ByTier(b, rung, p)
  BY <1>1, <1>3 DEF ByTier, AtLeast
<1> QED BY <1>1, <1>4, <1>5, WeightGrows, TowardPositive, BeforeKept

LEMMA PreferenceOrdered ==
    ASSUME hash \in [Cards -> Nat], NEW a \in Cards, NEW b \in Cards,
           NEW p \in {"none", "easy", "medium", "hard"}, NEW rung \in Rungs,
           Difficulty[a] = p, Difficulty[b] # p,
           Before(hash, Toward(rung, "none"), a, b)
    PROVE  Before(hash, Toward(rung, p), a, b)
<1>1. Difficulty[a] \in Tiers /\ Difficulty[b] \in Tiers /\ Difficulty[a] # "none" /\ Difficulty[b] # "none"
  BY RankingAssumption DEF Tiers
<1> DEFINE x == LevelWeights[rung + 1][Difficulty[a]]
           y == LevelWeights[rung + 1][Difficulty[b]]
           z == Floor[Difficulty[a]]
<1>2. x \in Nat /\ y \in Nat /\ z \in Nat
  BY <1>1, Ladder
<1>3. ByTier(a, rung, "none") = x /\ ByTier(a, rung, p) = AtLeast(x, z)
      /\ ByTier(b, rung, "none") = y /\ ByTier(b, rung, p) = y
  BY <1>1 DEF ByTier
<1> HIDE DEF x, y, z
<1>4. x <= AtLeast(x, z) /\ y <= y
  BY <1>2 DEF AtLeast
<1>5. ByTier(a, rung, "none") <= ByTier(a, rung, p) /\ ByTier(b, rung, p) <= ByTier(b, rung, "none")
  BY <1>3, <1>4, Zenon
<1> QED BY <1>5, WeightGrows, TowardPositive, BeforeKept

\* For every catalog and every hash: a rung up the ladder never puts an easy card
\* before a hard one it was behind, and asking for a difficulty never puts a card
\* of it further back (LEVEL_WEIGHTS, calculateWeights).
THEOREM LadderHolds == Spec => []WeightsOrdered
<1>1. Init => hash \in [Cards -> Nat]
  BY RankingAssumption DEF Init
<1>2. hash \in [Cards -> Nat] /\ [Next]_vars => (hash \in [Cards -> Nat])'
  BY RankingAssumption
     DEF Next, vars, GetBatch, PageExpires, ViewExpires, ReadSeen, Restart, Answer, ComesDue,
         Midnight
<1>3. hash \in [Cards -> Nat] => WeightsOrdered
  <2> SUFFICES ASSUME hash \in [Cards -> Nat], NEW a \in Cards, NEW b \in Cards,
                      NEW p \in {"none", "easy", "medium", "hard"}
               PROVE  /\ \A rung \in 0..(MaxDifficultyLevel - 1) :
                            Difficulty[a] = "hard" /\ Difficulty[b] = "easy"
                            /\ Before(hash, Toward(rung, p), a, b)
                                => Before(hash, Toward(rung + 1, p), a, b)
                      /\ \A rung \in 0..MaxDifficultyLevel :
                            Difficulty[a] = p /\ Difficulty[b] # p
                            /\ Before(hash, Toward(rung, "none"), a, b)
                                => Before(hash, Toward(rung, p), a, b)
    BY Zenon DEF WeightsOrdered, Toward
  <2>1. 0..MaxDifficultyLevel = Rungs
    BY DEF Rungs
  <2> QED BY <2>1, RungOrdered, PreferenceOrdered
<1> QED BY <1>1, <1>2, <1>3, PTL DEF Spec

-------------------------------------------------------------------------------
(* The walk through the pages.                                             *)

\* A ranking, as the observer remembers it: the cards it ranked, and their order.
Bases == [hash : Hashes, rung : Rungs, due : SUBSET Cards, seen : SUBSET Cards]
Left(b) == Cards \ b.seen
RankedBy(b) == Order(b.hash, Weights(b.rung, b.due))
Passes(b, n) == First(Left(b), RankedBy(b), n)

\* The page shows places m + 1 to n of its ranking.
Shows(page, m, n) ==
    ToSet(page.ids) = {c \in Left(page.basis) : Ahead(Left(page.basis), RankedBy(page.basis), c) \in m..(n - 1)}

Shape ==
    /\ hash \in Hashes /\ seen \subseteq Cards /\ due \subseteq Cards /\ wrong \subseteq Cards
    /\ \A name \in DOMAIN views : views[name] \subseteq Cards
    /\ DOMAIN pages \subseteq Nat \X Counts \X Rungs
    /\ \A key \in DOMAIN pages :
          /\ pages[key].basis \in Bases
          /\ Shows(pages[key], key[1], key[1] + key[2])
    /\ walk.cursor \in Nat
    /\ dealt \in [Cards -> Nat] /\ steady \in BOOLEAN /\ bases \subseteq Bases

\* The cards that rankings b of B are without and rankings a of B are not.
Grown(B) == {c \in Cards : \E a, b \in B : c \in b.seen /\ c \notin a.seen}

Cached == {pages[key].basis : key \in DOMAIN pages}

\* A cached set of seen cards lacks none that is seen now, and what it has besides came
\* due: an answer leaves no view and no page behind.
Stale(cards) == seen \subseteq cards /\ cards \ seen \subseteq due

ViewsInv ==
    /\ "seen" \in DOMAIN views => Stale(views["seen"])
    /\ \A q \in Cached : Stale(q.seen)
    /\ \A b \in bases : b.seen \ seen \subseteq due

\* The pages of a walk were ranked on one date, on one rung and with the same cards
\* boosted.
OneRanking(B) == \A a, b \in B : a.hash = b.hash /\ a.rung = b.rung /\ a.due = b.due

\* A card that was dealt is behind the cursor, in a ranking of the walk.
WalkInv ==
    /\ bases # {} => steady
    /\ steady /\ bases = {} => walk.cursor = 0 /\ \A c \in Cards : dealt[c] = 0
    /\ OneRanking(bases)
    /\ steady => \A c \in Cards :
          /\ dealt[c] <= 1
          /\ dealt[c] = 1 => \E b \in bases : c \in Passes(b, walk.cursor)

\* Behind the cursor, in the last ranking of the walk, are no more cards that were not
\* dealt than the rankings have lost, after they were dealt, since the first.
SkipInv ==
    bases # {} =>
        \E b \in bases :
           /\ \A a \in bases : a.seen \subseteq b.seen
           /\ Cardinality({c \in Passes(b, walk.cursor) : dealt[c] = 0})
                 <= Cardinality({c \in Grown(bases) : dealt[c] > 0})

LEMMA Ranked ==
    ASSUME NEW b \in Bases
    PROVE  /\ Left(b) \subseteq Cards /\ IsFiniteSet(Cards) /\ IsFiniteSet(Left(b))
           /\ TotalOn(RankedBy(b), Cards) /\ TotalOn(RankedBy(b), Left(b))
<1>1. IsFiniteSet(Cards)
  BY CardsAssumption
<1>2. Left(b) \subseteq Cards
  BY DEF Left
<1>3. b.hash \in [Cards -> Nat] /\ b.rung \in Rungs
  BY RankingAssumption DEF Bases
<1>4. TotalOn(RankedBy(b), Cards)
  BY <1>3, WeightsPositive, OrderTotal DEF RankedBy
<1> QED BY <1>1, <1>2, <1>4, FS_Subset DEF TotalOn

LEMMA Clamped ==
    ASSUME NEW level \in Levels
    PROVE  ClampLevel(level) \in Rungs
BY RequestsAssumption DEF ClampLevel, AtMost, AtLeast, Rungs, MaxDifficultyLevel

\* The slice of the ranking that getBatch returns.
LEMMA PageShows ==
    ASSUME Shape, NEW offset \in Nat, NEW count \in Nat, NEW rung \in Rungs
    PROVE  /\ Page(offset, count, rung).basis = Basis(rung)
           /\ Basis(rung) \in Bases
           /\ Shows(Page(offset, count, rung), offset, offset + count)
<1> DEFINE b == Basis(rung)
           S == Left(b)
           R == RankedBy(b)
           ranked == InOrder(S, R)
           size == Cardinality(S)
           last == IF size < offset + count THEN size ELSE offset + count
           page == Page(offset, count, rung)
<1>1. b \in Bases
  BY DEF Shape, Viewed, Basis, Bases
<1>2. IsFiniteSet(S) /\ TotalOn(R, S)
  BY <1>1, Ranked
<1>3. size \in Nat
  BY <1>2, FS_CardinalityType
<1>4. RankCards(hash, Weights(rung, Viewed("due")), Viewed("seen")) = ranked
  BY DEF RankCards, Basis, Left, RankedBy
<1>5. ranked \in [1..size -> S]
  BY <1>2, InOrderPlaces
<1>6. ranked \in Seq(S) /\ Len(ranked) = size
  <2> HIDE DEF ranked, size, S
  <2>1. ranked \in Seq(S)
    BY <1>3, <1>5, SeqDef
  <2> QED BY <1>3, <1>5, <2>1, LenProperties
<1>7. page = IF offset >= Len(ranked)
             THEN [ids |-> <<>>, more |-> FALSE, basis |-> b]
             ELSE [ids |-> SubSeq(ranked, offset + 1, AtMost(Len(ranked), offset + count)),
                   more |-> offset + count < Len(ranked), basis |-> b]
  BY <1>4 DEF Page
<1>8. AtMost(Len(ranked), offset + count) \in {last}
  <2> HIDE DEF ranked, size
  <2> QED BY <1>3, <1>6 DEF AtMost
<1>9. {ranked[k] : k \in (offset + 1)..last} = {c \in S : Ahead(S, R, c) \in offset..(offset + count - 1)}
  BY <1>2, FirstShown
<1>10. page.basis = b
  BY <1>7
<1> HIDE DEF page, ranked, size, S, R, b
<1>11. ToSet(page.ids) = {ranked[k] : k \in (offset + 1)..last}
  <2>1. CASE offset >= Len(ranked)
    <3>1. page.ids = <<>> /\ (offset + 1)..last = {}
      BY <1>3, <1>6, <1>7, <2>1
    <3>2. ToSet(<<>>) = {}
      BY DEF ToSet
    <3> QED BY <3>1, <3>2
  <2>2. CASE ~(offset >= Len(ranked))
    <3>1. page.ids = SubSeq(ranked, offset + 1, last)
      BY <1>7, <1>8, <2>2
    <3>2. last \in 0..Len(ranked) /\ offset + 1 \in 1..(last + 1)
      BY <1>3, <1>6, <2>2
    <3> HIDE DEF last
    <3>3. DOMAIN page.ids = 1..(last - offset)
          /\ \A i \in 1..(last - offset) : page.ids[i] = ranked[offset + i]
      BY <1>3, <1>6, <3>1, <3>2, SubSeqProperties
    <3>4. \A k \in (offset + 1)..last : k - offset \in 1..(last - offset) /\ offset + (k - offset) = k
      BY <3>2
    <3>5. \A i \in 1..(last - offset) : offset + i \in (offset + 1)..last
      BY <3>2
    <3> QED BY <3>3, <3>4, <3>5 DEF ToSet
  <2> QED BY <2>1, <2>2
<1>12. Shows(page, offset, offset + count)
  BY <1>9, <1>10, <1>11 DEF Shows, S, R
<1> QED BY <1>1, <1>10, <1>12 DEF page, b

\* A card of the ranking b that stays in a later one, q, does not fall back in it.
LEMMA PassedStays ==
    ASSUME NEW b \in Bases, NEW q \in Bases, b.hash = q.hash, b.rung = q.rung, b.due = q.due,
           b.seen \subseteq q.seen, NEW n \in Nat, NEW c \in Left(q), c \in Passes(b, n)
    PROVE  c \in Passes(q, n)
<1>1. RankedBy(q) = RankedBy(b)
  BY DEF RankedBy
<1>2. Left(q) \in SUBSET Left(b) /\ IsFiniteSet(Left(b))
  BY Ranked DEF Left
<1>3. First(Left(b), RankedBy(b), n) \cap Left(q) \subseteq First(Left(q), RankedBy(b), n)
  BY <1>2, FirstKept
<1> QED BY <1>1, <1>3 DEF Passes

\* A set is bounded by three parts of another.
LEMMA ThreeParts ==
    ASSUME NEW M, IsFiniteSet(M), NEW D \in SUBSET M, NEW G \in SUBSET M, NEW N \in SUBSET M,
           D \cap G = {}, (D \cup G) \cap N = {},
           NEW W, IsFiniteSet(W), Cardinality(W) <= Cardinality(G) + Cardinality(N),
           NEW U, U \subseteq D \cup W
    PROVE  Cardinality(U) <= Cardinality(M)
<1>1. IsFiniteSet(D) /\ IsFiniteSet(G) /\ IsFiniteSet(N)
  BY FS_Subset
<1>2. /\ IsFiniteSet(D \cup G)
      /\ Cardinality(D \cup G) = Cardinality(D) + Cardinality(G) - Cardinality(D \cap G)
  BY <1>1, FS_Union
<1>3. /\ IsFiniteSet((D \cup G) \cup N)
      /\ Cardinality((D \cup G) \cup N)
            = Cardinality(D \cup G) + Cardinality(N) - Cardinality((D \cup G) \cap N)
  BY <1>1, <1>2, FS_Union
<1>4. Cardinality((D \cup G) \cup N) <= Cardinality(M)
  BY FS_Subset
<1>5. /\ IsFiniteSet(D \cup W)
      /\ Cardinality(D \cup W) = Cardinality(D) + Cardinality(W) - Cardinality(D \cap W)
      /\ IsFiniteSet(D \cap W)
  BY <1>1, FS_Union, FS_Intersection
<1>6. IsFiniteSet(U) /\ Cardinality(U) <= Cardinality(D \cup W)
  BY <1>5, FS_Subset
<1>7. Cardinality({}) = 0
  BY FS_EmptySet
<1>8. /\ Cardinality(D) \in Nat /\ Cardinality(G) \in Nat /\ Cardinality(N) \in Nat
      /\ Cardinality(W) \in Nat /\ Cardinality(M) \in Nat
      /\ Cardinality(D \cap W) \in Nat /\ Cardinality(U) \in Nat
  BY <1>1, <1>5, <1>6, FS_CardinalityType
<1>9. Cardinality((D \cup G) \cup N) = Cardinality(D) + Cardinality(G) + Cardinality(N)
  <2>1. Cardinality(D \cap G) = 0 /\ Cardinality((D \cup G) \cap N) = 0
    BY <1>7, Zenon
  <2> QED BY <1>2, <1>3, <1>8, <2>1
<1>10. Cardinality(U) <= Cardinality(D) + Cardinality(G) + Cardinality(N)
  BY <1>5, <1>6, <1>8
<1> QED BY <1>4, <1>8, <1>9, <1>10

\* The page that is dealt holds no card of an earlier page of its ranking, and what it
\* passes over is new to the walk only as far as rankings have lost cards.
LEMMA DealKeeps ==
    ASSUME Shape, WalkInv, SkipInv, NEW page, NEW count \in Nat,
           page.basis \in Bases, Shows(page, walk.cursor, walk.cursor + count),
           ViewsInv, Stale(page.basis.seen), Deal(page, count)
    PROVE  /\ WalkInv' /\ SkipInv'
           /\ walk'.cursor \in Nat /\ dealt' \in [Cards -> Nat] /\ steady' \in BOOLEAN
           /\ bases' \subseteq bases \cup {page.basis}
<1> DEFINE q == page.basis
           all == bases \cup {q}
           same == steady /\ Continues(q)
           n == walk.cursor
<1>1. /\ walk'.cursor = n + count /\ steady' = same
      /\ bases' = IF same THEN all ELSE {}
      /\ dealt' = [c \in Cards |->
                        IF ~same THEN 0
                        ELSE IF c \in ToSet(page.ids) THEN dealt[c] + 1 ELSE dealt[c]]
  BY DEF Deal
<1>2. n \in Nat /\ dealt \in [Cards -> Nat] /\ steady \in BOOLEAN /\ all \subseteq Bases
  BY DEF Shape
<1>3. dealt' \in [Cards -> Nat]
  BY <1>1, <1>2
<1>4. same \in BOOLEAN /\ bases' \subseteq all
  BY <1>1, <1>2 DEF Continues
<1>5. ASSUME ~same PROVE WalkInv' /\ SkipInv'
  <2>1. bases' = {} /\ steady' = FALSE
    BY <1>1, <1>4, <1>5
  <2> QED BY <2>1 DEF WalkInv, SkipInv, OneRanking
<1>6. ASSUME same PROVE WalkInv' /\ SkipInv'
  <2>1. /\ steady /\ steady' /\ bases' = all /\ Continues(q)
        /\ \A c \in Cards : dealt'[c] = IF c \in ToSet(page.ids) THEN dealt[c] + 1 ELSE dealt[c]
    BY <1>1, <1>2, <1>6
  <2>2. /\ \A b \in all : b.hash = q.hash /\ b.rung = q.rung /\ b.due = q.due /\ b.seen \subseteq q.seen
        /\ OneRanking(all)
    <3>1. ASSUME NEW b \in bases
          PROVE  b.hash = q.hash /\ b.rung = q.rung /\ b.due = q.due /\ b.seen \subseteq q.seen
      <4>1. b.hash = q.hash /\ b.rung = q.rung /\ b.due = q.due /\ b.seen \cap due \subseteq q.seen
        BY <2>1 DEF Continues
      <4>2. b.seen \subseteq seen \cup due /\ seen \subseteq q.seen
        BY DEF ViewsInv, Stale
      <4> QED BY <4>1, <4>2
    <3> QED BY <3>1 DEF OneRanking
  <2>3. ToSet(page.ids) = {c \in Left(q) : Ahead(Left(q), RankedBy(q), c) \in n..((n + count) - 1)}
    BY DEF Shows
  <2>4. \A c \in Left(q) : Ahead(Left(q), RankedBy(q), c) \in Nat /\ c \in Cards
    BY AheadShrinks, Ranked DEF Left
  <2> HIDE DEF q, all, same, n
  <2>5. q \in all /\ q \in Bases /\ bases \subseteq all /\ \A b \in all : b \in bases \/ b = q
    BY DEF q, all
  <2>6. \A b \in bases, c \in Left(q) : c \in Passes(b, n) => c \in Passes(q, n)
    BY <1>2, <2>2, <2>5, PassedStays
  <2>7. \A c \in Left(q) : c \in Passes(q, n) => c \notin ToSet(page.ids)
    BY <1>2, <2>3, <2>4 DEF Passes, First
  <2>8. ASSUME NEW b \in all, NEW c \in Passes(b, n) PROVE c \in Passes(b, n + count)
    <3>1. Ahead(Left(b), RankedBy(b), c) \in Nat
      BY <1>2, Ranked, AheadShrinks
    <3> QED BY <1>2, <2>8, <3>1 DEF Passes, First
  <2>9. ASSUME NEW c \in Cards
        PROVE  dealt'[c] <= 1 /\ (dealt'[c] = 1 => \E b \in all : c \in Passes(b, n + count))
    <3>1. dealt[c] \in Nat /\ dealt[c] <= 1
          /\ (dealt[c] = 1 => \E b \in bases : c \in Passes(b, n))
      BY <1>2, <2>1 DEF WalkInv, n
    <3>2. CASE c \in ToSet(page.ids)
      <4>1. c \in Left(q) /\ c \notin Passes(q, n)
        BY <2>3, <2>7, <3>2
      <4>2. dealt[c] = 0
        BY <2>6, <3>1, <4>1
      <4>3. c \in Passes(q, n + count)
        BY <1>2, <2>3, <2>4, <3>2, <4>1 DEF Passes, First
      <4> QED BY <2>1, <2>5, <3>2, <4>2, <4>3
    <3>3. CASE c \notin ToSet(page.ids)
      BY <2>1, <2>5, <2>8, <3>1, <3>3
    <3> QED BY <3>2, <3>3
  <2>10. WalkInv'
    <3>1. bases' # {} /\ OneRanking(bases') /\ walk'.cursor = n + count
      BY <1>1, <2>1, <2>2, <2>5
    <3>2. \A c \in Cards : dealt'[c] <= 1
                           /\ (dealt'[c] = 1 => \E b \in bases' : c \in Passes(b, walk'.cursor))
      BY <2>1, <2>9, <3>1
    <3> QED BY <2>1, <3>1, <3>2 DEF WalkInv, OneRanking, Passes, Left, RankedBy
  <2>11. Cardinality({c \in Passes(q, n + count) : dealt'[c] = 0})
            <= Cardinality({c \in Grown(all) : dealt'[c] > 0})
    <3> DEFINE U == {c \in Passes(q, n + count) : dealt'[c] = 0}
               M == {c \in Grown(all) : dealt'[c] > 0}
    <3>1. IsFiniteSet(M)
      BY CardsAssumption, FS_Subset DEF Grown
    <3>2. \A c \in U : c \in Left(q) /\ c \in Passes(q, n) /\ dealt[c] = 0
      BY <1>2, <2>1, <2>3, <2>4 DEF Passes, First
    <3>3. CASE bases = {}
      <4>1. n = 0
        BY <2>1, <3>3 DEF WalkInv, n
      <4>2. Passes(q, n) = {}
        BY <2>4, <4>1 DEF Passes, First
      <4>3. U = {}
        BY <3>2, <4>2
      <4>4. Cardinality(M) \in Nat /\ Cardinality({}) = 0
        BY <3>1, FS_EmptySet, FS_CardinalityType
      <4>5. Cardinality(U) = 0
        BY <4>3, <4>4, Zenon
      <4> QED BY <4>4, <4>5
    <3>4. CASE bases # {}
      <4>1. PICK b \in bases :
               /\ \A a \in bases : a.seen \subseteq b.seen
               /\ Cardinality({c \in Passes(b, n) : dealt[c] = 0})
                     <= Cardinality({c \in Grown(bases) : dealt[c] > 0})
        BY <3>4 DEF SkipInv, n
      <4> DEFINE C == {c \in Passes(b, n) : dealt[c] = 0}
                 G == {c \in Grown(bases) : dealt[c] > 0}
                 W == (C \cap Left(q)) \cup (First(Left(q), RankedBy(b), n) \ First(Left(b), RankedBy(b), n))
                 X == (First(Left(b), RankedBy(b), n) \ Left(q)) \ C
                 Z == {}
      <4>2. /\ b \in Bases /\ b \in all /\ Left(q) \in SUBSET Left(b)
            /\ RankedBy(b) = RankedBy(q) /\ b.seen \subseteq q.seen
        BY <1>2, <2>2, <2>5 DEF Left, RankedBy, Bases
      <4>3. IsFiniteSet(W) /\ IsFiniteSet(C) /\ IsFiniteSet(X)
            /\ Cardinality(W) <= Cardinality(C) + Cardinality(X)
        <5>1. C \in SUBSET First(Left(b), RankedBy(b), n)
          BY DEF Passes
        <5> HIDE DEF C
        <5> QED BY <1>2, <4>2, <5>1, Ranked, FirstAdvance
      <4>4. U \subseteq Z \cup W
        BY <3>2, <4>2 DEF Passes
      <4>5. \A c \in Cards : dealt[c] \in Nat /\ dealt'[c] >= dealt[c]
        BY <1>2, <2>1
      <4>6. G \in SUBSET M /\ \A c \in G : c \in b.seen
        <5>1. ASSUME NEW c \in Cards, dealt[c] > 0 PROVE dealt'[c] > 0
          BY <1>3, <4>5, <5>1
        <5> QED BY <2>5, <4>1, <5>1 DEF Grown
      <4>7. ASSUME NEW c \in X PROVE c \in M /\ c \notin b.seen
        <5>1. c \in Cards /\ c \notin b.seen /\ c \in q.seen /\ dealt[c] # 0
          BY DEF First, Passes, Left
        <5>2. dealt'[c] > 0
          BY <1>3, <4>5, <5>1
        <5> QED BY <2>5, <4>2, <5>1, <5>2 DEF Grown
      <4>8. IsFiniteSet(G)
        BY <3>1, <4>6, FS_Subset
      <4>9. Cardinality(W) <= Cardinality(G) + Cardinality(X)
        <5>1. Cardinality(C) <= Cardinality(G)
          BY <4>1
        <5> HIDE DEF C, G, W, X
        <5>2. Cardinality(C) \in Nat /\ Cardinality(G) \in Nat /\ Cardinality(X) \in Nat
              /\ Cardinality(W) \in Nat
          BY <4>3, <4>8, FS_CardinalityType
        <5> QED BY <4>3, <5>1, <5>2
      <4>10. Z \in SUBSET M /\ Z \cap G = {} /\ (Z \cup G) \cap X = {} /\ X \in SUBSET M
        <5> HIDE DEF M, G, X
        <5> QED BY <4>6, <4>7
      <4> HIDE DEF U, M, C, G, W, X, Z
      <4>11. Cardinality(U) <= Cardinality(M)
        BY <3>1, <4>3, <4>4, <4>6, <4>9, <4>10, ThreeParts
      <4> QED BY <4>11 DEF U, M
    <3> QED BY <3>3, <3>4
  <2>12. SkipInv'
    <3>1. \A a \in all : a.seen \subseteq q.seen
      BY <2>2
    <3>2. Grown(bases)' = Grown(all) /\ walk'.cursor = n + count
      BY <1>1, <2>1 DEF Grown
    <3>3. /\ \A a \in bases' : a.seen \subseteq q.seen
          /\ Cardinality({c \in Passes(q, walk'.cursor) : dealt'[c] = 0})
                <= Cardinality({c \in Grown(bases)' : dealt'[c] > 0})
          /\ q \in bases'
      BY <2>1, <2>5, <2>11, <3>1, <3>2
    <3> QED BY <3>3 DEF SkipInv, Passes, Left, RankedBy
  <2> QED BY <2>10, <2>12
<1> QED BY <1>1, <1>2, <1>3, <1>4, <1>5, <1>6

FeedInv == Shape /\ ViewsInv /\ WalkInv /\ SkipInv

\* What is behind the cursor, dealt and not dealt, is not changed by a step that leaves
\* the walk alone.
LEMMA WalkStays ==
    ASSUME WalkInv, SkipInv, UNCHANGED <<walk, dealt, steady, bases>>
    PROVE  WalkInv' /\ SkipInv'
BY DEF WalkInv, SkipInv, OneRanking, Grown, Passes, Left, RankedBy

\* A page from the cache.
LEMMA DealCached ==
    ASSUME FeedInv, NEW count \in Counts, NEW rung \in Rungs,
           NEW key, key = <<walk.cursor, count, rung>>, key \in DOMAIN pages,
           Deal(pages[key], count), UNCHANGED <<hash, seen, wrong, due, views, pages>>
    PROVE  FeedInv'
<1> DEFINE page == pages[key]
           q == page.basis
<1>1. count \in Nat
  BY RequestsAssumption
<1>2. page.basis \in Bases /\ Shows(page, key[1], key[1] + key[2]) /\ key[1] = walk.cursor /\ key[2] = count
  BY DEF FeedInv, Shape
<1>3. q \in Cached /\ Stale(q.seen)
  BY DEF FeedInv, ViewsInv, Cached
<1>4. Shape /\ WalkInv /\ SkipInv /\ ViewsInv /\ Shows(page, walk.cursor, walk.cursor + count)
      /\ Deal(page, count)
  BY <1>2 DEF FeedInv
<1>5. /\ WalkInv' /\ SkipInv'
      /\ walk'.cursor \in Nat /\ dealt' \in [Cards -> Nat] /\ steady' \in BOOLEAN
      /\ bases' \subseteq bases \cup {q}
  <2> HIDE DEF page
  <2> QED BY <1>1, <1>2, <1>3, <1>4, DealKeeps
<1>6. q \in Bases /\ bases \subseteq Bases
  BY <1>2 DEF FeedInv, Shape
<1> HIDE DEF page, q
<1>7. Shape'
  BY <1>5, <1>6 DEF FeedInv, Shape, Shows, Left, RankedBy
<1>8. Cached' = Cached
  BY DEF Cached
<1>9. ViewsInv'
  BY <1>3, <1>5, <1>8 DEF FeedInv, ViewsInv, Stale
<1> QED BY <1>5, <1>7, <1>9 DEF FeedInv

\* A new page is ranked by the views, or by what the rows say now.
LEMMA DealNew ==
    ASSUME FeedInv, NEW count \in Counts, NEW rung \in Rungs,
           NEW key, key = <<walk.cursor, count, rung>>,
           Deal(Page(walk.cursor, count, rung), count),
           views' = [name \in {"seen", "due"} |-> Viewed(name)],
           pages' = Put(pages, key, Page(walk.cursor, count, rung)),
           UNCHANGED <<hash, seen, wrong, due>>
    PROVE  FeedInv'
<1> DEFINE page == Page(walk.cursor, count, rung)
           q == Basis(rung)
<1>1. count \in Nat /\ walk.cursor \in Nat
  BY RequestsAssumption DEF FeedInv, Shape
<1>2. page.basis = q /\ q \in Bases /\ Shows(page, walk.cursor, walk.cursor + count)
  BY <1>1, PageShows DEF FeedInv
<1>3. q.seen = Viewed("seen") /\ Stale(Viewed("seen"))
  BY DEF FeedInv, ViewsInv, Basis, Viewed, Stale
<1> HIDE DEF page, q
<1>4. Stale(q.seen)
  BY <1>3
<1>5. /\ WalkInv' /\ SkipInv'
      /\ walk'.cursor \in Nat /\ dealt' \in [Cards -> Nat] /\ steady' \in BOOLEAN
      /\ bases' \subseteq bases \cup {q}
  <2>1. Deal(page, count) /\ Shape /\ WalkInv /\ SkipInv /\ ViewsInv
    BY DEF page, FeedInv
  <2> QED BY <1>1, <1>2, <1>4, <2>1, DealKeeps
<1>6. /\ DOMAIN pages' = DOMAIN pages \cup {key} /\ pages'[key] = page
      /\ \A k \in DOMAIN pages : k # key => pages'[k] = pages[k]
  BY DEF Put, page
<1>7. key \in Nat \X Counts \X Rungs /\ key[1] = walk.cursor /\ key[2] = count
  BY <1>1
<1>8. bases \subseteq Bases
  BY DEF FeedInv, Shape
<1>9. Shape'
  <2>1. \A k \in DOMAIN pages' :
           pages'[k].basis \in Bases /\ Shows(pages'[k], k[1], k[1] + k[2])
    BY <1>2, <1>6, <1>7 DEF FeedInv, Shape
  <2>2. DOMAIN pages' \subseteq Nat \X Counts \X Rungs
    BY <1>6, <1>7 DEF FeedInv, Shape
  <2>3. bases' \subseteq Bases
    BY <1>2, <1>5, <1>8
  <2>4. \A name \in DOMAIN views' : views'[name] \subseteq Cards
    BY DEF FeedInv, Shape, Viewed
  <2> QED BY <1>5, <2>1, <2>2, <2>3, <2>4 DEF FeedInv, Shape, Shows, Left, RankedBy
<1>10. \A p \in Cached' : p \in Cached \/ p = q
  BY <1>2, <1>6 DEF Cached
<1>11. ViewsInv'
  <2>1. views'["seen"] = Viewed("seen")
    OBVIOUS
  <2>2. \A p \in Cached' : Stale(p.seen)'
    BY <1>4, <1>10 DEF FeedInv, ViewsInv, Stale
  <2>3. \A b \in bases' : b.seen \ seen \subseteq due
    BY <1>4, <1>5 DEF FeedInv, ViewsInv, Stale
  <2> QED BY <1>3, <2>1, <2>2, <2>3 DEF ViewsInv, Stale
<1> QED BY <1>5, <1>9, <1>11 DEF FeedInv

LEMMA GetBatchKeeps ==
    ASSUME FeedInv, NEW count \in Counts, NEW level \in Levels, GetBatch(count, level)
    PROVE  FeedInv'
<1> DEFINE rung == ClampLevel(level)
           key == <<walk.cursor, count, rung>>
<1>1. rung \in Rungs
  BY Clamped
<1>2. /\ UNCHANGED <<hash, seen, wrong, due>>
      /\ \/ key \in DOMAIN pages /\ Deal(pages[key], count) /\ UNCHANGED <<views, pages>>
         \/ /\ Deal(Page(walk.cursor, count, rung), count)
            /\ views' = [name \in {"seen", "due"} |-> Viewed(name)]
            /\ pages' = Put(pages, key, Page(walk.cursor, count, rung))
  BY DEF GetBatch
<1> HIDE DEF rung
<1>3. CASE key \in DOMAIN pages /\ Deal(pages[key], count) /\ UNCHANGED <<views, pages>>
  BY <1>1, <1>2, <1>3, DealCached
<1>4. CASE /\ Deal(Page(walk.cursor, count, rung), count)
           /\ views' = [name \in {"seen", "due"} |-> Viewed(name)]
           /\ pages' = Put(pages, key, Page(walk.cursor, count, rung))
  BY <1>1, <1>2, <1>4, DealNew
<1> QED BY <1>2, <1>3, <1>4

LEMMA PageExpiresKeeps ==
    ASSUME FeedInv, NEW key \in DOMAIN pages, PageExpires(key)
    PROVE  FeedInv'
<1>1. /\ DOMAIN pages' \subseteq DOMAIN pages
      /\ \A k \in DOMAIN pages' : pages'[k] = pages[k]
      /\ UNCHANGED <<hash, seen, wrong, due, views, walk, dealt, steady, bases>>
  BY DEF PageExpires, Drop, Restrict
<1>2. Cached' \subseteq Cached
  BY <1>1 DEF Cached
<1>3. Shape'
  BY <1>1 DEF FeedInv, Shape, Shows, Left, RankedBy
<1>4. ViewsInv'
  BY <1>1, <1>2 DEF FeedInv, ViewsInv, Stale
<1> QED BY <1>1, <1>3, <1>4, WalkStays DEF FeedInv

\* A step of the views alone.
LEMMA ViewsKeep ==
    ASSUME FeedInv, UNCHANGED <<hash, seen, wrong, due, pages, walk, dealt, steady, bases>>,
           \A name \in DOMAIN views' : \/ name \in DOMAIN views /\ views'[name] = views[name]
                                       \/ name = "seen" /\ views'[name] = seen
    PROVE  FeedInv'
<1>1. Shape'
  <2>1. \A name \in DOMAIN views' : views'[name] \subseteq Cards
    BY DEF FeedInv, Shape
  <2> QED BY <2>1 DEF FeedInv, Shape, Shows, Left, RankedBy
<1>2. ViewsInv'
  BY DEF FeedInv, ViewsInv, Stale, Cached
<1> QED BY <1>1, <1>2, WalkStays DEF FeedInv

LEMMA ViewExpiresKeeps ==
    ASSUME FeedInv, NEW name \in DOMAIN views, ViewExpires(name)
    PROVE  FeedInv'
<1>1. /\ \A k \in DOMAIN views' : k \in DOMAIN views /\ views'[k] = views[k]
      /\ UNCHANGED <<hash, seen, wrong, due, pages, walk, dealt, steady, bases>>
  BY DEF ViewExpires, Drop, Restrict
<1> QED BY <1>1, ViewsKeep

LEMMA ReadSeenKeeps ==
    ASSUME FeedInv, ReadSeen
    PROVE  FeedInv'
<1>1. /\ \A k \in DOMAIN views' : \/ k \in DOMAIN views /\ views'[k] = views[k]
                                  \/ k = "seen" /\ views'[k] = seen
      /\ UNCHANGED <<hash, seen, wrong, due, pages, walk, dealt, steady, bases>>
  BY DEF ReadSeen, Put, Viewed
<1> QED BY <1>1, ViewsKeep

LEMMA RestartKeeps ==
    ASSUME FeedInv, Restart
    PROVE  FeedInv'
<1>1. /\ walk'.cursor = 0 /\ dealt' = [c \in Cards |-> 0] /\ steady' = TRUE /\ bases' = {}
      /\ UNCHANGED <<hash, seen, wrong, due, views, pages>>
  BY DEF Restart, NewWalk
<1>2. Shape'
  <2>1. dealt' \in [Cards -> Nat] /\ walk'.cursor \in Nat /\ steady' \in BOOLEAN /\ bases' \subseteq Bases
    BY <1>1
  <2> QED BY <1>1, <2>1 DEF FeedInv, Shape, Shows, Left, RankedBy
<1>3. ViewsInv'
  BY <1>1 DEF FeedInv, ViewsInv, Stale, Cached
<1>4. WalkInv'
  BY <1>1 DEF WalkInv, OneRanking
<1>5. SkipInv'
  BY <1>1 DEF SkipInv
<1> QED BY <1>2, <1>3, <1>4, <1>5 DEF FeedInv

LEMMA AnswerKeeps ==
    ASSUME FeedInv, NEW c \in Cards, NEW mark, Answer(c, mark)
    PROVE  FeedInv'
<1>1. /\ seen' \in {seen, seen \cup {c}} /\ wrong' \subseteq wrong \cup {c}
      /\ views' = Empty /\ pages' = Empty /\ UNCHANGED <<hash, due, walk, dealt, steady, bases>>
  BY DEF Answer
<1>2. DOMAIN pages' = {} /\ DOMAIN views' = {} /\ Cached' = {}
  BY <1>1 DEF Empty, Cached
<1>3. Shape'
  BY <1>1, <1>2 DEF FeedInv, Shape
<1>4. ViewsInv'
  BY <1>1, <1>2 DEF FeedInv, ViewsInv
<1> QED BY <1>1, <1>3, <1>4, WalkStays DEF FeedInv

LEMMA ComesDueKeeps ==
    ASSUME FeedInv, NEW c \in Cards, ComesDue(c)
    PROVE  FeedInv'
<1>1. /\ seen' = seen \ {c} /\ due' = due \cup {c}
      /\ UNCHANGED <<hash, wrong, views, pages, walk, dealt, steady, bases>>
  BY DEF ComesDue
<1>2. Cached' = Cached
  BY <1>1 DEF Cached
<1>3. Shape'
  BY <1>1 DEF FeedInv, Shape, Shows, Left, RankedBy
<1>4. ViewsInv'
  BY <1>1, <1>2 DEF FeedInv, ViewsInv, Stale
<1> QED BY <1>1, <1>3, <1>4, WalkStays DEF FeedInv

LEMMA MidnightKeeps ==
    ASSUME FeedInv, Midnight
    PROVE  FeedInv'
<1>1. hash' \in Hashes /\ UNCHANGED <<seen, wrong, due, views, pages, walk, dealt, steady, bases>>
  BY DEF Midnight
<1>2. Shape'
  BY <1>1 DEF FeedInv, Shape, Shows, Left, RankedBy
<1>3. ViewsInv'
  BY <1>1 DEF FeedInv, ViewsInv, Stale, Cached
<1> QED BY <1>1, <1>2, <1>3, WalkStays DEF FeedInv

LEMMA FeedInvariant == Spec => []FeedInv
<1>1. Init => FeedInv
  <2> SUFFICES ASSUME Init PROVE FeedInv
    OBVIOUS
  <2>1. /\ hash \in Hashes /\ seen = {} /\ wrong = {} /\ due = {}
        /\ DOMAIN pages = {} /\ DOMAIN views = {}
        /\ walk.cursor = 0 /\ dealt = [c \in Cards |-> 0] /\ steady = TRUE /\ bases = {}
    BY DEF Init, Empty, NewWalk
  <2>2. Cached = {}
    BY <2>1 DEF Cached
  <2>3. Shape
    BY <2>1 DEF Shape
  <2>4. ViewsInv /\ WalkInv /\ SkipInv
    BY <2>1, <2>2 DEF ViewsInv, WalkInv, SkipInv, OneRanking
  <2> QED BY <2>3, <2>4 DEF FeedInv
<1>2. FeedInv /\ [Next]_vars => FeedInv'
  <2> SUFFICES ASSUME FeedInv, [Next]_vars PROVE FeedInv'
    OBVIOUS
  <2>1. CASE UNCHANGED vars
    <3>1. UNCHANGED <<hash, seen, wrong, due, views, pages, walk, dealt, steady, bases>>
      BY <2>1 DEF vars
    <3>2. Shape' /\ ViewsInv'
      BY <3>1 DEF FeedInv, Shape, Shows, Left, RankedBy, ViewsInv, Stale, Cached
    <3> QED BY <3>1, <3>2, WalkStays DEF FeedInv
  <2>2. CASE \E count \in Counts, level \in Levels : GetBatch(count, level)
    BY <2>2, GetBatchKeeps
  <2>3. CASE \E key \in DOMAIN pages : PageExpires(key)
    BY <2>3, PageExpiresKeeps
  <2>4. CASE \E name \in DOMAIN views : ViewExpires(name)
    BY <2>4, ViewExpiresKeeps
  <2>5. CASE ReadSeen
    BY <2>5, ReadSeenKeeps
  <2>6. CASE Restart
    BY <2>6, RestartKeeps
  <2>7. CASE \E c \in Cards, mark \in {"right", "wrong", "none"} : Answer(c, mark)
    BY <2>7, AnswerKeeps
  <2>8. CASE \E c \in Cards : ComesDue(c)
    BY <2>8, ComesDueKeeps
  <2>9. CASE Midnight
    BY <2>9, MidnightKeeps
  <2> QED BY <2>1, <2>2, <2>3, <2>4, <2>5, <2>6, <2>7, <2>8, <2>9 DEF Next
<1> QED BY <1>1, <1>2, PTL DEF Spec

\* A walk whose pages each go on where those before them left off deals no card twice, for
\* every catalog, order of the cards and size of page, whatever is answered on the way,
\* however stale the two views are and whichever pages come from the cache (getBatch,
\* submitAnswer).
THEOREM DealtOnce == Spec => []DealsOnce
<1>1. FeedInv => DealsOnce
  BY DEF FeedInv, WalkInv, DealsOnce
<1> QED BY <1>1, FeedInvariant, PTL

\* What the cursor of a walk has passed, in the ranking of now.
LEMMA PassedNow ==
    ASSUME Shape, OneRanking(bases), NEW b \in bases
    PROVE  Passed = First(Cards \ seen, RankedBy(b), walk.cursor)
<1> DEFINE S == Cards \ seen
           R == RankedBy(b)
           ranked == InOrder(S, R)
           P == First(S, R, walk.cursor)
<1>1. b \in Bases /\ walk.cursor \in Nat
  BY DEF Shape
<1>2. IsFiniteSet(S) /\ TotalOn(R, S)
  BY <1>1, Ranked, FS_Subset DEF TotalOn
<1>3. Cardinality(S) \in Nat
  BY <1>2, FS_CardinalityType
<1>4. Len(ranked) = Cardinality(S)
  <2>1. ranked \in [1..Cardinality(S) -> S]
    BY <1>2, InOrderPlaces
  <2> HIDE DEF ranked, S
  <2>2. ranked \in Seq(S)
    BY <1>3, <2>1, SeqDef
  <2> QED BY <1>3, <2>1, <2>2, LenProperties
<1>5. {ranked[k] : k \in 1..AtMost(walk.cursor, Len(ranked))} = P
  <2>1. {ranked[k] : k \in (0 + 1)..(IF Cardinality(S) < walk.cursor THEN Cardinality(S) ELSE walk.cursor)}
          = {a \in S : Ahead(S, R, a) \in 0..(walk.cursor - 1)}
    BY <1>1, <1>2, FirstShown
  <2>2. \A a \in S : Ahead(S, R, a) \in Nat
    BY <1>2, <1>3, AheadRange
  <2>3. {a \in S : Ahead(S, R, a) \in 0..(walk.cursor - 1)} = P
    <3> HIDE DEF S, R
    <3> QED BY <1>1, <2>2 DEF First
  <2>4. AtMost(walk.cursor, Len(ranked))
          = IF Cardinality(S) < walk.cursor THEN Cardinality(S) ELSE walk.cursor
    BY <1>4 DEF AtMost
  <2>5. 0 + 1 = 1
    OBVIOUS
  <2> HIDE DEF ranked, S, R, P
  <2> QED BY <2>1, <2>3, <2>4, <2>5
<1>6. \A a \in bases : RankCards(a.hash, Weights(a.rung, a.due), seen) = ranked
  BY DEF OneRanking, RankCards, RankedBy
<1> HIDE DEF ranked, P
<1>7. \A a \in bases :
         (LET r == RankCards(a.hash, Weights(a.rung, a.due), seen)
          IN  {r[k] : k \in 1..AtMost(walk.cursor, Len(r))}) = P
  BY <1>5, <1>6
<1>8. Passed = P
  BY <1>7 DEF Passed
<1> QED BY <1>8 DEF P

\* What was behind the cursor of a ranking a walk took a page from and was not dealt, what
\* came back to the ranking since and what moved up behind the cursor are all that a walk
\* can pass over: no more cards than have moved.
LEMMA SkipsBounded ==
    ASSUME FeedInv PROVE SkipsOnlyForAnswers
<1> SUFFICES ASSUME steady PROVE Cardinality({c \in Passed : dealt[c] = 0}) <= Cardinality(Moved)
  BY DEF SkipsOnlyForAnswers
<1> DEFINE U == {c \in Passed : dealt[c] = 0}
           n == walk.cursor
           M == Moved
<1>1. IsFiniteSet(M)
  BY CardsAssumption, FS_Subset DEF Moved
<1>2. CASE bases = {}
  <2>1. U = {}
    BY <1>2 DEF Passed
  <2>2. Cardinality(U) = 0 /\ Cardinality(M) \in Nat
    BY <1>1, <2>1, FS_EmptySet, FS_CardinalityType
  <2> QED BY <2>2
<1>3. CASE bases # {}
  <2>1. PICK b \in bases :
           /\ \A a \in bases : a.seen \subseteq b.seen
           /\ Cardinality({c \in Passes(b, n) : dealt[c] = 0})
                 <= Cardinality({c \in Grown(bases) : dealt[c] > 0})
    BY <1>3 DEF FeedInv, SkipInv
  <2>2. b \in Bases /\ n \in Nat /\ b.seen \subseteq Cards /\ seen \subseteq Cards
    BY DEF FeedInv, Shape, Bases
  <2>3. Passed = First(Cards \ seen, RankedBy(b), n)
    BY PassedNow DEF FeedInv, WalkInv
  <2> DEFINE both == Cards \ (b.seen \cup seen)
             C == {c \in Passes(b, n) : dealt[c] = 0}
             D == {c \in b.seen \ seen : dealt[c] = 0}
             G == {c \in Grown(bases) : dealt[c] > 0}
             W == (C \cap both) \cup (First(both, RankedBy(b), n) \ First(Left(b), RankedBy(b), n))
             X == (First(Left(b), RankedBy(b), n) \ both) \ C
  <2>4. /\ IsFiniteSet(Cards \ seen) /\ both \in SUBSET (Cards \ seen)
        /\ both \in SUBSET Left(b)
        /\ IsFiniteSet(Left(b)) /\ TotalOn(RankedBy(b), Left(b)) /\ Left(b) \subseteq Cards
    BY <2>2, Ranked, FS_Subset DEF Left
  <2>5. IsFiniteSet(W) /\ IsFiniteSet(C) /\ IsFiniteSet(X)
        /\ Cardinality(W) <= Cardinality(C) + Cardinality(X)
    <3>1. C \in SUBSET First(Left(b), RankedBy(b), n)
      BY DEF Passes
    <3> HIDE DEF both, C
    <3> QED BY <2>2, <2>4, <3>1, FirstAdvance
  <2>6. First(Cards \ seen, RankedBy(b), n) \cap both \subseteq First(both, RankedBy(b), n)
    <3> HIDE DEF both
    <3> QED BY <2>2, <2>4, FirstKept
  <2>7. U \subseteq D \cup W
    <3> SUFFICES ASSUME NEW c \in U PROVE c \in D \cup W
      OBVIOUS
    <3>1. c \in First(Cards \ seen, RankedBy(b), n) /\ dealt[c] = 0
      BY <2>3
    <3>2. c \in Cards \ seen
      BY <3>1 DEF First
    <3>3. CASE c \in b.seen
      BY <3>1, <3>2, <3>3
    <3>4. CASE c \notin b.seen
      <4>1. c \in both /\ c \in First(both, RankedBy(b), n)
        BY <2>6, <3>1, <3>2, <3>4
      <4>2. CASE c \in First(Left(b), RankedBy(b), n)
        BY <3>1, <4>1, <4>2 DEF Passes
      <4> QED BY <4>1, <4>2
    <3> QED BY <3>3, <3>4
  <2>8. \A c \in G : c \in M /\ c \in b.seen /\ dealt[c] > 0
    <3>1. \A c \in Grown(bases) : c \in Cards /\ \E e, a \in bases : c \in e.seen /\ c \notin a.seen
      BY DEF Grown
    <3> QED BY <2>1, <3>1 DEF Moved
  <2>9. \A c \in D : c \in M /\ c \in b.seen /\ ~(dealt[c] > 0)
    BY <2>2 DEF Moved
  <2>10. \A c \in X : c \in M /\ c \notin b.seen
    <3>1. \A c \in X : c \in Cards /\ c \notin b.seen /\ c \in seen
      BY DEF First, Left
    <3> QED BY <3>1 DEF Moved
  <2>11. /\ D \in SUBSET M /\ G \in SUBSET M /\ X \in SUBSET M
         /\ D \cap G = {} /\ (D \cup G) \cap X = {}
    <3> HIDE DEF D, G, X, M
    <3> QED BY <2>8, <2>9, <2>10
  <2>12. Cardinality(C) <= Cardinality(G)
    BY <2>1
  <2> HIDE DEF U, C, D, G, W, X, M
  <2>13. IsFiniteSet(G)
    BY <1>1, <2>11, FS_Subset
  <2>14. Cardinality(W) <= Cardinality(G) + Cardinality(X)
    <3>1. Cardinality(C) \in Nat /\ Cardinality(G) \in Nat /\ Cardinality(X) \in Nat
          /\ Cardinality(W) \in Nat
      BY <2>5, <2>13, FS_CardinalityType
    <3> QED BY <2>5, <2>12, <3>1
  <2>15. Cardinality(U) <= Cardinality(M)
    BY <1>1, <2>5, <2>7, <2>11, <2>14, ThreeParts
  <2> QED BY <2>15 DEF U, M
<1> QED BY <1>2, <1>3

\* For every catalog and every walk, the cards a walk passes over without dealing them are
\* no more than those its pages were ranked with or without and the rows are not now,
\* answered or come due since they were read: the cursor is an offset into a ranking that
\* answers shorten (getBatch).
THEOREM SkipsForAnswers == Spec => []SkipsOnlyForAnswers
<1>1. FeedInv => SkipsOnlyForAnswers
  BY SkipsBounded
<1> QED BY <1>1, FeedInvariant, PTL

-------------------------------------------------------------------------------
(* The pages of a table.                                                   *)

\* What a table keeps between two paints.
Tables == [page : Nat, size : PageSizes, q : Queries \cup {""}, desc : BOOLEAN]

\* The rows of a summary are the first of the server's; the footer tells when some are
\* left out.
LEMMA PeopleRows ==
    ASSUME NEW c \in Controls
    PROVE  /\ People(c) \in Seq(ToSet(ServerRows[c]))
           /\ Len(People(c)) \in Nat /\ DOMAIN People(c) = 1..Len(People(c))
           /\ People(c) # ServerRows[c] => Capped(People(c))
<1> DEFINE s == ServerRows[c]
           limit == IntParam(FetchUsers, 1, MaxUsers)
           last == IF limit < Len(s) THEN limit ELSE Len(s)
<1>1. s \in Seq(ToSet(s))
  BY ServerAssumption
<1>2. limit \in {FetchUsers} /\ FetchUsers \in Nat \ {0}
  BY SizesAssumption DEF IntParam
<1>3. People(c) = SubSeq(s, 1, last)
  BY DEF People
<1> HIDE DEF s, limit
<1>4. Len(s) \in Nat /\ \A i \in 1..Len(s) : s[i] \in ToSet(s)
  BY <1>1, LenProperties
<1>5. last \in Nat /\ last <= Len(s)
  BY <1>2, <1>4
<1> HIDE DEF last
<1>6. SubSeq(s, 1, last) \in Seq(ToSet(s)) /\ Len(SubSeq(s, 1, last)) = last
  BY <1>4, <1>5, SubSeqProperties
<1>7. DOMAIN People(c) = 1..Len(People(c)) /\ Len(People(c)) = last /\ People(c) \in Seq(ToSet(s))
  BY <1>3, <1>6, LenProperties
<1>8. CASE last = Len(s)
  <2>1. SubSeq(s, 1, Len(s)) = s
    BY <1>1, SubSeqFull
  <2> QED BY <1>3, <1>5, <1>7, <1>8, <2>1 DEF s
<1>9. CASE last = FetchUsers
  <2>1. Capped(People(c))
    BY <1>2, <1>7, <1>9 DEF Capped
  <2> QED BY <1>5, <1>7, <2>1 DEF s
<1> QED BY <1>2, <1>8, <1>9 DEF last

\* A division from below and from above.
LEMMA Divided ==
    ASSUME NEW a \in Nat, NEW n \in Nat \ {0}
    PROVE  a \div n \in Nat /\ (a \div n) * n <= a /\ a < (a \div n) * n + n
<1>1. a \div n \in Int
  OBVIOUS
<1>2. a = n * (a \div n) + (a % n) /\ a % n \in 0..(n - 1)
  OBVIOUS
<1> DEFINE x == a \div n
           y == x * n
<1>3. y \in Int /\ y <= a /\ a < y + n
  BY <1>1, <1>2
<1>4. x \in Nat
  <2>1. CASE x < 0
    <3>1. x + 1 <= 0 /\ (x + 1) * n = y + n
      BY <1>1, <2>1
    <3>2. (x + 1) * n <= 0
      <4> DEFINE z == x + 1
      <4>1. z \in Int /\ z <= 0
        BY <1>1, <3>1
      <4> HIDE DEF z
      <4>2. z * n <= 0 * n /\ 0 * n = 0
        BY <4>1, ProductsCompare
      <4> QED BY <4>2 DEF z
    <3> QED BY <1>3, <3>1, <3>2
  <2> QED BY <1>1, <2>1
<1> QED BY <1>3, <1>4

\* The pages hold the total, and the last one is not empty.
LEMMA PagesHold ==
    ASSUME NEW total \in Nat, NEW size \in Nat \ {0}
    PROVE  /\ PagesOf(total, size) \in Nat \ {0}
           /\ total <= PagesOf(total, size) * size
           /\ total > 0 => (PagesOf(total, size) - 1) * size < total
           /\ total = 0 => PagesOf(total, size) = 1
<1> DEFINE a == total + size - 1
           x == a \div size
           y == x * size
<1>1. a \in Nat
  OBVIOUS
<1>2. x \in Nat /\ y <= a /\ a < y + size
  <2> HIDE DEF a
  <2> QED BY <1>1, Divided
<1>3. CeilDiv(total, size) = x
  BY DEF CeilDiv
<1>4. (x - 1) * size = y - size /\ y \in Int
  <2> HIDE DEF x
  <2> QED BY <1>2
<1>5. x < 1 => y = 0
  <2> HIDE DEF x
  <2> QED BY <1>2
<1>6. total <= y /\ (total > 0 => y - size < total)
  <2> HIDE DEF y
  <2> QED BY <1>1, <1>2, <1>4
<1>7. total = 0 => x < 2
  <2>1. ASSUME total = 0, x >= 2 PROVE FALSE
    <3>1. 2 * size <= x * size
      <4> HIDE DEF x
      <4> QED BY <1>2, <2>1, ProductsCompare
    <3> HIDE DEF x
    <3> QED BY <1>2, <2>1, <3>1
  <2> HIDE DEF x
  <2> QED BY <1>2, <2>1
<1>8. PagesOf(total, size) = IF x < 1 THEN 1 ELSE x
  BY <1>3 DEF PagesOf, AtLeast1
<1> HIDE DEF a, x
<1>9. CASE x < 1
  <2>1. PagesOf(total, size) = 1 /\ total = 0
    BY <1>2, <1>4, <1>5, <1>6, <1>8, <1>9
  <2> QED BY <2>1
<1>10. CASE ~(x < 1)
  <2>1. PagesOf(total, size) = x
    BY <1>8, <1>10
  <2> QED BY <1>2, <1>4, <1>6, <1>7, <1>10, <2>1
<1> QED BY <1>9, <1>10

\* A painted table is on a page that it has.
LEMMA PaintedFits ==
    ASSUME NEW c \in Controls, NEW t \in Tables
    PROVE  /\ Cardinality(Matches(People(c), t)) \in Nat /\ IsFiniteSet(Matches(People(c), t))
           /\ SizeOf(t, Cardinality(Matches(People(c), t))) \in Nat \ {0}
           /\ TablePages(People(c), t) \in Nat \ {0}
           /\ Painted(People(c), t) \in Tables
           /\ Painted(People(c), t).page \in 1..TablePages(People(c), Painted(People(c), t))
<1> DEFINE rows == People(c)
           m == Matches(rows, t)
           last == TablePages(rows, t)
           p == Painted(rows, t)
<1>1. IsFiniteSet(DOMAIN rows)
  <2>1. DOMAIN rows = 1..Len(rows) /\ Len(rows) \in Nat
    BY PeopleRows
  <2> HIDE DEF rows
  <2> QED BY <2>1, FS_Interval
<1>2. IsFiniteSet(m)
  <2>1. m \subseteq DOMAIN rows
    BY DEF Matches
  <2> HIDE DEF m, rows
  <2> QED BY <1>1, <2>1, FS_Subset
<1>3. Cardinality(m) \in Nat
  <2> HIDE DEF m
  <2> QED BY <1>2, FS_CardinalityType
<1>4. t.size \in Nat /\ t.page \in Nat
  BY SizesAssumption DEF Tables
<1> DEFINE size == SizeOf(t, Cardinality(m))
<1>5. size \in Nat \ {0}
  <2> HIDE DEF m
  <2> QED BY <1>3, <1>4 DEF SizeOf, AtLeast1
<1>6. last \in Nat \ {0}
  <2>1. last = PagesOf(Cardinality(m), size)
    BY DEF TablePages
  <2> HIDE DEF m, size, last
  <2> QED BY <1>3, <1>5, <2>1, PagesHold
<1>7. p = [t EXCEPT !.page = Clamp(t.page, last)]
  BY DEF Painted
<1>8. Clamp(t.page, last) \in 1..last
  <2> HIDE DEF last
  <2> QED BY <1>4, <1>6 DEF Clamp, AtLeast1
<1> DEFINE k == Clamp(t.page, last)
<1> HIDE DEF last, p
<1>9. /\ p \in Tables /\ p.page \in 1..last /\ p.q = t.q /\ p.size = t.size
  <2>1. k \in Nat
    BY <1>6, <1>8
  <2> HIDE DEF k
  <2>2. p \in Tables /\ p.page = k /\ p.q = t.q /\ p.size = t.size
    BY <1>7, <2>1 DEF Tables, k
  <2> QED BY <1>8, <2>2 DEF k
<1>10. TablePages(rows, p) = last
  BY <1>9 DEF last, TablePages, Matches, SizeOf
<1> QED BY <1>2, <1>3, <1>5, <1>6, <1>9, <1>10 DEF p, last

-------------------------------------------------------------------------------
(* The page of the dashboard and its fetches.                              *)

PageShape ==
    /\ controls \in Controls /\ tab \in Tabs /\ cohorts \in Nat
    /\ data \subseteq Controls /\ dom \subseteq [tab : Tabs, data : Controls]
    /\ table \in Tables
    /\ \A f \in Fetches : req[f].kind = "load" => req[f].controls \in Controls
    /\ req = [f \in Fetches |-> req[f]]
    /\ overlap \in BOOLEAN /\ failed \in BOOLEAN /\ late \in BOOLEAN

\* Without an overlap one load is in flight, with what the controls say, and its answer
\* is what the page is built from.
AskedInv ==
    /\ view # "shell" /\ ~late => data = {}
    /\ ~overlap =>
          /\ \A f, g \in Loads : f = g
          /\ view = "shell" => \A f \in Loads : req[f].controls = controls
    /\ view = "shell" /\ Loads = {} /\ ~overlap /\ ~failed
          => data = {controls} /\ dom = {[tab |-> tab, data |-> controls]}

\* What was painted last was painted on a page that it has.
PaintedInv ==
    /\ \A d, e \in dom : d = e
    /\ \A d \in dom :
          /\ d.tab = "people" => table.page \in 1..TablePages(People(d.data), table)
          /\ d.tab = "retention" => cohorts \in 1..CohortPages(d.data)

DashboardInv == PageShape /\ AskedInv /\ PaintedInv

LEMMA FirstTable ==
    NewTable \in Tables /\ (CHOOSE c \in Controls : TRUE) \in Controls
<1>1. NewTable \in Tables
  BY SizesAssumption DEF NewTable, Tables
<1> QED BY <1>1, ServerAssumption

LEMMA CohortsFit ==
    ASSUME NEW c \in Controls, NEW p \in Nat
    PROVE  CohortPages(c) \in Nat \ {0} /\ Clamp(p, CohortPages(c)) \in 1..CohortPages(c)
<1>1. CohortPages(c) \in Nat \ {0}
  <2>1. ServerCohorts[c] \in Nat /\ CohortPage \in Nat \ {0}
    BY ServerAssumption, SizesAssumption
  <2> QED BY <2>1, PagesHold DEF CohortPages
<1> QED BY <1>1 DEF Clamp, AtLeast1

\* render paints what it was given on a page that it has.
LEMMA RenderFits ==
    ASSUME NEW t \in Tabs, NEW c \in Controls, table \in Tables, cohorts \in Nat, Render(t, c)
    PROVE  /\ dom' = {[tab |-> t, data |-> c]} /\ dom' \subseteq [tab : Tabs, data : Controls]
           /\ table' \in Tables /\ cohorts' \in Nat /\ PaintedInv'
<1> DEFINE e == [tab |-> t, data |-> c]
<1>1. dom' = {e} /\ e \in [tab : Tabs, data : Controls] /\ e.tab = t /\ e.data = c
  BY DEF Render
<1>2. /\ t = "people" => table' = Painted(People(c), table)
      /\ t # "people" => table' = table
      /\ t = "retention" => cohorts' = Clamp(cohorts, CohortPages(c))
      /\ t # "retention" => cohorts' = cohorts
  BY DEF Render
<1>3. table' \in Tables /\ (t = "people" => table'.page \in 1..TablePages(People(c), table'))
  BY <1>2, PaintedFits
<1>4. cohorts' \in Nat /\ (t = "retention" => cohorts' \in 1..CohortPages(c))
  <2>1. CASE t = "retention"
    <3>1. cohorts' \in 1..CohortPages(c) /\ CohortPages(c) \in Nat
      BY <1>2, <2>1, CohortsFit
    <3> QED BY <3>1
  <2> QED BY <1>2, <2>1
<1> HIDE DEF e
<1>5. \A d \in dom' : d = e
  BY <1>1
<1>6. PaintedInv'
  <2>1. \A d \in dom' : d.tab = t /\ d.data = c
    BY <1>1, <1>5
  <2>2. \A d, g \in dom' : d = g
    BY <1>5
  <2>3. \A d \in dom' : d.tab = "people" => table'.page \in 1..TablePages(People(d.data), table')
    BY <1>3, <2>1
  <2>4. \A d \in dom' : d.tab = "retention" => cohorts' \in 1..CohortPages(d.data)
    BY <1>4, <2>1
  <2> QED BY <2>2, <2>3, <2>4
       DEF PaintedInv, TablePages, People, Matches, CohortPages
<1> QED BY <1>1, <1>3, <1>4, <1>6 DEF e

\* A step that leaves alone what was painted.
LEMMA TableStays ==
    ASSUME PaintedInv, UNCHANGED <<dom, table, cohorts>>
    PROVE  PaintedInv'
BY DEF PaintedInv, TablePages, People, Matches, CohortPages

LEMMA LoadsOf ==
    ASSUME NEW f \in Fetches, NEW r, req = [g \in Fetches |-> req[g]],
           req' = [req EXCEPT ![f] = r]
    PROVE  /\ req'[f] = r /\ \A g \in Fetches : g # f => req'[g] = req[g]
           /\ req' = [g \in Fetches |-> req'[g]]
           /\ r.kind = "load" => Loads' = Loads \cup {f}
           /\ r.kind # "load" => Loads' = Loads \ {f}
<1>1. /\ req'[f] = r /\ \A g \in Fetches : g # f => req'[g] = req[g]
      /\ req' = [g \in Fetches |-> req'[g]]
  OBVIOUS
<1> QED BY <1>1 DEF Loads

LEMMA BootKeeps ==
    ASSUME DashboardInv, Boot
    PROVE  DashboardInv'
<1>1. /\ view' # "shell" /\ data' = {} /\ dom' = {} /\ controls' \in Controls /\ table' \in Tables
      /\ cohorts' = 1 /\ tab' = tab /\ overlap' = FALSE /\ failed' = FALSE /\ late' = FALSE
  BY FirstTable DEF Boot
<1>2. req' = [g \in Fetches |-> req'[g]] /\ \A g \in Fetches : req'[g].kind # "load"
  BY DEF Boot, Idle
<1>3. Loads' = {}
  BY <1>2 DEF Loads
<1>4. PageShape'
  BY <1>1, <1>2 DEF DashboardInv, PageShape, Tables
<1>5. AskedInv'
  BY <1>1, <1>3 DEF AskedInv
<1>6. PaintedInv'
  BY <1>1 DEF PaintedInv
<1> QED BY <1>4, <1>5, <1>6 DEF DashboardInv

LEMMA RotateKeeps ==
    ASSUME DashboardInv, UNCHANGED <<pageVars, req, overlap, failed, late>>
    PROVE  DashboardInv'
<1>1. UNCHANGED <<view, token, saved, controls, tab, data, table, cohorts, dom, loading, req,
                  overlap, failed, late>>
  BY DEF pageVars
<1>2. PageShape'
  BY <1>1 DEF DashboardInv, PageShape, Tables
<1>3. Loads' = Loads
  BY <1>1 DEF Loads
<1>4. AskedInv'
  BY <1>1, <1>3 DEF DashboardInv, AskedInv
<1> QED BY <1>1, <1>2, <1>4, TableStays DEF DashboardInv

\* Repaint and the pagers.
LEMMA TableKeeps ==
    ASSUME DashboardInv, table' \in Tables, cohorts' \in Nat, PaintedInv',
           UNCHANGED <<view, controls, tab, data, dom, req, overlap, failed, late>>
    PROVE  DashboardInv'
<1>1. PageShape' /\ AskedInv'
  BY DEF DashboardInv, PageShape, AskedInv, Loads, Tables
<1> QED BY <1>1 DEF DashboardInv

LEMMA RepaintKeeps ==
    ASSUME DashboardInv, NEW t \in Tables, Repaint(t)
    PROVE  DashboardInv'
<1>1. PICK d \in dom : d.tab = "people" /\ table' = Painted(People(d.data), t)
  BY DEF Repaint
<1>2. d.data \in Controls /\ dom' = dom /\ \A e \in dom : e = d
  BY DEF DashboardInv, PageShape, PaintedInv, Repaint
<1>3. table' \in Tables /\ table'.page \in 1..TablePages(People(d.data), table')
  BY <1>1, <1>2, PaintedFits
<1>4. PaintedInv'
  <2>1. \A e \in dom' : e.tab = "people" => table'.page \in 1..TablePages(People(e.data), table')
    BY <1>2, <1>3
  <2>2. \A e \in dom' : e.tab # "retention"
    BY <1>1, <1>2
  <2>3. \A e, g \in dom' : e = g
    BY <1>2
  <2> QED BY <2>1, <2>2, <2>3 DEF PaintedInv, TablePages, People, Matches, CohortPages
<1>5. cohorts' \in Nat /\ UNCHANGED <<view, controls, tab, data, dom, req, overlap, failed, late>>
  BY DEF Repaint, DashboardInv, PageShape
<1> QED BY <1>3, <1>4, <1>5, TableKeeps

LEMMA GoToCohortsKeeps ==
    ASSUME DashboardInv, NEW p, GoToCohorts(p)
    PROVE  DashboardInv'
<1>1. PICK d \in dom : d.tab = "retention" /\ p \in Targets(cohorts, CohortPages(d.data))
  BY DEF GoToCohorts
<1>2. /\ cohorts' = p /\ UNCHANGED <<view, controls, tab, data, table, dom, req, overlap, failed, late>>
  BY DEF GoToCohorts
<1>3. d.data \in Controls /\ \A e \in dom : e = d
  BY DEF DashboardInv, PageShape, PaintedInv
<1>4. p \in 1..CohortPages(d.data) /\ CohortPages(d.data) \in Nat
  BY <1>1, <1>3, CohortsFit DEF Targets
<1>5. PaintedInv'
  <2>1. \A e \in dom' : e.tab # "people" /\ cohorts' \in 1..CohortPages(e.data)
    BY <1>1, <1>2, <1>3, <1>4
  <2>2. \A e, g \in dom' : e = g
    BY <1>2, <1>3
  <2> QED BY <2>1, <2>2 DEF PaintedInv, CohortPages
<1>6. cohorts' \in Nat /\ table' \in Tables
  BY <1>2, <1>4 DEF DashboardInv, PageShape
<1> QED BY <1>2, <1>5, <1>6, TableKeeps

LEMMA SelectTabKeeps ==
    ASSUME DashboardInv, NEW t \in Tabs, SelectTab(t)
    PROVE  DashboardInv'
<1>1. /\ view = "shell" /\ tab' = t
      /\ UNCHANGED <<view, controls, data, req, overlap, failed, late>>
  BY DEF SelectTab
<1>2. CASE data = {} /\ UNCHANGED <<dom, table, cohorts>>
  <2>1. PageShape'
    BY <1>1, <1>2 DEF DashboardInv, PageShape, Tables
  <2>2. AskedInv'
    BY <1>1, <1>2 DEF DashboardInv, AskedInv, Loads
  <2> QED BY <1>2, <2>1, <2>2, TableStays DEF DashboardInv
<1>3. CASE \E c \in data : Render(t, c)
  <2>1. PICK c \in data : Render(t, c)
    BY <1>3
  <2>2. c \in Controls /\ table \in Tables /\ cohorts \in Nat
    BY DEF DashboardInv, PageShape
  <2>3. /\ dom' = {[tab |-> t, data |-> c]} /\ dom' \subseteq [tab : Tabs, data : Controls]
        /\ table' \in Tables /\ cohorts' \in Nat /\ PaintedInv'
    BY <2>1, <2>2, RenderFits
  <2>4. PageShape'
    BY <1>1, <2>3 DEF DashboardInv, PageShape, Tables
  <2>5. AskedInv'
    <3>1. Loads' = Loads
      BY <1>1 DEF Loads
    <3>2. Loads = {} /\ ~overlap /\ ~failed => data = {controls} /\ c = controls
      BY <1>1, <2>1 DEF DashboardInv, AskedInv
    <3> QED BY <1>1, <2>3, <3>1, <3>2 DEF DashboardInv, AskedInv
  <2> QED BY <2>3, <2>4, <2>5 DEF DashboardInv
<1> QED BY <1>2, <1>3 DEF SelectTab

\* A load is sent: load and unlock.
LEMMA SentKeeps ==
    ASSUME DashboardInv, NEW f \in Fetches, NEW r, r.kind = "load", r.controls \in Controls,
           r.controls = controls', view' = "shell",
           req' = [req EXCEPT ![f] = r], overlap' = (Loads # {}),
           UNCHANGED <<tab, data, table, cohorts, dom, failed, late>>
    PROVE  DashboardInv'
<1>1. /\ req'[f] = r /\ \A g \in Fetches : g # f => req'[g] = req[g]
      /\ req' = [g \in Fetches |-> req'[g]] /\ Loads' = Loads \cup {f}
  BY LoadsOf DEF DashboardInv, PageShape
<1>2. PageShape'
  BY <1>1 DEF DashboardInv, PageShape, Tables
<1>3. AskedInv'
  BY <1>1 DEF AskedInv
<1> QED BY <1>2, <1>3, TableStays DEF DashboardInv

LEMMA LoadedKeeps ==
    ASSUME DashboardInv, NEW f \in Fetches, Loaded(f)
    PROVE  DashboardInv'
<1> DEFINE c == req[f].controls
<1>1. /\ req[f].kind = "load" /\ c \in Controls /\ f \in Loads /\ tab \in Tabs
      /\ table \in Tables /\ cohorts \in Nat
  BY DEF DashboardInv, PageShape, Loaded, Loads
<1>2. /\ data' = {c} /\ failed' = FALSE /\ late' = (late \/ view # "shell")
      /\ Render(tab, c) /\ req' = [req EXCEPT ![f] = Idle]
      /\ UNCHANGED <<overlap, view, controls, tab>>
  BY DEF Loaded, Over
<1>3. /\ dom' = {[tab |-> tab, data |-> c]} /\ dom' \subseteq [tab : Tabs, data : Controls]
      /\ table' \in Tables /\ cohorts' \in Nat /\ PaintedInv'
  <2> HIDE DEF c
  <2> QED BY <1>1, <1>2, RenderFits
<1>4. /\ req'[f] = Idle /\ \A g \in Fetches : g # f => req'[g] = req[g]
      /\ req' = [g \in Fetches |-> req'[g]] /\ Loads' = Loads \ {f}
  BY <1>2, LoadsOf DEF DashboardInv, PageShape, Idle
<1>5. PageShape'
  BY <1>1, <1>2, <1>3, <1>4 DEF DashboardInv, PageShape, Tables, Idle
<1>6. AskedInv'
  <2>1. ~overlap => Loads' = {} /\ (view = "shell" => c = controls)
    BY <1>1, <1>4 DEF DashboardInv, AskedInv
  <2> HIDE DEF c
  <2> QED BY <1>2, <1>3, <2>1 DEF AskedInv
<1> QED BY <1>3, <1>5, <1>6 DEF DashboardInv

\* A fetch is over, and the page is locked or was not in the shell or has failed or
\* waits for the same loads.
LEMMA OverKeeps ==
    ASSUME DashboardInv, NEW f \in Fetches, NEW r, r.kind # "load",
           req' = [req EXCEPT ![f] = r], UNCHANGED <<overlap, controls, tab, table, cohorts, dom>>,
           failed' \in BOOLEAN, late' \in BOOLEAN, data' \subseteq data,
           \/ view' # "shell" /\ data' = {}
           \/ view' = view /\ data' = data /\ late' = late
              /\ (view # "shell" \/ failed' = TRUE \/ (failed' = failed /\ req[f].kind # "load"))
    PROVE  DashboardInv'
<1>1. /\ req'[f] = r /\ \A g \in Fetches : g # f => req'[g] = req[g]
      /\ req' = [g \in Fetches |-> req'[g]] /\ Loads' = Loads \ {f}
  BY LoadsOf DEF DashboardInv, PageShape
<1>2. PageShape'
  BY <1>1 DEF DashboardInv, PageShape, Tables
<1>3. \A g \in Loads' : g \in Loads /\ req'[g] = req[g]
  BY <1>1 DEF Loads
<1>4. AskedInv'
  <2>1. CASE view' # "shell" /\ data' = {}
    BY <1>3, <2>1 DEF DashboardInv, AskedInv
  <2>2. CASE /\ view' = view /\ data' = data /\ late' = late
             /\ (view # "shell" \/ failed' = TRUE \/ (failed' = failed /\ req[f].kind # "load"))
    <3>1. req[f].kind # "load" => Loads' = Loads
      BY <1>1 DEF Loads
    <3> QED BY <1>3, <2>2, <3>1 DEF DashboardInv, AskedInv
  <2> QED BY <2>1, <2>2
<1> QED BY <1>2, <1>4, TableStays DEF DashboardInv

LEMMA SignOutKeeps ==
    ASSUME DashboardInv, SignOut
    PROVE  DashboardInv'
<1>1. /\ data' = {} /\ view' = "gate" /\ late' = FALSE
      /\ UNCHANGED <<controls, tab, table, cohorts, dom, req, overlap, failed>>
  BY DEF SignOut, Lock
<1>2. PageShape'
  BY <1>1 DEF DashboardInv, PageShape, Tables
<1>3. AskedInv'
  BY <1>1 DEF DashboardInv, AskedInv, Loads
<1> QED BY <1>1, <1>2, <1>3, TableStays DEF DashboardInv

LEMMA FetchKeeps ==
    ASSUME DashboardInv, NEW f \in Fetches,
           \/ \E c \in Controls : Change(f, c)
           \/ Loaded(f) \/ LoadFails(f) \/ LoadRejected(f)
           \/ \E t \in Tokens : Submit(f, t)
           \/ Verified(f) \/ VerifyFails(f)
    PROVE  DashboardInv'
<1>0. Idle.kind # "load"
  BY DEF Idle
<1>1. ASSUME NEW c \in Controls, Change(f, c) PROVE DashboardInv'
  <2> DEFINE r == [kind |-> "load", tokens |-> token, controls |-> c]
  <2>1. /\ req' = [req EXCEPT ![f] = r] /\ overlap' = (Loads # {}) /\ controls' = c
        /\ view' = "shell" /\ UNCHANGED <<tab, data, table, cohorts, dom, failed, late>>
    BY <1>1 DEF Change, Load
  <2>2. r.kind = "load" /\ r.controls = c
    OBVIOUS
  <2> HIDE DEF r
  <2> QED BY <2>1, <2>2, SentKeeps
<1>2. CASE LoadFails(f)
  <2>1. /\ req' = [req EXCEPT ![f] = Idle] /\ failed' = TRUE
        /\ UNCHANGED <<overlap, view, controls, tab, data, table, cohorts, dom, late>>
    BY <1>2 DEF LoadFails, Over
  <2>2. late' \in BOOLEAN
    BY <2>1 DEF DashboardInv, PageShape
  <2> QED BY <1>0, <2>1, <2>2, OverKeeps
<1>3. CASE LoadRejected(f)
  <2>1. /\ req' = [req EXCEPT ![f] = Idle] /\ data' = {} /\ view' = "gate" /\ late' = FALSE
        /\ UNCHANGED <<overlap, controls, tab, table, cohorts, dom, failed>>
    BY <1>3 DEF LoadRejected, Lock, Over
  <2>2. failed' \in BOOLEAN /\ late' \in BOOLEAN /\ data' \subseteq data /\ view' # "shell"
    BY <2>1 DEF DashboardInv, PageShape
  <2> QED BY <1>0, <2>1, <2>2, OverKeeps
<1>4. ASSUME NEW t \in Tokens, Submit(f, t) PROVE DashboardInv'
  <2> DEFINE r == [kind |-> "verify", tokens |-> {t}, boot |-> FALSE]
  <2>1. /\ req' = [req EXCEPT ![f] = r] /\ view = "gate"
        /\ UNCHANGED <<overlap, view, controls, tab, data, table, cohorts, dom, failed, late>>
    BY <1>4 DEF Submit, pageVars
  <2>2. failed' \in BOOLEAN /\ late' \in BOOLEAN /\ r.kind # "load" /\ view # "shell"
    BY <2>1 DEF DashboardInv, PageShape
  <2> HIDE DEF r
  <2> QED BY <2>1, <2>2, OverKeeps
<1>5. CASE Verified(f)
  <2> DEFINE r == [kind |-> "load", tokens |-> req[f].tokens, controls |-> controls]
  <2>1. /\ req' = [req EXCEPT ![f] = r] /\ overlap' = (Loads # {}) /\ view' = "shell"
        /\ UNCHANGED <<controls, tab, data, table, cohorts, dom, failed, late>>
    BY <1>5 DEF Verified
  <2>2. r.kind = "load" /\ r.controls = controls' /\ r.controls \in Controls
    BY <2>1 DEF DashboardInv, PageShape
  <2> HIDE DEF r
  <2> QED BY <2>1, <2>2, SentKeeps
<1>6. CASE VerifyFails(f)
  <2>1. /\ req' = [req EXCEPT ![f] = Idle] /\ req[f].kind # "load"
        /\ UNCHANGED <<overlap, failed>>
    BY <1>6 DEF VerifyFails
  <2>2. \/ /\ data' = {} /\ view' = "gate" /\ late' = FALSE
           /\ UNCHANGED <<controls, tab, table, cohorts, dom>>
        \/ UNCHANGED <<view, controls, tab, data, table, cohorts, dom, late>>
    BY <1>6 DEF VerifyFails, Lock, pageVars
  <2>3. failed' \in BOOLEAN /\ late' \in BOOLEAN /\ data' \subseteq data
    BY <2>1, <2>2 DEF DashboardInv, PageShape
  <2>4. UNCHANGED <<overlap, controls, tab, table, cohorts, dom>>
    BY <2>1, <2>2
  <2>5. \/ view' # "shell" /\ data' = {}
        \/ view' = view /\ data' = data /\ late' = late
           /\ (view # "shell" \/ failed' = TRUE \/ (failed' = failed /\ req[f].kind # "load"))
    BY <2>1, <2>2
  <2> QED BY <1>0, <2>1, <2>3, <2>4, <2>5, OverKeeps
<1> QED BY <1>1, <1>2, <1>3, <1>4, <1>5, <1>6, LoadedKeeps

LEMMA DashboardInvariant == DashboardSpec => []DashboardInv
<1>1. DashboardInit => DashboardInv
  <2> SUFFICES ASSUME DashboardInit PROVE DashboardInv
    OBVIOUS
  <2>1. req = [f \in Fetches |-> req[f]] /\ \A f \in Fetches : req[f].kind # "load"
    BY DEF DashboardInit, Idle
  <2>2. PageShape
    BY <2>1, FirstTable DEF DashboardInit, PageShape
  <2>3. AskedInv /\ PaintedInv
    BY <2>1 DEF DashboardInit, AskedInv, PaintedInv, Loads
  <2> QED BY <2>2, <2>3 DEF DashboardInv
<1>2. DashboardInv /\ [DashboardNext]_dashboardVars => DashboardInv'
  <2> SUFFICES ASSUME DashboardInv, [DashboardNext]_dashboardVars PROVE DashboardInv'
    OBVIOUS
  <2>0. table \in Tables
    BY DEF DashboardInv, PageShape
  <2>1. CASE UNCHANGED dashboardVars
    BY <2>1, RotateKeeps DEF dashboardVars
  <2>2. CASE Boot
    BY <2>2, BootKeeps
  <2>3. CASE Rotate
    BY <2>3, RotateKeeps DEF Rotate
  <2>4. CASE SignOut
    BY <2>4, SignOutKeeps
  <2>5. CASE Flip
    <3>1. [table EXCEPT !.desc = ~table.desc, !.page = 1] \in Tables
      BY <2>0 DEF Tables
    <3> QED BY <2>5, <3>1, RepaintKeeps DEF Flip
  <2>6. CASE \E t \in Tabs : SelectTab(t)
    BY <2>6, SelectTabKeeps
  <2>7. ASSUME NEW q \in Queries, Search(q) PROVE DashboardInv'
    <3>1. [table EXCEPT !.q = q, !.page = 1] \in Tables
      BY <2>0 DEF Tables
    <3> QED BY <2>7, <3>1, RepaintKeeps DEF Search
  <2>8. ASSUME NEW size \in PageSizes, Resize(size) PROVE DashboardInv'
    <3>1. [table EXCEPT !.size = size, !.page = 1] \in Tables
      BY <2>0 DEF Tables
    <3> QED BY <2>8, <3>1, RepaintKeeps DEF Resize
  <2>9. ASSUME NEW page \in 1..MaxUsers, GoTo(page) PROVE DashboardInv'
    <3>0. page \in Nat
      OBVIOUS
    <3>1. [table EXCEPT !.page = page] \in Tables
      BY <2>0, <3>0 DEF Tables
    <3> QED BY <2>9, <3>1, RepaintKeeps DEF GoTo
  <2>10. ASSUME NEW page \in 1..MaxUsers, GoToCohorts(page) PROVE DashboardInv'
    BY <2>10, GoToCohortsKeeps
  <2>11. CASE \E f \in Fetches :
                 \/ \E c \in Controls : Change(f, c)
                 \/ Loaded(f) \/ LoadFails(f) \/ LoadRejected(f)
                 \/ \E t \in Tokens : Submit(f, t)
                 \/ Verified(f) \/ VerifyFails(f)
    BY <2>11, FetchKeeps
  <2> QED BY <2>1, <2>2, <2>3, <2>4, <2>5, <2>6, <2>7, <2>8, <2>9, <2>10, <2>11
       DEF DashboardNext
<1> QED BY <1>1, <1>2, PTL DEF DashboardSpec

\* For every server, table and number of fetches: with nothing in flight, what is shown
\* answers what the controls ask for, unless loads overlapped or the last one failed, and
\* the gate hides no summary of the session (load, render, lock).
THEOREM ShownAnswers == DashboardSpec => []ShownIsAsked
<1>1. DashboardInv => ShownIsAsked
  BY DEF DashboardInv, AskedInv, ShownIsAsked
<1> QED BY <1>1, DashboardInvariant, PTL

-------------------------------------------------------------------------------
(* The pages hold the rows.                                                *)

\* A set of numbers has a least one: the first in their order.
LEMMA LeastOf ==
    ASSUME NEW n \in Nat, NEW B \in SUBSET (1..n), B # {}
    PROVE  \E i \in B : \A j \in 1..(i - 1) : j \notin B
<1> DEFINE R == {p \in (1..n) \X (1..n) : p[1] < p[2]}
<1>1. \A a, b \in 1..n : <<a, b>> \in R <=> a < b
  OBVIOUS
<1> HIDE DEF R
<1>2. IsFiniteSet(B) /\ TotalOn(R, B)
  <2>1. IsFiniteSet(B)
    <3>1. IsFiniteSet(1..n)
      BY FS_Interval
    <3> QED BY <3>1, FS_Subset
  <2>2. \A a \in B : a \in 1..n /\ a \in Int
    OBVIOUS
  <2>3. \A a \in B : <<a, a>> \notin R
    BY <1>1, <2>2
  <2>4. ASSUME NEW a \in B, NEW b \in B PROVE a = b \/ <<a, b>> \in R \/ <<b, a>> \in R
    <3>1. a \in 1..n /\ b \in 1..n /\ (a < b \/ a = b \/ b < a)
      BY <2>2
    <3> QED BY <1>1, <3>1
  <2>5. \A a, b, c \in B : <<a, b>> \in R /\ <<b, c>> \in R => <<a, c>> \in R
    BY <1>1, <2>2
  <2> QED BY <2>1, <2>3, <2>4, <2>5 DEF TotalOn
<1>3. Cardinality(B) \in Nat \ {0}
  BY <1>2, FS_EmptySet, FS_CardinalityType
<1>4. PICK i \in B : Ahead(B, R, i) = 0
  <2>1. 1 \in 1..Cardinality(B)
    BY <1>3
  <2>2. InOrder(B, R)[1] \in B /\ Ahead(B, R, InOrder(B, R)[1]) = 1 - 1
    BY <1>2, <2>1, InOrderPlaces
  <2>3. 1 - 1 = 0
    OBVIOUS
  <2> QED BY <2>2, <2>3
<1>5. {j \in B : <<j, i>> \in R} = {}
  <2> DEFINE A == {j \in B : <<j, i>> \in R}
  <2>1. IsFiniteSet(A) /\ Cardinality(A) = 0
    BY <1>2, <1>4, FS_Subset DEF Ahead
  <2> HIDE DEF A
  <2>2. A = {}
    BY <2>1, FS_EmptySet
  <2> QED BY <2>2 DEF A
<1>6. ASSUME NEW j \in 1..(i - 1), j \in B PROVE FALSE
  <2>1. i \in 1..n /\ j \in 1..n /\ j < i
    BY <1>6
  <2> QED BY <1>1, <1>5, <1>6, <2>1
<1> QED BY <1>6

\* The numbers of a page, and where its slice begins and ends.
LEMMA SliceBounds ==
    ASSUME NEW total \in Nat, NEW size \in Nat \ {0}, NEW p \in 1..PagesOf(total, size)
    PROVE  /\ (p - 1) * size \in Nat /\ p * size = (p - 1) * size + size
           /\ (p - 1) * size <= total
           /\ total > 0 => (p - 1) * size < total
<1> DEFINE last == PagesOf(total, size)
<1>1. /\ last \in Nat \ {0} /\ (total > 0 => (last - 1) * size < total)
      /\ (total = 0 => last = 1)
  BY PagesHold
<1>2. (p - 1) * size \in Nat /\ p * size = (p - 1) * size + size
  <2>1. p \in Nat \ {0}
    BY <1>1
  <2> QED BY <2>1
<1>3. total > 0 => (p - 1) * size < total
  <2> DEFINE a == p - 1
             b == last - 1
             x == a * size
             y == b * size
  <2>1. a \in Int /\ b \in Int /\ a <= b
    BY <1>1
  <2> HIDE DEF a, b
  <2>2. x <= y /\ x \in Int /\ y \in Int
    BY <2>1, ProductsCompare
  <2>3. total > 0 => y < total
    BY <1>1 DEF b
  <2> HIDE DEF x, y
  <2>4. total > 0 => x < total
    BY <2>2, <2>3
  <2> QED BY <2>4 DEF x, a
<1>4. total = 0 => (p - 1) * size = 0
  <2>1. total = 0 => p - 1 = 0
    BY <1>1
  <2> QED BY <2>1
<1> QED BY <1>2, <1>3, <1>4

\* Put end to end, the pages are the list; none of them is empty unless the list is.
LEMMA SlicesWhole ==
    ASSUME NEW S, NEW seq \in Seq(S), NEW size \in Nat \ {0}
    PROVE  /\ FlattenSeq([p \in 1..PagesOf(Len(seq), size) |-> Slice(seq, p, size)]) = seq
           /\ \A p \in 1..PagesOf(Len(seq), size) : Len(seq) > 0 => Slice(seq, p, size) # <<>>
<1> DEFINE total == Len(seq)
           last == PagesOf(total, size)
           seqs == [p \in 1..last |-> Slice(seq, p, size)]
           upTo(p) == IF p * size < total THEN p * size ELSE total
           G == [p \in 1..last |-> SubSeq(seq, 1, upTo(p))]
<1>1. total \in Nat /\ \A i \in 1..total : seq[i] \in S
  BY LenProperties
<1> HIDE DEF total
<1>2. last \in Nat \ {0} /\ total <= last * size
  BY <1>1, PagesHold
<1>3. ASSUME NEW p \in 1..last
      PROVE  /\ (p - 1) * size \in Nat /\ p * size \in Nat /\ p * size = (p - 1) * size + size
             /\ (p - 1) * size <= upTo(p) /\ upTo(p) \in Nat /\ upTo(p) <= total
             /\ total > 0 => (p - 1) * size < upTo(p)
             /\ p > 1 => upTo(p - 1) = (p - 1) * size
  <2> DEFINE x == (p - 1) * size
             y == p * size
  <2>1. x \in Nat /\ y = x + size /\ x <= total /\ (total > 0 => x < total)
    BY <1>1, SliceBounds
  <2>2. upTo(p) = (IF y < total THEN y ELSE total) /\ upTo(p - 1) = (IF x < total THEN x ELSE total)
    OBVIOUS
  <2> HIDE DEF x, y, upTo
  <2>3. x \in Nat /\ y \in Nat /\ y = x + size
    BY <2>1
  <2>4. x <= upTo(p) /\ upTo(p) \in Nat /\ upTo(p) <= total /\ (total > 0 => x < upTo(p))
    BY <1>1, <2>1, <2>2
  <2>5. upTo(p - 1) = x
    BY <1>1, <2>1, <2>2
  <2> QED BY <2>3, <2>4, <2>5 DEF x, y
<1>4. \A p \in 1..last : seqs[p] = SubSeq(seq, (p - 1) * size + 1, upTo(p))
  BY DEF Slice, total
<1>5. \A p \in 1..last : p > 1 => p - 1 \in 1..last
  <2> HIDE DEF last
  <2> QED BY <1>2
<1> HIDE DEF last, upTo, seqs, G
<1>6. ASSUME NEW p \in 1..last
      PROVE  G[p] = IF p = 1 THEN seqs[p] ELSE G[p - 1] \o seqs[p]
  <2> DEFINE x == (p - 1) * size
  <2>1. seqs[p] = SubSeq(seq, x + 1, upTo(p)) /\ G[p] = SubSeq(seq, 1, upTo(p))
    BY <1>4 DEF G
  <2>2. CASE p = 1
    <3>1. x + 1 = 1
      BY <2>2
    <3> HIDE DEF x
    <3> QED BY <2>1, <2>2, <3>1
  <2>3. CASE p # 1
    <3>1. p > 1
      BY <2>3, <1>2
    <3>2. G[p - 1] = SubSeq(seq, 1, x)
      BY <1>3, <1>5, <3>1 DEF G
    <3>3. x \in Nat /\ x <= upTo(p) /\ upTo(p) \in Nat /\ upTo(p) <= total
      BY <1>3
    <3> HIDE DEF x
    <3>4. 1 \in 1..(Len(seq) + 1) /\ x \in (1 - 1)..Len(seq) /\ upTo(p) \in x..Len(seq)
      BY <1>1, <3>3 DEF total
    <3>5. SubSeq(seq, 1, x) \o SubSeq(seq, x + 1, upTo(p)) = SubSeq(seq, 1, upTo(p))
      BY <3>4, ConcatAdjacentSubSeq
    <3> QED BY <2>1, <2>3, <3>2, <3>5
  <2> QED BY <2>2, <2>3
<1>7. G = [p \in 1..last |-> IF p = 1 THEN seqs[p] ELSE G[p - 1] \o seqs[p]]
  BY <1>6 DEF G
<1>8. Len(seqs) = last
  <2>1. seqs \in Seq({seqs[p] : p \in 1..last})
    BY <1>2, SeqDef DEF seqs
  <2>2. DOMAIN seqs = 1..last /\ DOMAIN seqs = 1..Len(seqs) /\ Len(seqs) \in Nat
    BY <2>1, LenProperties DEF seqs
  <2> QED BY <1>2, <2>2
<1> DEFINE F == CHOOSE f : f = [p \in 1..last |-> IF p = 1 THEN seqs[p] ELSE f[p - 1] \o seqs[p]]
<1>9. F = [p \in 1..last |-> IF p = 1 THEN seqs[p] ELSE F[p - 1] \o seqs[p]]
  BY <1>7
<1> HIDE DEF F
<1>10. \A p \in 1..last : F[p] = G[p]
  <2> DEFINE B == {p \in 1..last : F[p] # G[p]}
  <2>1. SUFFICES ASSUME B # {} PROVE FALSE
    OBVIOUS
  <2>2. PICK i \in B : \A j \in 1..(i - 1) : j \notin B
    <3>1. B \in SUBSET (1..last)
      OBVIOUS
    <3> HIDE DEF B
    <3> QED BY <1>2, <2>1, <3>1, LeastOf
  <2>3. i \in 1..last /\ F[i] # G[i] /\ i \in Nat
    BY <1>2
  <2>4. F[i] = (IF i = 1 THEN seqs[i] ELSE F[i - 1] \o seqs[i])
    BY <1>9, <2>3
  <2>5. i # 1 => F[i - 1] = G[i - 1]
    BY <1>2, <2>2, <2>3
  <2> QED BY <1>6, <2>3, <2>4, <2>5
<1>11. FlattenSeq(seqs) = F[last]
  BY <1>2, <1>8 DEF FlattenSeq, F
<1>12. FlattenSeq(seqs) = seq
  <2>1. last \in 1..last
    BY <1>2
  <2>2. upTo(last) = total
    <3> DEFINE x == last * size
    <3>1. x \in Int /\ total <= x
      BY <1>2
    <3>2. upTo(last) = IF x < total THEN x ELSE total
      BY DEF upTo
    <3> HIDE DEF x
    <3> QED BY <1>1, <3>1, <3>2
  <2>3. SubSeq(seq, 1, Len(seq)) = seq
    BY SubSeqFull
  <2> QED BY <1>10, <1>11, <2>1, <2>2, <2>3 DEF G, total
<1>13. ASSUME NEW p \in 1..last, total > 0 PROVE Slice(seq, p, size) # <<>>
  <2> DEFINE x == (p - 1) * size
  <2>1. x \in Nat /\ x < upTo(p) /\ upTo(p) \in Nat /\ upTo(p) <= total
    BY <1>3, <1>13
  <2>2. Slice(seq, p, size) = SubSeq(seq, x + 1, upTo(p))
    BY <1>4 DEF seqs
  <2> HIDE DEF x
  <2>3. \A i \in (x + 1)..upTo(p) : seq[i] \in S
    BY <1>1, <2>1
  <2>4. Len(SubSeq(seq, x + 1, upTo(p))) = upTo(p) - (x + 1) + 1
    BY <2>1, <2>3, SubSeqProperties
  <2>5. Len(SubSeq(seq, x + 1, upTo(p))) # 0
    BY <2>1, <2>4
  <2>6. Len(<<>>) = 0
    OBVIOUS
  <2> QED BY <2>2, <2>5, <2>6, Zenon
<1> QED BY <1>12, <1>13 DEF seqs, last, total

\* The view lists the matching rows.
LEMMA ViewListed ==
    ASSUME NEW c \in Controls, NEW t \in Tables
    PROVE  /\ View(People(c), t) \in Seq(ToSet(View(People(c), t)))
           /\ Len(View(People(c), t)) = Cardinality(Matches(People(c), t))
<1> DEFINE s == View(People(c), t)
           n == Cardinality(Matches(People(c), t))
<1>1. n \in Nat
  BY PaintedFits
<1>2. DOMAIN s = 1..n /\ s = [k \in 1..n |-> s[k]]
  BY DEF View, InOrder
<1> HIDE DEF s, n
<1>3. s \in Seq(ToSet(s))
  BY <1>1, <1>2, SeqDef DEF ToSet
<1>4. Len(s) = n
  BY <1>1, <1>2, <1>3, LenProperties
<1> QED BY <1>3, <1>4 DEF s, n

\* Two sequences end to end.
LEMMA Joined ==
    ASSUME NEW s \in Seq(Nat), NEW r \in Seq(Nat), NEW a, NEW b, Len(s) = a, Len(r) = b
    PROVE  /\ s \o r \in Seq(Nat) /\ Len(s \o r) = a + b /\ DOMAIN (s \o r) = 1..(a + b)
           /\ a \in Nat /\ b \in Nat
           /\ \A i \in 1..(a + b) : (s \o r)[i] = IF i <= a THEN s[i] ELSE r[i - a]
<1>1. s \o r \in Seq(Nat) /\ Len(s \o r) = Len(s) + Len(r)
  BY ConcatProperties
<1>2. \A i \in 1..(Len(s) + Len(r)) : (s \o r)[i] = IF i <= Len(s) THEN s[i] ELSE r[i - Len(s)]
  <2> SUFFICES ASSUME NEW i \in 1..(Len(s) + Len(r))
               PROVE  (s \o r)[i] = IF i <= Len(s) THEN s[i] ELSE r[i - Len(s)]
    OBVIOUS
  <2> QED BY ConcatProperties
<1>3. DOMAIN (s \o r) = 1..Len(s \o r) /\ Len(s) \in Nat /\ Len(r) \in Nat
  BY <1>1, LenProperties
<1> QED BY <1>1, <1>2, <1>3

\* The numbers of the pager when there are more than seven pages: the first, those about
\* the current one, the last, with gaps between them.
LEMMA ListPlaces ==
    ASSUME NEW total \in Nat, total > 7, NEW cur \in 1..total
    PROVE  \E from, to, g, h \in Nat :
              /\ from = (IF cur - 1 < 2 THEN 2 ELSE cur - 1)
              /\ to = (IF cur + 1 > total - 1 THEN total - 1 ELSE cur + 1)
              /\ g = (IF from > 2 THEN 1 ELSE 0) /\ h = (IF to < total - 1 THEN 1 ELSE 0)
              /\ from <= to
              /\ DOMAIN PageList(cur, total) = 1..Len(PageList(cur, total))
              /\ Len(PageList(cur, total)) = 3 + g + (to - from) + h
              /\ \A i \in 1..(3 + g + (to - from) + h) :
                    PageList(cur, total)[i] =
                       IF i = 1 THEN 1
                       ELSE IF i <= 1 + g THEN Gap
                       ELSE IF i <= 2 + g + (to - from) THEN from + (i - 2 - g)
                       ELSE IF i <= 2 + g + (to - from) + h THEN Gap
                       ELSE total
<1> DEFINE from == IF cur - 1 < 2 THEN 2 ELSE cur - 1
           to == IF cur + 1 > total - 1 THEN total - 1 ELSE cur + 1
           g == IF from > 2 THEN 1 ELSE 0
           h == IF to < total - 1 THEN 1 ELSE 0
           m == to - from + 1
           A == IF from > 2 THEN <<Gap>> ELSE <<>>
           B == [k \in 1..m |-> from + k - 1]
           C == IF to < total - 1 THEN <<Gap>> ELSE <<>>
           L == PageList(cur, total)
<1>1. from \in Nat /\ to \in Nat /\ from <= to /\ m \in Nat \ {0} /\ g \in Nat /\ h \in Nat
  OBVIOUS
<1>2. L = <<1>> \o A \o B \o C \o <<total>>
  <2>1. ~(total <= 7)
    OBVIOUS
  <2> QED BY <2>1, Zenon DEF PageList
<1>3. /\ A \in Seq(Nat) /\ Len(A) = g /\ \A i \in 1..g : A[i] = Gap
      /\ C \in Seq(Nat) /\ Len(C) = h /\ \A i \in 1..h : C[i] = Gap
  BY DEF Gap
<1>4. <<1>> \in Seq(Nat) /\ Len(<<1>>) = 1 /\ <<1>>[1] = 1
      /\ <<total>> \in Seq(Nat) /\ Len(<<total>>) = 1 /\ <<total>>[1] = total
  OBVIOUS
<1> HIDE DEF from, to, m, g, h, A, C, L
<1>5. B \in Seq(Nat) /\ Len(B) = m /\ \A i \in 1..m : B[i] = from + i - 1
  <2>1. B \in [1..m -> Nat]
    BY <1>1
  <2>2. B \in Seq(Nat)
    BY <1>1, <2>1, SeqDef
  <2>3. DOMAIN B = 1..m /\ DOMAIN B = 1..Len(B) /\ Len(B) \in Nat
    BY <2>2, LenProperties
  <2> QED BY <1>1, <2>2, <2>3
<1> HIDE DEF B
<1> DEFINE P == <<1>> \o A
           Q == P \o B
           T == Q \o C
<1> DEFINE p == 1 + g
           q == p + m
           n == q + h
<1>6. /\ P \in Seq(Nat) /\ Len(P) = p
      /\ \A i \in 1..p : P[i] = IF i = 1 THEN 1 ELSE Gap
  <2> DEFINE one == <<1>>
  <2>1. one \in Seq(Nat) /\ Len(one) = 1 /\ one[1] = 1
    BY <1>4
  <2> HIDE DEF one
  <2>2. /\ one \o A \in Seq(Nat) /\ Len(one \o A) = 1 + g
        /\ \A i \in 1..(1 + g) : (one \o A)[i] = IF i <= 1 THEN one[i] ELSE A[i - 1]
    <3> DEFINE u == 1
    <3> HIDE DEF u
    <3>1. Len(one) = u
      BY <2>1 DEF u
    <3>2. /\ one \o A \in Seq(Nat) /\ Len(one \o A) = u + g
          /\ \A i \in 1..(u + g) : (one \o A)[i] = IF i <= u THEN one[i] ELSE A[i - u]
      BY <1>3, <2>1, <3>1, Joined
    <3> QED BY <3>2 DEF u
  <2>3. ASSUME NEW i \in 1..p PROVE (one \o A)[i] = IF i = 1 THEN 1 ELSE Gap
    <3>1. CASE i = 1
      BY <1>1, <2>1, <2>2, <3>1
    <3>2. CASE i # 1
      <4>1. i - 1 \in 1..g /\ ~(i <= 1)
        BY <1>1, <3>2
      <4> QED BY <1>3, <2>2, <3>2, <4>1
    <3> QED BY <3>1, <3>2
  <2> QED BY <2>2, <2>3 DEF one
<1>7. p \in Nat /\ q \in Nat /\ n \in Nat
  BY <1>1
<1> HIDE DEF P, p
<1>8. /\ Q \in Seq(Nat) /\ Len(Q) = q
      /\ \A i \in 1..q : Q[i] = IF i <= p THEN P[i] ELSE B[i - p]
  BY <1>5, <1>6, Joined
<1> HIDE DEF Q, q
<1>9. /\ T \in Seq(Nat) /\ Len(T) = n
      /\ \A i \in 1..n : T[i] = IF i <= q THEN Q[i] ELSE C[i - q]
  BY <1>3, <1>8, Joined
<1> HIDE DEF T, n
<1>10. /\ Len(L) = n + 1 /\ DOMAIN L = 1..(n + 1)
       /\ \A i \in 1..(n + 1) : L[i] = IF i <= n THEN T[i] ELSE <<total>>[i - n]
  <2> DEFINE end == <<total>>
  <2>1. end \in Seq(Nat) /\ Len(end) = 1
    BY <1>4
  <2>2. L = T \o end
    BY <1>2 DEF T, Q, P
  <2> HIDE DEF end
  <2>3. /\ Len(T \o end) = n + 1 /\ DOMAIN (T \o end) = 1..(n + 1)
        /\ \A i \in 1..(n + 1) : (T \o end)[i] = IF i <= n THEN T[i] ELSE end[i - n]
    <3> DEFINE u == 1
    <3> HIDE DEF u
    <3>1. Len(end) = u
      BY <2>1 DEF u
    <3>2. /\ Len(T \o end) = n + u /\ DOMAIN (T \o end) = 1..(n + u)
          /\ \A i \in 1..(n + u) : (T \o end)[i] = IF i <= n THEN T[i] ELSE end[i - n]
      BY <1>9, <2>1, <3>1, Joined
    <3> QED BY <3>2 DEF u
  <2> QED BY <2>2, <2>3 DEF end
<1>11. /\ p = 1 + g /\ q = 2 + g + (to - from) /\ n = 2 + g + (to - from) + h
       /\ m = to - from + 1 /\ p <= q /\ q <= n
  <2>1. p = 1 + g /\ q = p + m /\ n = q + h /\ m = to - from + 1
    BY DEF p, q, n, m
  <2> QED BY <1>1, <2>1
<1>12. Len(L) = 3 + g + (to - from) + h /\ DOMAIN L = 1..Len(L)
  BY <1>1, <1>10, <1>11
<1>13. ASSUME NEW i \in 1..(3 + g + (to - from) + h)
       PROVE  L[i] = IF i = 1 THEN 1
                     ELSE IF i <= 1 + g THEN Gap
                     ELSE IF i <= 2 + g + (to - from) THEN from + (i - 2 - g)
                     ELSE IF i <= 2 + g + (to - from) + h THEN Gap
                     ELSE total
  <2>0. i \in 1..(n + 1) /\ i \in Nat
    BY <1>1, <1>11
  <2>1. CASE i <= p
    <3>1. L[i] = P[i] /\ i \in 1..p
      BY <1>7, <1>8, <1>9, <1>10, <1>11, <2>0, <2>1
    <3>2. L[i] = IF i = 1 THEN 1 ELSE Gap
      BY <1>6, <3>1
    <3> QED BY <1>11, <2>1, <3>2
  <2>2. CASE i > p /\ i <= q
    <3>1. i - p \in 1..m
      BY <1>1, <1>7, <1>11, <2>0, <2>2
    <3>2. L[i] = B[i - p]
      BY <1>7, <1>8, <1>9, <1>10, <1>11, <2>0, <2>2
    <3>3. B[i - p] = from + (i - p) - 1
      BY <1>5, <3>1
    <3>4. L[i] = from + (i - 2 - g) /\ ~(i = 1) /\ ~(i <= 1 + g) /\ i <= 2 + g + (to - from)
      BY <1>1, <1>7, <1>11, <2>0, <2>2, <3>2, <3>3
    <3> QED BY <3>4
  <2>3. CASE i > q /\ i <= n
    <3>1. i - q \in 1..h
      BY <1>1, <1>7, <1>11, <2>0, <2>3
    <3>2. L[i] = C[i - q]
      BY <1>7, <1>9, <1>10, <1>11, <2>0, <2>3
    <3>3. L[i] = Gap
      BY <1>3, <3>1, <3>2
    <3>4. ~(i = 1) /\ ~(i <= 1 + g) /\ ~(i <= 2 + g + (to - from)) /\ i <= 2 + g + (to - from) + h
      BY <1>1, <1>7, <1>11, <2>0, <2>3
    <3> QED BY <3>3, <3>4
  <2>4. CASE i > n
    <3>1. i - n = 1
      BY <1>7, <2>0, <2>4
    <3>2. L[i] = total
      BY <1>4, <1>7, <1>10, <2>0, <2>4, <3>1
    <3>3. ~(i = 1) /\ ~(i <= 1 + g) /\ ~(i <= 2 + g + (to - from)) /\ ~(i <= 2 + g + (to - from) + h)
      BY <1>1, <1>7, <1>11, <2>0, <2>4
    <3> QED BY <3>2, <3>3
  <2> QED BY <1>7, <2>0, <2>1, <2>2, <2>3, <2>4
<1> QED BY <1>1, <1>12, <1>13 DEF from, to, g, h, L

\* From every page the pager leads to the ones beside it, the first and the last, and a
\* gap stands exactly where numbers are left out.
LEMMA PagerLeads ==
    ASSUME NEW total \in Nat \ {0}, NEW cur \in 1..total
    PROVE  /\ total > 1 => {1, cur - 1, cur + 1, total} \cap 1..total \subseteq Targets(cur, total)
           /\ \A k \in 1..(Len(PageList(cur, total)) - 1) :
                 /\ PageList(cur, total)[k] # Gap /\ PageList(cur, total)[k + 1] # Gap
                       => PageList(cur, total)[k + 1] = PageList(cur, total)[k] + 1
                 /\ PageList(cur, total)[k] = Gap
                       => PageList(cur, total)[k + 1] > PageList(cur, total)[k - 1] + 1
<1> DEFINE L == PageList(cur, total)
<1>1. ASSUME {1, total} \subseteq ToSet(L)
      PROVE  total > 1 => {1, cur - 1, cur + 1, total} \cap 1..total \subseteq Targets(cur, total)
  BY <1>1 DEF Targets
<1>2. CASE total <= 7
  <2>1. L = [p \in 1..total |-> p]
    BY <1>2 DEF PageList
  <2> HIDE DEF L
  <2>2. Len(L) = total /\ DOMAIN L = 1..total
    <3>1. L \in Seq(Nat)
      BY <2>1, SeqDef
    <3> QED BY <2>1, <3>1, LenProperties
  <2>3. \A k \in 1..total : L[k] = k
    BY <2>1
  <2>4. {1, total} \subseteq ToSet(L)
    BY <2>2, <2>3 DEF ToSet
  <2>5. \A k \in 1..(Len(L) - 1) : L[k] # Gap /\ L[k + 1] = L[k] + 1
    BY <2>2, <2>3 DEF Gap
  <2> QED BY <1>1, <2>4, <2>5 DEF L
<1>3. CASE total > 7
  <2>1. PICK from, to, g, h \in Nat :
              /\ from = (IF cur - 1 < 2 THEN 2 ELSE cur - 1)
              /\ to = (IF cur + 1 > total - 1 THEN total - 1 ELSE cur + 1)
              /\ g = (IF from > 2 THEN 1 ELSE 0) /\ h = (IF to < total - 1 THEN 1 ELSE 0)
              /\ from <= to
              /\ DOMAIN L = 1..Len(L)
              /\ Len(L) = 3 + g + (to - from) + h
              /\ \A i \in 1..(3 + g + (to - from) + h) :
                    L[i] = IF i = 1 THEN 1
                           ELSE IF i <= 1 + g THEN Gap
                           ELSE IF i <= 2 + g + (to - from) THEN from + (i - 2 - g)
                           ELSE IF i <= 2 + g + (to - from) + h THEN Gap
                           ELSE total
    BY <1>3, ListPlaces
  <2> HIDE DEF L
  <2> DEFINE n == 3 + g + (to - from) + h
  <2>2. n \in Nat /\ n > 2 /\ Len(L) = n
    BY <2>1
  <2>3. \A k \in 1..n : k \in DOMAIN L
    BY <2>1, <2>2
  <2>4. L[1] = 1 /\ L[n] = total
    BY <2>1
  <2>5. {1, total} \subseteq ToSet(L)
    BY <2>2, <2>3, <2>4 DEF ToSet
  <2>6. ASSUME NEW k \in 1..(n - 1)
        PROVE  /\ L[k] # Gap /\ L[k + 1] # Gap => L[k + 1] = L[k] + 1
               /\ L[k] = Gap => L[k + 1] > L[k - 1] + 1
    <3>1. /\ k \in Nat /\ k >= 1 /\ k <= n - 1 /\ Gap = 0
          /\ from >= 2 /\ to <= total - 1 /\ g \in {0, 1} /\ h \in {0, 1}
      BY <1>3, <2>1 DEF Gap
    <3>2. CASE k = 1
      BY <1>3, <2>1, <3>1, <3>2
    <3>3. CASE k # 1 /\ k <= 1 + g
      <4>1. k = 2 /\ g = 1 /\ from > 2
        BY <2>1, <3>1, <3>3
      <4>2. L[k] = 0 /\ L[k - 1] = 1 /\ L[k + 1] = from
        BY <2>1, <3>1, <4>1
      <4> QED BY <3>1, <4>1, <4>2
    <3>4. CASE k > 1 + g /\ k <= 2 + g + (to - from)
      <4>1. L[k] = from + (k - 2 - g)
        BY <2>1, <3>1, <3>4
      <4>2. CASE k < 2 + g + (to - from)
        <5>1. L[k + 1] = from + (k - 1 - g)
          BY <2>1, <3>1, <3>4, <4>2
        <5> QED BY <2>1, <3>1, <3>4, <4>1, <5>1
      <4>3. CASE k = 2 + g + (to - from)
        <5>1. L[k] = to
          BY <2>1, <3>1, <4>1, <4>3
        <5>2. L[k + 1] = IF h = 1 THEN 0 ELSE total
          BY <2>1, <3>1, <4>3
        <5> QED BY <2>1, <3>1, <5>1, <5>2
      <4> QED BY <2>1, <3>4, <4>2, <4>3
    <3>5. CASE k > 2 + g + (to - from)
      <4>1. h = 1 /\ k = 3 + g + (to - from) /\ k = n - 1 /\ to < total - 1
        BY <2>1, <3>1, <3>5
      <4>2. L[k - 1] = to
        BY <2>1, <3>1, <4>1
      <4>3. L[k] = 0 /\ L[k + 1] = total
        BY <2>1, <3>1, <4>1
      <4> QED BY <2>1, <4>1, <4>2, <4>3, <3>1
    <3> QED BY <2>1, <3>1, <3>2, <3>3, <3>4, <3>5
  <2> QED BY <1>1, <2>2, <2>5, <2>6 DEF L
<1> QED BY <1>2, <1>3

\* For every server, search, order and size of page: the page is one that is there, the
\* pages are the matching rows end to end, the clicks reach every page, a gap stands where
\* numbers are left out, and rows that the server cut off are announced (dataTable, paint,
\* pageList, the cohort grid).
THEOREM PagesHoldRows == DashboardSpec => []PagesSound
<1>1. ASSUME DashboardInv PROVE PagesSound
  <2> SUFFICES ASSUME NEW d \in dom
               PROVE  /\ d.tab = "people" =>
                            LET rows  == People(d.data)
                                seq   == View(rows, table)
                                size  == SizeOf(table, Len(seq))
                                last  == TablePages(rows, table)
                            IN  /\ table.page \in 1..last
                                /\ FlattenSeq([p \in 1..last |-> Slice(seq, p, size)]) = seq
                                /\ \A p \in 1..last : Len(seq) > 0 => Slice(seq, p, size) # <<>>
                                /\ \A p \in 1..last :
                                      /\ last > 1 => {1, p - 1, p + 1, last} \cap 1..last \subseteq Targets(p, last)
                                      /\ LET list == PageList(p, last)
                                         IN  \A k \in 1..(Len(list) - 1) :
                                                /\ list[k] # Gap /\ list[k + 1] # Gap => list[k + 1] = list[k] + 1
                                                /\ list[k] = Gap => list[k + 1] > list[k - 1] + 1
                                /\ rows # ServerRows[d.data] => Capped(rows)
                      /\ d.tab = "retention" => cohorts \in 1..CohortPages(d.data)
    BY DEF PagesSound
  <2> DEFINE rows  == People(d.data)
             seq   == View(rows, table)
             size  == SizeOf(table, Len(seq))
             last  == TablePages(rows, table)
             total == Cardinality(Matches(rows, table))
  <2>1. d.data \in Controls /\ table \in Tables
    BY <1>1 DEF DashboardInv, PageShape
  <2>2. /\ d.tab = "people" => table.page \in 1..last
        /\ d.tab = "retention" => cohorts \in 1..CohortPages(d.data)
    BY <1>1 DEF DashboardInv, PaintedInv
  <2>3. seq \in Seq(ToSet(seq)) /\ Len(seq) = total
    BY <2>1, ViewListed
  <2>4. size \in Nat \ {0} /\ last \in Nat \ {0}
    <3>1. SizeOf(table, total) \in Nat \ {0} /\ last \in Nat \ {0}
      BY <2>1, PaintedFits
    <3> QED BY <2>3, <3>1
  <2>5. last = PagesOf(Len(seq), size)
    BY <2>3 DEF TablePages
  <2>6. rows # ServerRows[d.data] => Capped(rows)
    BY <2>1, PeopleRows
  <2> HIDE DEF rows, seq, size, last
  <2>7. /\ FlattenSeq([p \in 1..last |-> Slice(seq, p, size)]) = seq
        /\ \A p \in 1..last : Len(seq) > 0 => Slice(seq, p, size) # <<>>
    BY <2>3, <2>4, <2>5, SlicesWhole
  <2>8. \A p \in 1..last :
           /\ last > 1 => {1, p - 1, p + 1, last} \cap 1..last \subseteq Targets(p, last)
           /\ \A k \in 1..(Len(PageList(p, last)) - 1) :
                 /\ PageList(p, last)[k] # Gap /\ PageList(p, last)[k + 1] # Gap
                       => PageList(p, last)[k + 1] = PageList(p, last)[k] + 1
                 /\ PageList(p, last)[k] = Gap
                       => PageList(p, last)[k + 1] > PageList(p, last)[k - 1] + 1
    BY <2>4, PagerLeads
  <2> QED BY <2>2, <2>6, <2>7, <2>8, Zenon DEF rows, seq, size, last
<1> QED BY <1>1, DashboardInvariant, PTL

\* Values of a column compare like numbers, and a missing one is below them all.
LEMMA AboveOrders ==
    ASSUME NEW x, NEW y, NEW z, NEW desc \in BOOLEAN,
           x.key \in Int \cup {NoKey}, y.key \in Int \cup {NoKey}, z.key \in Int \cup {NoKey}
    PROVE  /\ ~Above(x, x, desc)
           /\ Above(x, y, desc) => ~Above(y, x, desc)
           /\ Above(x, y, desc) => Above(x, z, desc) \/ Above(z, y, desc)
<1>1. CASE desc
  BY <1>1 DEF Above
<1>2. CASE ~desc
  BY <1>2 DEF Above
<1> QED BY <1>1, <1>2

\* The sort of paint leaves no two rows without an order.
LEMMA SortTotal ==
    ASSUME NEW c \in Controls, NEW t \in Tables
    PROVE  TotalOn(SortOrder(People(c), t), DOMAIN People(c))
<1> DEFINE rows == People(c)
           D == DOMAIN rows
           up(i, j) == Above(rows[i], rows[j], t.desc)
           R == SortOrder(rows, t)
<1>1. D \subseteq Int
  BY PeopleRows
<1>2. \A i \in D : rows[i].key \in Int \cup {NoKey}
  <2>1. \A i \in D : rows[i] \in ToSet(ServerRows[c])
    BY PeopleRows, LenProperties
  <2> QED BY <2>1, ServerAssumption
<1>3. \A i, j \in D : <<i, j>> \in R <=> up(i, j) \/ (~up(j, i) /\ i < j)
  BY DEF SortOrder
<1>4. t.desc \in BOOLEAN
  BY DEF Tables
<1> HIDE DEF rows
<1>5. \A i, j, k \in D : /\ ~up(i, i)
                         /\ up(i, j) => ~up(j, i)
                         /\ up(i, j) => up(i, k) \/ up(k, j)
  BY <1>2, <1>4, AboveOrders
<1> HIDE DEF D, up, R
<1>6. \A i \in D : <<i, i>> \notin R
  BY <1>1, <1>3, <1>5
<1>7. ASSUME NEW i \in D, NEW j \in D PROVE i = j \/ <<i, j>> \in R \/ <<j, i>> \in R
  <2>1. i < j \/ i = j \/ j < i
    BY <1>1
  <2> QED BY <1>3, <1>5, <2>1
<1>8. ASSUME NEW i \in D, NEW j \in D, NEW k \in D, <<i, j>> \in R, <<j, k>> \in R
      PROVE  <<i, k>> \in R
  <2>1. i < j /\ j < k => i < k
    BY <1>1
  <2>2. CASE up(i, k)
    BY <1>3, <2>2
  <2>3. CASE ~up(i, k)
    <3>1. ~up(k, i)
      BY <1>3, <1>5, <1>8
    <3>2. ~up(i, j) /\ ~up(j, k)
      BY <1>3, <1>5, <1>8, <2>3, <3>1
    <3> QED BY <1>3, <1>8, <2>1, <3>1, <3>2
  <2> QED BY <2>2, <2>3
<1>9. TotalOn(R, D)
  BY <1>6, <1>7, <1>8 DEF TotalOn
<1> QED BY <1>9 DEF R, D, rows

\* What the pages are cut from: every matching row stands in it exactly once, and after
\* every row that sorts before it (the filter and the sort of paint).
THEOREM RowsInOrder ==
    ASSUME NEW c \in Controls, NEW t \in Tables
    PROVE  LET rows == People(c)
               seq  == View(rows, t)
           IN  /\ seq \in Bijection(1..Len(seq), Matches(rows, t))
               /\ \A i, j \in 1..Len(seq) : i < j => <<seq[i], seq[j]>> \in SortOrder(rows, t)
<1> DEFINE rows == People(c)
           seq  == View(rows, t)
           S == Matches(rows, t)
           R == SortOrder(rows, t)
<1>1. IsFiniteSet(S) /\ Len(seq) = Cardinality(S) /\ Cardinality(S) \in Nat
  BY PaintedFits, ViewListed
<1>2. TotalOn(R, S)
  <2>1. S \subseteq DOMAIN rows
    BY DEF Matches
  <2>2. TotalOn(R, DOMAIN rows)
    BY SortTotal
  <2> HIDE DEF S, R, rows
  <2> QED BY <2>1, <2>2 DEF TotalOn
<1>3. seq = InOrder(S, R)
  BY DEF View
<1> HIDE DEF S, R, seq, rows
<1> DEFINE n == Len(seq)
<1>4. /\ seq \in [1..n -> S]
      /\ \A k \in 1..n : seq[k] \in S /\ Ahead(S, R, seq[k]) = k - 1
      /\ \A a \in S : Ahead(S, R, a) + 1 \in 1..n /\ seq[Ahead(S, R, a) + 1] = a
  BY <1>1, <1>2, <1>3, InOrderPlaces
<1> HIDE DEF n
<1>5. \A i, j \in 1..n : seq[i] = seq[j] => i = j
  <2> SUFFICES ASSUME NEW i \in 1..n, NEW j \in 1..n, seq[i] = seq[j] PROVE i = j
    OBVIOUS
  <2>1. i - 1 = j - 1
    BY <1>4
  <2> QED BY <2>1
<1>6. seq \in Bijection(1..n, S)
  BY <1>4, <1>5 DEF Bijection, Injection, IsInjective, Surjection
<1>7. ASSUME NEW i \in 1..n, NEW j \in 1..n, i < j PROVE <<seq[i], seq[j]>> \in R
  <2>1. seq[i] \in S /\ seq[j] \in S /\ Ahead(S, R, seq[i]) = i - 1 /\ Ahead(S, R, seq[j]) = j - 1
    BY <1>4
  <2>2. <<seq[j], seq[i]>> \in R => Ahead(S, R, seq[j]) < Ahead(S, R, seq[i])
    BY <1>1, <1>2, <2>1, AheadGrows
  <2>3. <<seq[j], seq[i]>> \notin R /\ seq[i] # seq[j]
    BY <1>7, <2>1, <2>2
  <2> QED BY <1>2, <2>1, <2>3 DEF TotalOn
<1> QED BY <1>6, <1>7 DEF n, S, R, seq, rows

===============================================================================
