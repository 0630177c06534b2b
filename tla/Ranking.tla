-------------------------------- MODULE Ranking --------------------------------
(***************************************************************************)
(* What a sort returns: the elements of a finite set in the order of a     *)
(* relation, a set of pairs that orders any two of them.  Array.sort is    *)
(* stable, so that the position in the input is part of the order.         *)
(***************************************************************************)
EXTENDS Naturals, FiniteSets

\* How many elements of S come before a.
Ahead(S, R, a) == Cardinality({b \in S : <<b, a>> \in R})

InOrder(S, R) ==
    LET ahead == [a \in S |-> Ahead(S, R, a)]
    IN  [k \in 1..Cardinality(S) |-> CHOOSE a \in S : ahead[a] = k - 1]
===============================================================================
