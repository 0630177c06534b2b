------------------------------ MODULE MCCatalog ------------------------------
(* A TLC instance of Catalog: two cards at first, of which the file drops   *)
(* one and adds one.                                              *)
EXTENDS Catalog, TLC

CONSTANTS a, b, c, x

TwoCards == [i \in {1, 2} |-> IF i = 1 THEN a ELSE b]
NewFile == [i \in {1, 3} |-> IF i = 1 THEN a ELSE c]
OneBatch == {<<x>>}
SomeScore == [i \in 0..9 |-> (i * 7) % 11]
\* Every request may be for the daily cards, one of them for the feed.
Feeder == CHOOSE r \in Requests : TRUE
OneFeeds == [r \in Requests |-> {"daily"} \cup (IF r = Feeder THEN {"feed"} ELSE {})]
===============================================================================
