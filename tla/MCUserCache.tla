----------------------------- MODULE MCUserCache -----------------------------
(* TLC instances of UserCache: see the README for what each cfg asks.      *)
EXTENDS UserCache, TLC

\* Requests are interchangeable, and so are cards.
Symmetry == Permutations(Slots) \cup Permutations(Cards)

\* What the slots serve: the views and answers; the feed and writes; the feed in
\* one slot and the writes in the others.
ViewsOnly == [s \in Slots |-> {"progress", "handoff", "answer"}]
FeedOnly == [s \in Slots |-> {"batch", "answer", "claim"}]
Reader == CHOOSE s \in Slots : TRUE
OneReader == [s \in Slots |-> IF s = Reader THEN {"batch"} ELSE {"answer", "claim"}]
===============================================================================
