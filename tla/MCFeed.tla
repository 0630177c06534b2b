-------------------------------- MODULE MCFeed --------------------------------
(* A TLC instance of Feed: three cards of three difficulties.               *)
EXTENDS Feed, TLC

Tiers == <<"easy", "medium", "hard">>
Themes == <<"everyday", "work", "everyday">>
\* Hashes far enough apart for the rungs to order the cards differently, and a tie.
SomeHashes == {<<500, 60, 9>>, <<50, 50, 50>>}
===============================================================================
