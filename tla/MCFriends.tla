------------------------------- MODULE MCFriends -------------------------------
(* TLC instances of Friends.                                               *)
EXTENDS Friends, TLC

Symmetry == Permutations(Users) \cup Permutations(Codes) \cup Permutations(Slots)
===============================================================================
