------------------------------ MODULE MCProgress ------------------------------
(* TLC instances of Progress.                                              *)
EXTENDS Progress, TLC

Symmetry == Permutations(Accounts) \cup Permutations(Cards) \cup Permutations(Claims)
===============================================================================
