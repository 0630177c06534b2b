------------------------------- MODULE MCHandoff -------------------------------
(* TLC instances of Handoff.                                               *)
EXTENDS Handoff, TLC

Symmetry == Permutations(Handoffs) \cup Permutations(Tokens) \cup Permutations(Slots)
===============================================================================
