----------------------------- MODULE MCAnalytics -----------------------------
(* A TLC instance of Analytics: weeks of two days, a month of four.          *)
EXTENDS Analytics, TLC

Lookback == <<1, 3>>
Symmetry == Permutations(Cards)
===============================================================================
