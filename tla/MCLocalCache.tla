---------------------------- MODULE MCLocalCache ----------------------------
(* A TLC instance of LocalCache: four keys, two of them under one prefix.  *)
EXTENDS LocalCache, TLC

CONSTANTS k1, k2, k3, k4, v1, v2

AllKeys == {k1, k2, k3, k4}
OnePrefix == {{k1, k2}}
Alike == Permutations({k1, k2}) \cup Permutations({k3, k4}) \cup Permutations({v1, v2})
===============================================================================
