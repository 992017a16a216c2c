----------------------------- MODULE MCToolCache -----------------------------
(* A small instance of ToolCache: two keys that share dependencies in      *)
(* different lists and orders.                                             *)
EXTENDS ToolCache, TLC

CONSTANTS k1, k2, v1, v2, d1, d2

MCDepList == {<<d1>>, <<d1, d2>>, <<d2, d1>>}

MCSymmetry == Permutations({k1, k2}) \cup Permutations({v1, v2})
=============================================================================
