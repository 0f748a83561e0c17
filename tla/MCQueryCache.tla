----------------------------- MODULE MCQueryCache -----------------------------
(***************************************************************************)
(* Small instances of QueryCache for TLC.                                  *)
(***************************************************************************)
EXTENDS QueryCache, TLC

CONSTANTS g1, g2, g3, g4, q1, q2, q3

Symmetry == Permutations(Searches) \cup Permutations(Keys)
==============================================================================
