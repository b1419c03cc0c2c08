----------------------------- MODULE MCRuleMaps -----------------------------
(***************************************************************************)
(* RuleMaps for TLC: two containers, two keys that may be in either list,  *)
(* and an outer map with room for one container.                           *)
(***************************************************************************)
EXTENDS RuleMaps, TLC

CONSTANTS c1, c2, n1, n2, k1, k2, h1, h2

Symmetry ==
  Permutations({c1, c2}) \cup Permutations({n1, n2}) \cup Permutations({k1, k2}) \cup Permutations({h1, h2})
=============================================================================
