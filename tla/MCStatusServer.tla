--------------------------- MODULE MCStatusServer ---------------------------
(* An instance of StatusServer, and of the cache below it, for TLC: more   *)
(* keys than the cache keeps.                                              *)
EXTENDS StatusServer, TLC

CONSTANTS c1, c2, k1, k2, k3, h1, h2, h3, v1

TwoCallers == {c1, c2}
ThreeKeys == {k1, k2, k3}
ThreeHandlers == {h1, h2, h3}
OneViewer == {v1}

\* References come from pins; two per entry show counting. So many handlers
\* are enough to make the list of the retired ones overflow.
Bound ==
  /\ \A k \in DOMAIN cache : cache[k].references <= 2
  /\ opened <= 4

Symmetry ==
  Permutations(TwoCallers) \cup Permutations(ThreeKeys) \cup Permutations(ThreeHandlers)
=============================================================================
