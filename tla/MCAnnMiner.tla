----------------------------- MODULE MCAnnMiner -----------------------------
(* Two requests, for two blocks with their signing keys; either may be made *)
(* again, and either may be the first.                                      *)
EXTENDS AnnMiner, TLC

CONSTANTS h1, h2, k1, k2, b1, b2

MCReqs == {[hdr |-> h1, key |-> k1, hash |-> b1], [hdr |-> h2, key |-> k2, hash |-> b2]}

\* The requests change places, with all their parts.
Swap(a, b) == a :> b @@ b :> a
WithParts(p) == IF p[h1] = h1 THEN p ELSE p @@ Swap(k1, k2) @@ Swap(b1, b2)
Symmetry == {WithParts(p) : p \in Permutations({h1, h2})}
=============================================================================
