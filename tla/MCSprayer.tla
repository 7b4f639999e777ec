----------------------------- MODULE MCSprayer -----------------------------
(* Instances of Sprayer for TLC. *)
EXTENDS Sprayer, TLC

CONSTANTS f1
MCForce == <<f1>>
MCNoForce == <<>>
Symmetry == Permutations(Peers) \cup Permutations(Anns)
=============================================================================
