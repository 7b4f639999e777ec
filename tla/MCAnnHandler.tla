---------------------------- MODULE MCAnnHandler ----------------------------
(* The announcements for the instances of AnnHandler: two on the block A of *)
(* height 1, one of them with a bad proof, one on the block A of height 3,  *)
(* which shares a slot with height 1, as does -1, and one each that names   *)
(* the heights 0 and -1 of a slot without a block.                          *)
EXTENDS AnnHandler, TLC

CONSTANTS good, bad, later, zero, minus

MCHeightOf ==
  [a \in Anns |-> CASE a = later -> 3 [] a = zero -> 0 [] a = minus -> -1 [] OTHER -> 1]
MCParentOf == [a \in Anns |-> "A"]
Request(b, h) == [batch |-> b, height |-> h]
MCRequests ==
  {Request(<<good>>, 1), Request(<<good>>, 3), Request(<<good, good>>, 1),
   Request(<<good, bad>>, 1), Request(<<later>>, 3), Request(<<zero>>, 0),
   Request(<<minus>>, -1)}
MCRepeats == {Request(<<good>>, 1), Request(<<good, good, bad>>, 1)}

Symmetry == Permutations(Posts)

=============================================================================
