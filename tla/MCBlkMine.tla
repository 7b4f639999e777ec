----------------------------- MODULE MCBlkMine -----------------------------
(* Small instances of BlkMine for TLC.                                     *)
EXTENDS BlkMine, TLC

hwStore == [block_height |-> 0, work |-> 9]
hwOld == [block_height |-> 1, work |-> 2]
hwNew == [block_height |-> 2, work |-> 1]

hwWeak == [block_height |-> 1, work |-> 8]

MCHW == {hwStore, hwOld, hwNew}

\* Of use for the heights 5 and 6, and no longer for the tree after that.
OneHW == {hwStore, hwWeak}

Symmetry == Permutations(Bufs)
=============================================================================
