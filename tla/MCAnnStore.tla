----------------------------- MODULE MCAnnStore -----------------------------
(* Small instances of AnnStore for TLC.                                    *)
EXTENDS AnnStore, TLC

hwStore == [block_height |-> 0, work |-> 9]
hwOld == [block_height |-> 1, work |-> 1]
hwNew == [block_height |-> 2, work |-> 2]

MCHW == {hwStore, hwOld, hwNew}

Symmetry == Permutations(Threads) \cup Permutations(Bufs)
=============================================================================
