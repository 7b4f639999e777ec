----------------------------- MODULE MCAnnMine -----------------------------
(* Instances of AnnMine for TLC: a chain of seven blocks and a fork of two, which
   begins above block 2. *)
EXTENDS AnnMine

CONSTANTS u1, u2
MCBlocks == 1 .. 7 \cup {13, 14}
MCHeight == [b \in MCBlocks |-> b % 10]
MCPrev == [b \in MCBlocks |-> CASE b = 1 -> None [] b = 13 -> 2 [] OTHER -> b - 1]

\* The URLs and mine_old_anns change together, with the tip or without.
MCTerms == {[urls |-> <<u1>>, old |-> 0], [urls |-> <<u1, u2>>, old |-> 1]}
With(tips, terms) ==
    {[tip |-> t, urls |-> x.urls, old |-> x.old] : t \in tips, x \in terms}
MCConfs == With({3, 7, 13, 14}, MCTerms)
MCUploadConfs ==
    With({3, 4}, {[urls |-> <<>>, old |-> 0], [urls |-> <<u1, u2>>, old |-> 0]})
MCOrderConfs ==
    With({3, 4}, {[urls |-> <<u1, u2>>, old |-> 0], [urls |-> <<u2, u1>>, old |-> 0]})
=============================================================================
