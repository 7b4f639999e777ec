----------------------------- MODULE AnnSource -----------------------------
(***************************************************************************)
(* What an announcement miner promises to its user: it finds announcements *)
(* of heights it was started with, and finds none of them twice.  It does  *)
(* not promise that they are for the job started last, nor that the other  *)
(* parts of their header are of the same job.                              *)
(***************************************************************************)
EXTENDS Bags

VARIABLES
    started,   \* the heights AnnMiner_start was called with
    found      \* the bag of what was handed to the callback; a.hdr is the height

SourceInit == started = {} /\ found = EmptyBag

StartSource(height) == started' = started \cup {height} /\ UNCHANGED found

\* Finds an announcement, a member of the set cand.
Find(cand) ==
    \E a \in cand :
        /\ a.hdr \in started
        /\ ~BagIn(a, found)
        /\ found' = found (+) SetToBag({a})
        /\ UNCHANGED started

\* What may be found in a step is read off its result, so that the
\* specification needs no set of all announcements.
SourceNext ==
    \/ started \subseteq started' /\ UNCHANGED found
    \/ Find(DOMAIN found')

SourceSpec == SourceInit /\ [][SourceNext]_<<started, found>>
=============================================================================
