--------------------------- MODULE MCQuorumMerge ---------------------------
(* Instances of QuorumMerge for TLC.                                        *)
EXTENDS QuorumMerge, TLC

Symmetry == Permutations(Replay)

\* Bound for a run with three writers: they all join and send their data
\* before the first update of a delayed position.
OneBurst ==
    (\E r \in Replay : notified[r] > 0 \/ task[r] \in {"closing", "ended"}) =>
        \A r \in Replay : Len(data[r]) = MaxData
=============================================================================
