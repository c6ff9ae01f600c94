------------------------ MODULE MCQuorumMergeClaims ------------------------
(* The claims that close quorum_merge_strategy.rs, for TLC.                 *)
EXTENDS MergeClaims, TLC

Symmetry == Permutations(Replay)
=============================================================================
