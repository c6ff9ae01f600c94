---------------------------- MODULE MergeClaims ----------------------------
(***************************************************************************)
(* The third claim of the justification that closes                        *)
(* quorum_merge_strategy.rs, with the oracle that its fuzz test,           *)
(* simple_fuzzing_round, compares the final C with.  A history variable    *)
(* remembers whether a writer joined after data had arrived: the test adds *)
(* every stream before it sends any.                                       *)
(***************************************************************************)
EXTENDS QuorumMerge

VARIABLE late

HInit == Init /\ late = FALSE
HNext ==
    /\ Next
    /\ late' = (late \/ ~JoinsOnTime)

HSpec == HInit /\ [][HNext]_<<vars, late>>

-----------------------------------------------------------------------------
(* The oracle                                                              *)

\* What becomes of a bundle of replays that sent the same first i bytes: those
\* that end there drop out, unless all do, and the rest split on the next byte.
GoOn(S, i) == {r \in S : i < Len(data[r])}
Part(S, i, b) == {r \in GoOn(S, i) : data[r][i + 1] = b}

\* A part of one is removed when another has two or more.  The bytes of the
\* test are 0 and 1, so that there is one other part.
IsKept(S, i, b) ==
    /\ Part(S, i, b) # {}
    /\ Cardinality(Part(S, i, b)) = 1 =>
           \A c \in Byte \ {b} : Cardinality(Part(S, i, c)) < 2

\* One round of the test's loop, next being all the rounds after it.
Round(next, i) ==
    [S \in SUBSET Replay |->
        IF i = MaxData \/ GoOn(S, i) = {} THEN S
        ELSE UNION {next[Part(S, i, b)] : b \in {c \in Byte : IsKept(S, i, c)}}]

Rounds[i \in 0 .. MaxData] == Round(Rounds[i + 1], i)

Survivors == Rounds[0][Present]

-----------------------------------------------------------------------------
\* Third claim: the final C is never the data of a replay that split off
\* alone while two others went on together, when all join before any data; at
\* the end as the fuzz test has it, and for every byte as soon as it is merged.
LoneReplayNeverWins ==
    ~late =>
        /\ NobodyWinsAlone
        /\ canonFinished /\ Present # {} => \E r \in Survivors : canon = data[r]

\* The claim as the comment words it (lines 604-613), whenever writers join.
LoneReplayNeverWinsAtAll ==
    canonFinished /\ Present # {} => \E r \in Survivors : canon = data[r]
=============================================================================
