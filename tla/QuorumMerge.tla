---------------------------- MODULE QuorumMerge ----------------------------
(***************************************************************************)
(* The quorum merge strategy of one replay                                 *)
(* (replay/receive/quorum_merge_strategy.rs), driven by the connection     *)
(* tasks of replay/receive/merger.rs over the writer replays of            *)
(* replay/streams/writer_replay.rs.                                        *)
(*                                                                         *)
(* All tasks of a replay share one single-threaded executor, so a block    *)
(* without an await is atomic.  The only block with an unbounded loop in   *)
(* it, work_state_until_stable, is unrolled: each iteration is a step      *)
(* (EnterStalemate, ExitStalemate) and every other step waits for Idle.    *)
(***************************************************************************)
EXTENDS Integers, Sequences, FiniteSets

CONSTANTS
    Replay,             \* the writers that may ever send this replay
    Byte,               \* the values a byte of replay data takes
    TargetQuorumSize,   \* config: merge_quorum_size
    StreamCmpDistance,  \* config: stream_comparison_distance_b
    ChunkSize,          \* BufDeque discards whole chunks of this many bytes
    MaxData,            \* bound: bytes one writer sends
    UsizeMax            \* usize::MAX, the argument of discard_all

ASSUME ConstantsAssumption ==
    /\ IsFiniteSet(Replay)
    /\ Byte \subseteq Nat
    /\ TargetQuorumSize \in Nat \ {0}
    /\ StreamCmpDistance \in Nat
    /\ ChunkSize \in Nat \ {0}
    /\ MaxData \in Nat
    /\ UsizeMax \in Nat

NoReplay == "none"

ASSUME NoReplayAssumption == NoReplay \notin Replay

VARIABLES
    task,           \* where handle_connection stands for each writer
    data,           \* WriterReplay.data: all the bytes received so far
    delayed,        \* WriterReplay.delayed_data_len
    notified,       \* data length at the last replay_data_updated callback
    windowStart,    \* BufDeque window: bytes before it are discarded
    matching,       \* ReplayState.data_matching_canon
    mode,           \* the variant of QuorumMergeStrategy
    candidates,     \* stalemate: next byte -> replays that agree on it
    quorum,         \* quorum: the replays being merged
    reserve,        \* both: replays that may still join a quorum
    started,        \* SharedState.delayed_data_started
    canonHeader,    \* whose header the canonical replay carries
    canon,          \* MergedReplay.data
    canonDelayed,   \* MergedReplay.delayed_data_len
    canonFinished   \* MergedReplay.finished

writerVars == <<task, data, delayed, notified>>
checkVars  == <<windowStart, matching>>
stateVars  == <<mode, candidates, quorum, reserve, started>>
canonVars  == <<canonHeader, canon, canonDelayed, canonFinished>>
vars == <<writerVars, checkVars, stateVars, canonVars>>

-----------------------------------------------------------------------------
(* Writer replays                                                          *)

MaxOf(x, y) == IF x >= y THEN x ELSE y
MinOf(x, y) == IF x <= y THEN x ELSE y

\* Mutant of Discard: rounds up to a chunk and drops bytes past until.
DiscardRoundingUp(from, until) ==
    MaxOf(from, ((until + ChunkSize - 1) \div ChunkSize) * ChunkSize)

\* BufDeque::discard: the window only moves forward, by whole chunks.
Discard(from, until) == MaxOf(from, (until \div ChunkSize) * ChunkSize)
DiscardAll(from) == Discard(from, UsizeMax)

Finished == {r \in Replay : task[r] = "ended"}
Present  == {r \in Replay : task[r] # "new"}

-----------------------------------------------------------------------------
(* Comparing a replay with the canonical stream                            *)

\* match_start_optimization: saturating_sub.
MatchStartOptimization(canonLen) == MaxOf(0, canonLen - StreamCmpDistance)

MatchStart(r) == MaxOf(matching[r], MatchStartOptimization(Len(canon)))

\* Mutant of DivergesAtStalemate: skips the first byte not yet matched.
DivergesSkippingAByte(r) ==
    \E i \in (MatchStart(r) + 2) .. Len(canon) : data[r][i] # canon[i]

\* Only the bytes from MatchStart on are compared.
DivergesAtStalemate(r) ==
    \E i \in (MatchStart(r) + 1) .. Len(canon) : data[r][i] # canon[i]

-----------------------------------------------------------------------------
(* Stalemate                                                               *)

NoCandidates == [b \in Byte |-> {}]

\* try_move_replay_to_candidates, for every replay of the set moving, out of
\* the reserve from and into the candidates cand.  The outcome for one replay
\* does not depend on the others, so their order does not matter.
TryMoveToCandidates(moving, from, cand, finished) ==
    LET long    == {r \in moving : Len(data[r]) > Len(canon)}
        short   == (moving \ long) \cap finished
        diverge == {r \in long : DivergesAtStalemate(r)}
        match   == long \ diverge
    IN  /\ reserve' = from \ (long \cup short)
        /\ candidates' = [b \in Byte |-> cand[b] \cup
                            {r \in match : data[r][Len(canon) + 1] = b}]
        /\ matching' = [r \in Replay |->
                IF r \in match THEN MaxOf(Len(canon), matching[r])
                ELSE matching[r]]
        /\ windowStart' = [r \in Replay |->
                IF r \in short \cup diverge THEN DiscardAll(windowStart[r])
                ELSE IF r \in match
                THEN Discard(windowStart[r], MaxOf(Len(canon), matching[r]))
                ELSE windowStart[r]]

NonEmptyBytes == {b \in Byte : candidates[b] # {}}

\* Mutant of CanExitStalemate: forgets to check that there is a candidate.
CanExitWithoutCandidate ==
    /\ started
    /\ \/ reserve = {}
       \/ \E b \in Byte : Cardinality(candidates[b]) >= TargetQuorumSize

\* Mutant of CanExitStalemate: takes the first candidate that turns up.
CanExitWithAnyCandidate == started /\ NonEmptyBytes # {}

\* can_exit_stalemate
CanExitStalemate ==
    /\ started
    /\ NonEmptyBytes # {}
    /\ \/ reserve = {}
       \/ \E b \in Byte : Cardinality(candidates[b]) >= TargetQuorumSize

Longer(S, T) == \E s \in S : \A t \in T : Len(data[t]) < Len(data[s])

\* The order exit_stalemate takes the maximum of: group size, longest replay
\* of the group, value of the byte.
Preferred(b, c) ==
    LET S == candidates[b]
        T == candidates[c]
    IN  \/ Cardinality(S) > Cardinality(T)
        \/ /\ Cardinality(S) = Cardinality(T)
           /\ Longer(S, T) \/ (~Longer(T, S) /\ b >= c)

BestByte(b) == b \in NonEmptyBytes /\ \A c \in NonEmptyBytes : Preferred(b, c)

-----------------------------------------------------------------------------
(* Quorum                                                                  *)

\* Mutant of IsNewQuorum: every good replay joins the quorum.
IsWholeGroup(Q, good) == Q = good

\* The longest good replays form the quorum; ties go either way
\* (sort_unstable_by_key over a vector filled in hash order).
IsNewQuorum(Q, good) ==
    /\ Q \subseteq good
    /\ Cardinality(Q) = MinOf(Cardinality(good), TargetQuorumSize)
    /\ \A q \in Q, g \in good \ Q : Len(data[g]) <= Len(data[q])

\* common_prefix_from_to without an end: q and s agree from from up to n, and
\* no further.
IsCommonPrefix(q, s, from, n) ==
    /\ n >= from /\ n <= Len(data[q]) /\ n <= Len(data[s])
    /\ \A i \in (from + 1) .. n : data[q][i] = data[s][i]
    /\ n < Len(data[q]) /\ n < Len(data[s]) => data[q][n + 1] # data[s][n + 1]

ChunkEnd(n) == ((n + ChunkSize - 1) \div ChunkSize) * ChunkSize

\* calculate_quorum_prefix compares the shortest member with one after the
\* other, in hash order, each time up to the end of what is common so far.  As
\* common_prefix_from_to compares whole chunks and only then looks at that
\* end, it may return more than it was asked for: the member compared last
\* counts exactly, the ones before it only up to the end of a chunk - unless
\* nothing was common, when every later comparison stops before it starts.
IsQuorumPrefix(Q, from, p) ==
    \E s \in Q :
        /\ \A q \in Q : Len(data[s]) <= Len(data[q])
        /\ \/ Q = {s} /\ p = Len(data[s])
           \/ \E last \in Q \ {s}, common \in [Q \ {s} -> from .. MaxData] :
                /\ \A q \in Q \ {s} : IsCommonPrefix(s, q, from, common[q])
                /\ LET ends == {common[last]} \cup
                               {ChunkEnd(common[q]) : q \in Q \ {s, last}}
                   IN  IF \E q \in Q \ {s} : common[q] = from THEN p = from
                       ELSE p \in ends /\ \A e \in ends : p <= e

Slowest(Q, positions) == {m \in Q : \A q \in Q : positions[m] <= positions[q]}

\* Mutant of UpdateCanonDelayed: not capped by the data C has.
UpdateCanonDelayedUncapped(Q, positions, canonLen) ==
    \E m \in Slowest(Q, positions) :
        canonDelayed' = MaxOf(canonDelayed, positions[m])

\* Mutant of UpdateCanonDelayed: shows all that is merged.
UpdateCanonDelayedAtOnce(Q, positions, canonLen) == canonDelayed' = canonLen

\* update_delayed_position: the least delayed position of the quorum, capped
\* by the data C has, and never moved back.
UpdateCanonDelayed(Q, positions, canonLen) ==
    \E m \in Slowest(Q, positions) :
        canonDelayed' = MaxOf(canonDelayed, MinOf(positions[m], canonLen))

\* Mutant of HasToEnterStalemate: off by one.
HasPassedTheEnd == canonDelayed > Len(canon)

HasToEnterStalemate == canonDelayed >= Len(canon)

-----------------------------------------------------------------------------
(* The strategy: callbacks and the work loop                               *)

ShouldChangeState ==
    IF mode = "Quorum" THEN HasToEnterStalemate ELSE CanExitStalemate

\* No task is inside a callback: the executor may run any of them.
Idle == ~ShouldChangeState /\ \A r \in Replay : task[r] # "closing"

\* The loop body in a quorum: enter_stalemate and from_quorum.
EnterStalemate ==
    /\ mode = "Quorum"
    /\ HasToEnterStalemate
    /\ mode' = "Stalemate"
    /\ quorum' = {}
    /\ LET all == reserve \cup quorum
       IN  TryMoveToCandidates(all, all, NoCandidates, Finished)
    /\ UNCHANGED <<writerVars, started, canonVars>>

\* The loop body in a stalemate: exit_stalemate, from_stalemate and
\* merge_more_data.
ExitStalemateWith(b, Q, p) ==
    LET good == candidates[b]
        losers == UNION {candidates[c] : c \in Byte \ {b}}
        canonLen == Len(canon) + 1
        rest == reserve \cup (good \ Q)
    IN  /\ IsNewQuorum(Q, good)
        /\ p >= canonLen
        /\ IsQuorumPrefix(Q, canonLen, p)
        /\ \E q \in Q :
                canon' = Append(canon, b) \o SubSeq(data[q], canonLen + 1, p)
        /\ quorum' = Q
        /\ reserve' = rest
        /\ matching' = [r \in Replay |->
                IF r \in Q THEN MaxOf(p, matching[r]) ELSE matching[r]]
        /\ windowStart' = [r \in Replay |->
                IF r \in Q THEN Discard(windowStart[r], MaxOf(p, matching[r]))
                ELSE IF r \in rest
                THEN Discard(windowStart[r], MatchStartOptimization(p))
                ELSE IF r \in losers THEN DiscardAll(windowStart[r])
                ELSE windowStart[r]]
        /\ UpdateCanonDelayed(Q, delayed, p)

ExitStalemate ==
    /\ mode = "Stalemate"
    /\ CanExitStalemate
    /\ \E b \in Byte, Q \in SUBSET Replay, p \in 0 .. MaxData :
            BestByte(b) /\ ExitStalemateWith(b, Q, p)
    /\ mode' = "Quorum"
    /\ candidates' = NoCandidates
    /\ UNCHANGED <<writerVars, started, canonHeader, canonFinished>>

\* replay_data_updated, up to the work loop, for the positions just set.
ReplayDataUpdated(r, positions) ==
    \/ /\ mode = "Stalemate"
       /\ IF r \in reserve
          THEN TryMoveToCandidates({r}, reserve, candidates, Finished)
          ELSE UNCHANGED <<reserve, candidates, matching, windowStart>>
       /\ started' = (started \/ positions[r] > 0)
       /\ UNCHANGED <<mode, quorum, canonVars>>
    \/ /\ mode = "Quorum"
       /\ IF r \in quorum
          THEN UpdateCanonDelayed(quorum, positions, Len(canon))
          ELSE UNCHANGED canonDelayed
       /\ UNCHANGED <<checkVars, stateVars, canonHeader, canon, canonFinished>>

-----------------------------------------------------------------------------
(* The connection tasks                                                    *)

\* handle_connection registers a fresh writer replay.
Connect(r) ==
    /\ Idle
    /\ task[r] = "new"
    /\ ~canonFinished
    /\ task' = [task EXCEPT ![r] = "header"]
    /\ reserve' = reserve \cup {r}
    /\ UNCHANGED <<data, delayed, notified, checkVars,
                   mode, candidates, quorum, started, canonVars>>

\* Mutant of HeaderAdded: the last header wins.
HeaderReplaced(r) ==
    /\ Idle
    /\ task[r] = "header"
    /\ task' = [task EXCEPT ![r] = "data"]
    /\ canonHeader' = r
    /\ UNCHANGED <<data, delayed, notified, checkVars, stateVars,
                   canon, canonDelayed, canonFinished>>

\* read_header succeeded: replay_header_added keeps the first header only.
HeaderAdded(r) ==
    /\ Idle
    /\ task[r] = "header"
    /\ task' = [task EXCEPT ![r] = "data"]
    /\ canonHeader' = IF canonHeader = NoReplay THEN r ELSE canonHeader
    /\ UNCHANGED <<data, delayed, notified, checkVars, stateVars,
                   canon, canonDelayed, canonFinished>>

\* read_data appends what it read; the strategy is not told.
ReadData(r, b) ==
    /\ Idle
    /\ task[r] = "data"
    /\ Len(data[r]) < MaxData
    /\ data' = [data EXCEPT ![r] = Append(@, b)]
    /\ UNCHANGED <<task, delayed, notified, checkVars, stateVars, canonVars>>

\* One round of update_replay_timestamp; it calls the strategy only when the
\* pair (current, delayed) changed.
UpdateTimestamp(r, position) ==
    /\ Idle
    /\ task[r] = "data"
    /\ position \in delayed[r] .. Len(data[r])
    /\ Len(data[r]) # notified[r] \/ position # delayed[r]
    /\ delayed' = [delayed EXCEPT ![r] = position]
    /\ notified' = [notified EXCEPT ![r] = Len(data[r])]
    /\ ReplayDataUpdated(r, delayed')
    /\ UNCHANGED <<task, data>>

\* The connection ended (end of stream, error, shutdown): the final position
\* is set and announced.
CloseConnection(r) ==
    /\ Idle
    /\ task[r] \in {"header", "data"}
    /\ task' = [task EXCEPT ![r] = "closing"]
    /\ delayed' = [delayed EXCEPT ![r] = Len(data[r])]
    /\ notified' = [notified EXCEPT ![r] = Len(data[r])]
    /\ ReplayDataUpdated(r, delayed')
    /\ UNCHANGED data

\* Mutant of FinishReplay: the strategy ignores the end of a short replay.
FinishReplayUnnoticed(r) ==
    /\ ~ShouldChangeState
    /\ task[r] = "closing"
    /\ task' = [task EXCEPT ![r] = "ended"]
    /\ UNCHANGED <<data, delayed, notified, checkVars, stateVars, canonVars>>

\* ... then the writer replay is finished and removed, in the same block.
FinishReplay(r) ==
    /\ ~ShouldChangeState
    /\ task[r] = "closing"
    /\ task' = [task EXCEPT ![r] = "ended"]
    /\ IF mode = "Stalemate" /\ r \in reserve
       THEN TryMoveToCandidates({r}, reserve, candidates, Finished \cup {r})
       ELSE UNCHANGED <<reserve, candidates, matching, windowStart>>
    /\ UNCHANGED <<data, delayed, notified, mode, quorum, started, canonVars>>

AllWritersGone == \A r \in Replay : task[r] \in {"new", "ended"}

\* ReplayMerger::finalize, once no writer is left and none can come.
Finalize ==
    /\ Idle
    /\ AllWritersGone
    /\ ~canonFinished
    /\ canonFinished' = TRUE
    /\ UNCHANGED <<writerVars, checkVars, stateVars,
                   canonHeader, canon, canonDelayed>>

-----------------------------------------------------------------------------
Init ==
    /\ task = [r \in Replay |-> "new"]
    /\ data = [r \in Replay |-> <<>>]
    /\ delayed = [r \in Replay |-> 0]
    /\ notified = [r \in Replay |-> 0]
    /\ windowStart = [r \in Replay |-> 0]
    /\ matching = [r \in Replay |-> 0]
    /\ mode = "Stalemate"
    /\ candidates = NoCandidates
    /\ quorum = {}
    /\ reserve = {}
    /\ started = FALSE
    /\ canonHeader = NoReplay
    /\ canon = <<>>
    /\ canonDelayed = 0
    /\ canonFinished = FALSE

Work == EnterStalemate \/ ExitStalemate

\* Nothing runs after finalize, except readers of the finished stream.
Terminated == canonFinished /\ UNCHANGED vars

Next ==
    \/ Work
    \/ Finalize
    \/ Terminated
    \/ \E r \in Replay :
        \/ Connect(r)
        \/ HeaderAdded(r)
        \/ \E b \in Byte : ReadData(r, b)
        \/ \E position \in 0 .. MaxData : UpdateTimestamp(r, position)
        \/ CloseConnection(r)
        \/ FinishReplay(r)

Spec == Init /\ [][Next]_vars

\* The delayed position catches up with the data: update_replay_timestamp
\* polls forever and every position it pushes leaves its queue delay_s later.
CatchUp(r) ==
    /\ task[r] = "data"
    /\ delayed[r] < Len(data[r])
    /\ \E position \in 0 .. MaxData :
            position > delayed[r] /\ UpdateTimestamp(r, position)

\* The executor runs what is ready: the strategy's loop and the rest of a
\* callback, the sleep loop of each connection, and finalize.  Nothing makes a
\* client connect, send, or hang up.
Fairness ==
    /\ WF_vars(Work)
    /\ WF_vars(Finalize)
    /\ \A r \in Replay : WF_vars(CatchUp(r)) /\ WF_vars(FinishReplay(r))

FairSpec == Spec /\ Fairness

-----------------------------------------------------------------------------
(* Properties                                                              *)

\* Types, and the debug_asserts on positions: none is past the data it is
\* a position in (set_delayed_data_len, advance_delayed_data).
TypeOK ==
    /\ task \in [Replay -> {"new", "header", "data", "closing", "ended"}]
    /\ data \in [Replay -> Seq(Byte)]
    /\ delayed \in [Replay -> Nat]
    /\ notified \in [Replay -> Nat]
    /\ \A r \in Replay : delayed[r] <= Len(data[r]) /\ notified[r] <= Len(data[r])
    /\ windowStart \in [Replay -> Nat]
    /\ matching \in [Replay -> Nat]
    /\ mode \in {"Stalemate", "Quorum"}
    /\ candidates \in [Byte -> SUBSET Replay]
    /\ quorum \in SUBSET Replay
    /\ reserve \in SUBSET Replay
    /\ started \in BOOLEAN
    /\ canonHeader \in Replay \cup {NoReplay}
    /\ canon \in Seq(Byte)
    /\ canonDelayed \in Nat /\ canonDelayed <= Len(canon)
    /\ canonFinished \in BOOLEAN

IsPrefixOf(s, t) == Len(s) <= Len(t) /\ \A i \in 1 .. Len(s) : s[i] = t[i]

\* "r diverges from C", as defined at the head of the source file.
Diverged(r) ==
    \/ ~IsPrefixOf(canon, data[r]) /\ ~IsPrefixOf(data[r], canon)
    \/ r \in Finished /\ Len(data[r]) < Len(canon)

AllCandidates == UNION {candidates[b] : b \in Byte}

\* Between callbacks of a stalemate: a candidate under byte b matches C and
\* continues with b; a reserve replay was no longer than C when last notified
\* and is not finished; whatever is in neither can never extend C.  (The
\* comparison distance must span the data for "matches" to be literal.)
StalemateInvariant ==
    mode = "Stalemate" /\ Idle =>
        /\ \A b \in Byte : \A r \in candidates[b] :
                IsPrefixOf(Append(canon, b), data[r])
        /\ \A r \in reserve : notified[r] <= Len(canon) /\ r \notin Finished
        /\ \A r \in Present \ (AllCandidates \cup reserve) :
                Diverged(r) \/ (r \in Finished /\ Len(data[r]) <= Len(canon))

\* Between callbacks of a quorum: it has one to TargetQuorumSize members, all
\* of which match C, everything outside the quorum and the reserve diverged,
\* and C's delayed position has reached the slowest member's.
QuorumInvariant ==
    mode = "Quorum" /\ Idle =>
        /\ quorum # {} /\ Cardinality(quorum) <= TargetQuorumSize
        /\ \A q \in quorum : IsPrefixOf(canon, data[q])
        /\ \A r \in Present \ (quorum \cup reserve) : Diverged(r)
        /\ \A m \in Slowest(quorum, delayed) : canonDelayed >= delayed[m]

\* The comment on MergeQuorumState (line 353), for any quorum size: between
\* callbacks all replays in Q match C.
QuorumMatchesCanon ==
    mode = "Quorum" /\ Idle => \A q \in quorum : IsPrefixOf(canon, data[q])

\* The asserts of BufDeque::get_chunk: no byte the strategy may still compare
\* or copy has been discarded from a live replay's window.
NoDiscardedRead ==
    /\ \A r \in reserve \cup quorum : windowStart[r] <= MatchStart(r)
    /\ \A r \in AllCandidates : windowStart[r] <= Len(canon)

\* The canonical stream this strategy produces honours the contract of the
\* MergeStrategy trait: header first, append only, nothing invented, exposed
\* data within merged data, everything outstanding merged at finish, and no
\* change afterwards.
Promise == INSTANCE MergeContract WITH
    Writer <- Replay, NoHeader <- NoReplay, sent <- data,
    header <- canonHeader, stream <- canon, exposed <- canonDelayed,
    finished <- canonFinished

ImplementsContract == Promise!Contract

\* The asserts of finish(): with every writer gone the strategy is in a
\* stalemate that has exposed all its data and has nothing left to merge.
FinishAssertions ==
    AllWritersGone /\ Idle =>
        /\ mode = "Stalemate"
        /\ canonDelayed = Len(canon)
        /\ reserve = {}
        /\ AllCandidates = {}

\* What readers are shown is a prefix of some writer's data that this writer's
\* own delay has released.
ExposedDataWasReleased ==
    canonDelayed > 0 =>
        \E r \in Present :
            /\ canonDelayed <= delayed[r]
            /\ IsPrefixOf(SubSeq(canon, 1, canonDelayed), data[r])

\* First claim of the justification: the work loop does not run forever.  Each
\* iteration uses up some of what is left, for any bound l on the data sent: a
\* stalemate is resolved by at least one byte, and C never passes the longest
\* replay.
WorkLeft(l) == 2 * (l - Len(canon)) + (IF mode = "Quorum" THEN 1 ELSE 0)

WorkEnds ==
    [][\A l \in 0 .. MaxData :
        Work /\ (\A r \in Replay : Len(data[r]) <= l) =>
            WorkLeft(l)' \in Nat /\ WorkLeft(l)' < WorkLeft(l)]_vars

\* Second claim of the justification: the final C is one of the sent replays.
FinalIsSentReplay ==
    canonFinished /\ Present # {} => \E r \in Present : canon = data[r]

\* Third claim, byte by byte and without an oracle: two writers have sent C up to
\* and with byte n, or no two that sent C up to n agree on what comes next.  It
\* takes that all join before there is data (OnTime).
SentFirst(r, n) == n <= Len(data[r]) /\ \A i \in 1 .. n : data[r][i] = canon[i]

NobodyWinsAlone ==
    \A n \in 1 .. Len(canon) :
        \/ \E q, r \in Present : q # r /\ SentFirst(q, n) /\ SentFirst(r, n)
        \/ \A q, r \in Present :
                /\ q # r
                /\ SentFirst(q, n - 1) /\ n <= Len(data[q])
                /\ SentFirst(r, n - 1) /\ n <= Len(data[r])
                => data[q][n] # data[r][n]

\* Every writer joins before any data has arrived, as in the fuzz test.
Joins(r) == task[r] = "new" /\ task'[r] # "new"

JoinsOnTime == (\E r \in Replay : Joins(r)) => \A q \in Replay : data[q] = <<>>

OnTime == [][JoinsOnTime]_vars

\* The comment on quorum_delayed_position: delayed data always catches up, so
\* a quorum always ends, even when its writers stall.
QuorumEnds == mode = "Quorum" ~> mode = "Stalemate"

\* If every connection ends, the canonical replay is finished: no order of
\* callbacks leaves the strategy working forever or finalize unreachable.
EventuallyFinished ==
    (\A r \in Replay : <>[](task[r] \notin {"header", "data"})) => <>canonFinished
=============================================================================
