--------------------------- MODULE ReplayStreams ---------------------------
(***************************************************************************)
(* The buffers replay data goes through, and the readers at their end:     *)
(* the deque of chunks (util/buf_deque.rs) in every writer replay and in   *)
(* the merged replay (replay/streams/writer_replay.rs, merged_replay.rs),  *)
(* its readers' poll_read, and the event that wakes them (util/event.rs).  *)
(*                                                                         *)
(* The writers send the same replay, whose byte at position i is i + 1, so *)
(* that a byte read from a wrong place is seen; which data is merged when  *)
(* they differ is the subject of QuorumMerge.  A loop over chunks is       *)
(* unrolled: while one is running (~Idle) nothing else does.               *)
(***************************************************************************)
EXTENDS Integers, Sequences, SequencesExt

CONSTANTS
    Writer, Reader,
    ChunkSize,      \* CHUNK_SIZE
    CopySize,       \* the buffer of tokio::io::copy
    HeaderSize,     \* bytes in the replay header
    MaxData,        \* bound: bytes of replay data
    UsizeMax        \* usize::MAX, the argument of discard_all

\* The last chunk that a usize reaches is past all data.
ASSUME StreamsAssumption ==
    /\ ChunkSize \in Nat \ {0} /\ CopySize \in Nat \ {0}
    /\ HeaderSize \in Nat \ {0} /\ MaxData \in Nat
    /\ UsizeMax \in Nat /\ UsizeMax \div ChunkSize > MaxData \div ChunkSize

Nobody == "none"

ASSUME NobodyAssumption == Nobody \notin Writer

VARIABLES
    received,       \* per writer: what its data should be, as a length
    writerData,     \* per writer: WriterReplay.data
    merged,         \* MergedReplay.data
    source, until,  \* the add_data that is running, if source is a writer
    hasHeader,      \* MergedReplay.header is set
    delayedLen,     \* MergedReplay.delayed_data_len
    finished,       \* MergedReplay.finished
    wakers,         \* Event: readers whose waker is registered
    reader,         \* per reader: "absent", "ready", "waiting" or "done"
    got             \* per reader: the bytes it was given

mergeVars == <<merged, source, until>>
readVars == <<reader, got>>
vars == <<received, writerData, mergeVars, hasHeader, delayedLen, finished,
          wakers, readVars>>

MinOf(x, y) == IF x <= y THEN x ELSE y
MaxOf(x, y) == IF x >= y THEN x ELSE y

-----------------------------------------------------------------------------
(* BufDeque                                                                *)

NewDeque == [chunks |-> <<>>, discarded |-> 0, end |-> 0]

WindowStart(d) == d.discarded * ChunkSize
WindowSize(d) == d.end - WindowStart(d)

NewChunk == [i \in 1 .. ChunkSize |-> 0]

\* Mutant of Discard: drops the chunk that to is in as well.
DiscardRoundingUp(d, to) ==
    LET n == MaxOf(0, ((to + ChunkSize - 1) \div ChunkSize) - d.discarded)
    IN  [d EXCEPT !.chunks = SubSeq(@, n + 1, Len(@)), !.discarded = @ + n]

\* discard: pop whole chunks before to, counting those that are yet to come.
Discard(d, to) ==
    LET n == MaxOf(0, (to \div ChunkSize) - d.discarded)
    IN  [d EXCEPT !.chunks = SubSeq(@, n + 1, Len(@)), !.discarded = @ + n]

\* discard_all was called: none of the data that is still to come is kept.
AllDiscarded(d) == d.discarded >= UsizeMax \div ChunkSize

\* get_last_chunk
WithSpace(d) ==
    IF WindowSize(d) = Len(d.chunks) * ChunkSize
    THEN [d EXCEPT !.chunks = Append(@, NewChunk)]
    ELSE d

\* Bytes of buf that fall before the window, when it is ahead of the end.
Skipped(d, buf) == MinOf(MaxOf(0, -WindowSize(d)), Len(buf))

\* Mutant of Written: counts all of buf, not what the chunk took of it.
WrittenAll(d, buf) == Len(buf) - Skipped(d, buf)

\* Bytes that fit into the last chunk.
Written(d, buf) ==
    MinOf(Len(buf) - Skipped(d, buf),
          ChunkSize - ((d.end + Skipped(d, buf)) % ChunkSize))

\* chunk.write: the next n bytes of buf go to the last chunk, behind its data.
WriteLast(d, buf, skip, n) ==
    LET offset == d.end % ChunkSize
    IN  [d EXCEPT
           !.end = @ + n,
           !.chunks[Len(d.chunks)] = [i \in 1 .. ChunkSize |->
               IF i \in (offset + 1) .. (offset + n) THEN buf[skip + i - offset] ELSE @[i]]]

\* append_some: skip, then fill the last chunk; the caller comes back for the
\* rest of buf.
AppendSome(d, buf) ==
    LET skip == Skipped(d, buf)
        at == [d EXCEPT !.end = @ + skip]
    IN  IF skip = Len(buf) THEN at
        ELSE WriteLast(WithSpace(at), buf, skip, Written(d, buf))

\* The asserts of get_chunk.
InWindow(d, start) == WindowStart(d) <= start /\ start < d.end

\* get_chunk: from start to the end of its chunk, or of the data.
GetChunk(d, start) ==
    LET from == start - WindowStart(d)
        index == from \div ChunkSize
        chunkEnd == MinOf(ChunkSize, WindowSize(d) - index * ChunkSize)
    IN  SubSeq(d.chunks[index + 1], (from % ChunkSize) + 1, chunkEnd)

FirstBytes(s, n) == SubSeq(s, 1, MinOf(n, Len(s)))

-----------------------------------------------------------------------------
(* Writers                                                                 *)

\* The replay, as sent.
Sent(from, to) == [i \in 1 .. (to - from) |-> from + i]

\* No add_data is running, on a writer's replay or the merged one.
Idle == source = Nobody /\ \A w \in Writer : writerData[w].end = received[w]

\* read_data got some bytes; WriterReplay::add_data begins.
Receive(w, n) ==
    /\ Idle
    /\ received[w] + n <= MaxData
    /\ received' = [received EXCEPT ![w] = @ + n]
    /\ UNCHANGED <<writerData, mergeVars, hasHeader, delayedLen, finished,
                   wakers, readVars>>

\* One append_some of write_all.
WriteSome(w) ==
    /\ writerData[w].end < received[w]
    /\ writerData' = [writerData EXCEPT ![w] =
                        AppendSome(@, Sent(@.end, received[w]))]
    /\ UNCHANGED <<received, mergeVars, hasHeader, delayedLen, finished,
                   wakers, readVars>>

\* set_matching and discard_if_not_needed_for_checking_divergence, also of a
\* writer that is behind C.
DiscardMerged(w, to) ==
    /\ Idle
    /\ to <= merged.end
    /\ writerData' = [writerData EXCEPT ![w] = Discard(@, to)]
    /\ UNCHANGED <<received, mergeVars, hasHeader, delayedLen, finished,
                   wakers, readVars>>

\* set_diverged: the writer goes on, but its data will not be needed.  What made
\* it diverge is left out (see above); it may happen to any writer, at any time.
DiscardAll(w) ==
    /\ Idle
    /\ ~AllDiscarded(writerData[w])
    /\ writerData' = [writerData EXCEPT ![w] = Discard(@, UsizeMax)]
    /\ UNCHANGED <<received, mergeVars, hasHeader, delayedLen, finished,
                   wakers, readVars>>

-----------------------------------------------------------------------------
(* The merged replay                                                       *)

\* Event::notify wakes every registered task.
Wake ==
    /\ reader' = [r \in Reader |-> IF r \in wakers THEN "ready" ELSE reader[r]]
    /\ wakers' = {}

\* Mutant of AddHeader: does not notify.
AddHeaderQuietly ==
    /\ Idle
    /\ ~hasHeader /\ ~finished
    /\ hasHeader' = TRUE
    /\ UNCHANGED <<received, writerData, mergeVars, delayedLen, finished,
                   wakers, readVars>>

\* add_header comes before all data.
AddHeader ==
    /\ Idle
    /\ ~hasHeader /\ ~finished
    /\ hasHeader' = TRUE
    /\ Wake
    /\ UNCHANGED <<received, writerData, mergeVars, delayedLen, finished, got>>

\* append_canon_data: add_data from a writer that matches C.
StartMerge(w, to) ==
    /\ Idle
    /\ ~AllDiscarded(writerData[w])
    /\ hasHeader /\ ~finished
    /\ merged.end < to /\ to <= writerData[w].end
    /\ source' = w
    /\ until' = to
    /\ UNCHANGED <<received, writerData, merged, hasHeader, delayedLen,
                   finished, wakers, readVars>>

\* What iter_chunks gives next, or the rest of it.
NextChunk == FirstBytes(GetChunk(writerData[source], merged.end), until - merged.end)

MergeSome ==
    /\ source # Nobody
    /\ merged' = AppendSome(merged, NextChunk)
    /\ source' = IF merged'.end = until THEN Nobody ELSE source
    /\ UNCHANGED <<received, writerData, until, hasHeader, delayedLen,
                   finished, wakers, readVars>>

\* advance_delayed_data, called with more than before and at most what is
\* merged.
Advance(len) ==
    /\ Idle
    /\ ~finished
    /\ delayedLen < len /\ len <= merged.end
    /\ delayedLen' = len
    /\ Wake
    /\ UNCHANGED <<received, writerData, mergeVars, hasHeader, finished, got>>

\* Mutant of FinishMerged: does not notify.
FinishMergedQuietly ==
    /\ Idle
    /\ ~finished /\ delayedLen = merged.end
    /\ finished' = TRUE
    /\ UNCHANGED <<received, writerData, mergeVars, hasHeader, delayedLen,
                   wakers, readVars>>

\* finish: the strategy has exposed all it merged (its finish() asserts so).
FinishMerged ==
    /\ Idle
    /\ ~finished /\ delayedLen = merged.end
    /\ finished' = TRUE
    /\ Wake
    /\ UNCHANGED <<received, writerData, mergeVars, hasHeader, delayedLen, got>>

-----------------------------------------------------------------------------
(* Readers                                                                 *)

HeaderLen == IF hasHeader THEN HeaderSize ELSE 0
Header == [i \in 1 .. HeaderSize |-> -i]

\* ChunkedBuf::len of the merged replay: what may be read.
ReadableLen == delayedLen + HeaderLen

\* Mutant of ReadableChunk: shows all of the chunk, delayed or not.
ReadableChunkUndelayed(pos) ==
    IF pos < HeaderLen THEN SubSeq(Header, pos + 1, HeaderSize)
    ELSE GetChunk(merged, pos - HeaderLen)

\* ChunkedBuf::get_chunk of the merged replay.
ReadableChunk(pos) ==
    IF pos < HeaderLen THEN SubSeq(Header, pos + 1, HeaderSize)
    ELSE FirstBytes(GetChunk(merged, pos - HeaderLen), ReadableLen - pos)

Attach(r) ==
    /\ Idle
    /\ reader[r] = "absent"
    /\ reader' = [reader EXCEPT ![r] = "ready"]
    /\ UNCHANGED <<received, writerData, mergeVars, hasHeader, delayedLen,
                   finished, wakers, got>>

\* poll_read, by a task that was woken or for another reason.
PollRead(r) ==
    /\ Idle
    /\ reader[r] \in {"ready", "waiting"}
    /\ \/ /\ ReadableLen > Len(got[r])
          /\ got' = [got EXCEPT ![r] =
                        @ \o FirstBytes(ReadableChunk(Len(@)), CopySize)]
          /\ reader' = [reader EXCEPT ![r] = "ready"]
          /\ UNCHANGED wakers
       \/ /\ ReadableLen <= Len(got[r])
          /\ finished
          /\ reader' = [reader EXCEPT ![r] = "done"]
          /\ UNCHANGED <<wakers, got>>
       \/ /\ ReadableLen <= Len(got[r])
          /\ ~finished
          /\ wakers' = wakers \cup {r}
          /\ reader' = [reader EXCEPT ![r] = "waiting"]
          /\ UNCHANGED got
    /\ UNCHANGED <<received, writerData, mergeVars, hasHeader, delayedLen, finished>>

-----------------------------------------------------------------------------
Init ==
    /\ received = [w \in Writer |-> 0]
    /\ writerData = [w \in Writer |-> NewDeque]
    /\ merged = NewDeque
    /\ source = Nobody
    /\ until = 0
    /\ hasHeader = FALSE
    /\ delayedLen = 0
    /\ finished = FALSE
    /\ wakers = {}
    /\ reader = [r \in Reader |-> "absent"]
    /\ got = [r \in Reader |-> <<>>]

Writing == MergeSome \/ \E w \in Writer : WriteSome(w)

Next ==
    \/ Writing \/ AddHeader \/ FinishMerged
    \/ \E w \in Writer, n \in 1 .. MaxData :
            Receive(w, n) \/ DiscardMerged(w, n) \/ StartMerge(w, n)
    \/ \E w \in Writer : DiscardAll(w)
    \/ \E len \in 1 .. MaxData : Advance(len)
    \/ \E r \in Reader : Attach(r) \/ PollRead(r)

Spec == Init /\ [][Next]_vars

\* Loops end, and the executor polls a reader that is ready.  Nothing polls
\* one that waits.
FairSpec ==
    /\ Spec
    /\ WF_vars(Writing)
    /\ \A r \in Reader : WF_vars(reader[r] = "ready" /\ PollRead(r))

-----------------------------------------------------------------------------
(* Properties                                                              *)

DequeType ==
    [chunks : Seq([1 .. ChunkSize -> Nat]), discarded : Nat, end : Nat]

TypeOK ==
    /\ received \in [Writer -> 0 .. MaxData]
    /\ writerData \in [Writer -> DequeType]
    /\ merged \in DequeType
    /\ source \in Writer \cup {Nobody}
    /\ until \in 0 .. MaxData
    /\ hasHeader \in BOOLEAN
    /\ delayedLen \in 0 .. merged.end
    /\ finished \in BOOLEAN
    /\ wakers \in SUBSET Reader
    /\ reader \in [Reader -> {"absent", "ready", "waiting", "done"}]
    /\ \A r \in Reader : Len(got[r]) <= HeaderSize + MaxData

\* "A deque of buffers that acts as a sliding window": between its start and
\* its end are the bytes that were appended there, in as many chunks as they
\* need, however appends and discards followed each other.
IsWindow(d) ==
    /\ d.end > WindowStart(d) =>
            /\ Len(d.chunks) * ChunkSize - WindowSize(d) \in 0 .. (ChunkSize - 1)
            /\ \A i \in WindowStart(d) .. (d.end - 1) : GetChunk(d, i)[1] = i + 1
    /\ d.end <= WindowStart(d) => d.chunks = <<>>

DequesAreWindows ==
    TypeOK /\ IsWindow(merged) /\ \A w \in Writer : IsWindow(writerData[w])

\* Whatever was discarded, what is still to be merged from a writer that is
\* ahead of C and has not diverged from it can be read (the asserts of
\* get_chunk).
UnmergedDataIsHeld ==
    \A w \in Writer :
        writerData[w].end > merged.end /\ ~AllDiscarded(writerData[w])
            => InWindow(writerData[w], merged.end)

\* A reader has the header and the first bytes of the replay, in order, none
\* missing, doubled, or shown before its delay was over.
ReadersSeeThePrefix ==
    \A r \in Reader :
        /\ Len(got[r]) <= ReadableLen
        /\ IsPrefix(got[r], Header \o Sent(0, delayedLen))

\* A reader sleeps only while there is nothing for it, and its waker is then
\* in the event; so no order of polls and notifications leaves it behind.
NoLostWakeup ==
    \A r \in Reader :
        reader[r] = "waiting" =>
            /\ r \in wakers
            /\ ReadableLen <= Len(got[r]) /\ ~finished

\* Every reader gets all of a finished replay and then its end.
EveryReaderIsServed ==
    \A r \in Reader :
        finished /\ reader[r] # "absent"
            ~> reader[r] = "done" /\ Len(got[r]) = ReadableLen
=============================================================================
