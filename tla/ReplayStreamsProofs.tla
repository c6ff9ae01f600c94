------------------------- MODULE ReplayStreamsProofs -------------------------
(***************************************************************************)
(* Proofs about ReplayStreams, for any chunk, buffer, header and replay    *)
(* size and any number of writers and readers: every deque is a window on  *)
(* what was appended to it, no asserted index is out of it, and a reader   *)
(* gets the header and the replay byte for byte and is never left asleep.  *)
(***************************************************************************)
EXTENDS ReplayStreams, SequenceTheorems, TLAPS

-----------------------------------------------------------------------------
(* Arithmetic                                                              *)

\* A position is in one chunk, at one offset.
LEMMA PositionInChunks ==
    ASSUME NEW i \in Nat
    PROVE  /\ i \div ChunkSize \in Nat /\ i % ChunkSize \in 0 .. (ChunkSize - 1)
           /\ i = (i \div ChunkSize) * ChunkSize + (i % ChunkSize)
           /\ (i \div ChunkSize) * ChunkSize <= i
  <1>1. ChunkSize \in Nat /\ ChunkSize > 0
    BY StreamsAssumption
  <1>2. QED
    BY <1>1

\* The offset of a position in the chunk it is in.
LEMMA OffsetInChunk ==
    ASSUME NEW q \in Nat, NEW i \in Nat, q * ChunkSize <= i, i < (q + 1) * ChunkSize
    PROVE  i % ChunkSize = i - q * ChunkSize /\ i \div ChunkSize = q
  <1>1. ChunkSize \in Nat /\ ChunkSize > 0
    BY StreamsAssumption
  <1>2. QED
    BY <1>1

\* Chunks before a chunk take no more.
LEMMA ChunksBefore ==
    ASSUME NEW a \in Nat, NEW b \in Nat
    PROVE  /\ a * ChunkSize \in Nat
           /\ (a + b) * ChunkSize = a * ChunkSize + b * ChunkSize
           /\ (a + 1) * ChunkSize = a * ChunkSize + ChunkSize
           /\ a <= b => a * ChunkSize <= b * ChunkSize
           /\ a * ChunkSize < b * ChunkSize => a < b
           /\ a * ChunkSize < b * ChunkSize + ChunkSize => a <= b
  <1>1. ChunkSize \in Nat /\ ChunkSize > 0
    BY StreamsAssumption
  <1>2. QED
    BY <1>1

\* A chunk of the deque that is not its last one.
LEMMA EarlierChunk ==
    ASSUME NEW first \in Nat, NEW m \in Nat, NEW k \in 1 .. m, k # m
    PROVE  first + (k - 1) + 1 <= first + (m - 1)
  OBVIOUS

-----------------------------------------------------------------------------
(* Runs of bytes                                                           *)

\* The bytes of the replay from a position on.
IsRun(s, from) == s \in Seq(Nat) /\ \A j \in 1 .. Len(s) : s[j] = from + j

\* What a writer sends is a run.
LEMMA SentIsRun ==
    ASSUME NEW from \in Nat, NEW to \in Nat, from <= to
    PROVE  IsRun(Sent(from, to), from) /\ Len(Sent(from, to)) = to - from
  <1> DEFINE n == to - from
             s == [j \in 1 .. n |-> from + j]
  <1>1. n \in Nat /\ s \in [1 .. n -> Nat]
    OBVIOUS
  <1>2. s \in Seq(Nat)
    BY <1>1, SeqDef
  <1>3. Len(s) = n
    BY <1>1, <1>2, LenProperties
  <1>4. Sent(from, to) = s
    BY DEF Sent
  <1>5. QED
    BY <1>1, <1>2, <1>3, <1>4 DEF IsRun

\* The first n elements of a sequence, or all.
LEMMA FirstBytesAre ==
    ASSUME NEW S, NEW s \in Seq(S), NEW n \in Nat
    PROVE  /\ FirstBytes(s, n) \in Seq(S)
           /\ Len(FirstBytes(s, n)) = MinOf(n, Len(s))
           /\ Len(FirstBytes(s, n)) \in Nat /\ Len(FirstBytes(s, n)) <= n
           /\ Len(FirstBytes(s, n)) <= Len(s) /\ Len(s) \in Nat
           /\ \A j \in 1 .. Len(FirstBytes(s, n)) : FirstBytes(s, n)[j] = s[j]
  <1>1. Len(s) \in Nat
    BY LenProperties
  <1>2. PICK m \in Nat : m = MinOf(n, Len(s)) /\ m <= n /\ m <= Len(s)
    BY <1>1 DEF MinOf
  <1>3. \A j \in 1 .. m : s[j] \in S
    <2>1. \A j \in 1 .. m : j \in 1 .. Len(s)
      BY <1>1, <1>2
    <2>2. QED
      BY <2>1, ElementOfSeq
  <1>4. /\ SubSeq(s, 1, m) \in Seq(S)
        /\ Len(SubSeq(s, 1, m)) = m
        /\ \A j \in 1 .. m : SubSeq(s, 1, m)[j] = s[j]
    <2>1. 1 \in Int /\ m \in Int
      OBVIOUS
    <2>2. /\ SubSeq(s, 1, m) \in Seq(S)
          /\ Len(SubSeq(s, 1, m)) = IF 1 <= m THEN m - 1 + 1 ELSE 0
          /\ \A j \in 1 .. m - 1 + 1 : SubSeq(s, 1, m)[j] = s[1 + j - 1]
      BY <1>3, <2>1, SubSeqProperties
    <2>3. QED
      BY <2>2
  <1>5. FirstBytes(s, n) = SubSeq(s, 1, m)
    BY <1>2 DEF FirstBytes
  <1>6. QED
    BY <1>1, <1>2, <1>4, <1>5

\* A prefix of a run is one.
LEMMA FirstBytesOfRun ==
    ASSUME NEW from \in Nat, NEW n \in Nat, NEW s, IsRun(s, from)
    PROVE  /\ IsRun(FirstBytes(s, n), from)
           /\ Len(FirstBytes(s, n)) = MinOf(n, Len(s))
  <1>1. s \in Seq(Nat) /\ \A j \in 1 .. Len(s) : s[j] = from + j
    BY DEF IsRun
  <1>2. PICK p \in Seq(Nat) : p = FirstBytes(s, n)
    BY <1>1, FirstBytesAre
  <1>3. /\ Len(p) = MinOf(n, Len(s)) /\ Len(p) \in Nat /\ Len(s) \in Nat
        /\ Len(p) <= Len(s) /\ \A j \in 1 .. Len(p) : p[j] = s[j]
    BY <1>1, <1>2, FirstBytesAre
  <1>4. ASSUME NEW j \in 1 .. Len(p) PROVE p[j] = from + j
    <2>1. j \in 1 .. Len(s)
      BY <1>3
    <2>2. p[j] = s[j] /\ s[j] = from + j
      BY <1>1, <1>3, <2>1
    <2>3. QED
      BY <2>2
  <1>5. IsRun(p, from)
    BY <1>4 DEF IsRun
  <1>6. QED
    BY <1>2, <1>3, <1>5

-----------------------------------------------------------------------------
(* BufDeque                                                                *)

Chunk == [1 .. ChunkSize -> Nat]

\* Every byte of the deque is the one appended at its position.
HoldsRun(d) ==
    \A k \in 1 .. Len(d.chunks), o \in 1 .. ChunkSize :
        (d.discarded + (k - 1)) * ChunkSize + o <= d.end =>
            d.chunks[k][o] = (d.discarded + (k - 1)) * ChunkSize + o

\* There are as many chunks as the data of the window needs.
Fits(d) ==
    /\ WindowStart(d) <= d.end
    /\ WindowStart(d) + Len(d.chunks) * ChunkSize - d.end \in 0 .. (ChunkSize - 1)

Deque(d) ==
    /\ d \in DequeType
    /\ HoldsRun(d)
    /\ WindowStart(d) <= d.end => Fits(d)
    /\ d.end <= WindowStart(d) => d.chunks = <<>>

\* The fields of a deque.
LEMMA DequeFields ==
    ASSUME NEW d \in DequeType
    PROVE  /\ d.chunks \in Seq(Chunk) /\ d.discarded \in Nat /\ d.end \in Nat
           /\ Len(d.chunks) \in Nat /\ Len(d.chunks) * ChunkSize \in Nat
           /\ WindowStart(d) \in Nat /\ WindowStart(d) = d.discarded * ChunkSize
           /\ ChunkSize \in Nat /\ ChunkSize > 0
           /\ (d.chunks = <<>>) <=> (Len(d.chunks) = 0)
  <1>1. d.chunks \in Seq(Chunk) /\ d.discarded \in Nat /\ d.end \in Nat
    BY DEF DequeType, Chunk
  <1>2. Len(d.chunks) \in Nat /\ (d.chunks = <<>> <=> Len(d.chunks) = 0)
    BY <1>1, LenProperties, EmptySeq
  <1>3. ChunkSize \in Nat /\ ChunkSize > 0
    BY StreamsAssumption
  <1>4. QED
    BY <1>1, <1>2, <1>3, ChunksBefore DEF WindowStart

\* A record of such fields is a deque.
LEMMA MakeDeque ==
    ASSUME NEW c \in Seq(Chunk), NEW n \in Nat, NEW e \in Nat
    PROVE  [chunks |-> c, discarded |-> n, end |-> e] \in DequeType
  BY DEF DequeType, Chunk

\* get_chunk gives the run from start on: one byte at least, up to the end of
\* a chunk or of the data.
LEMMA GetChunkIsRun ==
    ASSUME NEW d, Deque(d), NEW start \in Nat, InWindow(d, start)
    PROVE  /\ IsRun(GetChunk(d, start), start)
           /\ Len(GetChunk(d, start)) \in Nat \ {0}
           /\ start + Len(GetChunk(d, start)) <= d.end
  <1>1. d \in DequeType /\ d.end \in Nat /\ d.discarded \in Nat
        /\ Len(d.chunks) \in Nat /\ d.chunks \in Seq(Chunk)
        /\ ChunkSize \in Nat /\ ChunkSize > 0
    BY DequeFields DEF Deque
  <1>2. PICK ws \in Nat, all \in Nat :
            /\ ws = WindowStart(d) /\ ws = d.discarded * ChunkSize
            /\ all = Len(d.chunks) * ChunkSize
    BY <1>1, DequeFields
  <1>3. ws <= start /\ start < d.end /\ WindowSize(d) = d.end - ws /\ d.end <= ws + all
    <2>1. ws <= start /\ start < d.end /\ WindowSize(d) = d.end - ws
      BY <1>1, <1>2 DEF InWindow, WindowSize
    <2>2. Fits(d)
      BY <1>1, <1>2, <2>1 DEF Deque
    <2>3. ws + all - d.end \in 0 .. (ChunkSize - 1)
      BY <1>2, <2>2 DEF Fits
    <2>4. QED
      BY <1>1, <2>1, <2>3
  <1>4. PICK from \in Nat : from = start - ws /\ from = start - WindowStart(d)
    BY <1>2, <1>3
  <1>5. PICK index \in Nat, before \in Nat, first \in 0 .. (ChunkSize - 1) :
            /\ index = from \div ChunkSize /\ first = from % ChunkSize
            /\ before = index * ChunkSize
            /\ start = ws + before + first
    <2>1. /\ from \div ChunkSize \in Nat /\ from % ChunkSize \in 0 .. (ChunkSize - 1)
          /\ from = (from \div ChunkSize) * ChunkSize + (from % ChunkSize)
          /\ (from \div ChunkSize) * ChunkSize \in Nat
      BY PositionInChunks, ChunksBefore
    <2>2. PICK i \in Nat, b \in Nat, f \in 0 .. (ChunkSize - 1) :
            i = from \div ChunkSize /\ f = from % ChunkSize /\ b = i * ChunkSize
            /\ from = b + f
      BY <2>1
    <2>3. start = ws + b + f
      BY <1>1, <1>4, <2>2, SMTT(30)
    <2>4. QED
      BY <2>2, <2>3
  <1>6. PICK last \in Nat :
            /\ last = MinOf(ChunkSize, WindowSize(d) - index * ChunkSize)
            /\ first < last /\ last <= ChunkSize /\ ws + before + last <= d.end
    <2>1. PICK left \in Nat : left = d.end - ws - before /\ first < left
      BY <1>1, <1>3, <1>5
    <2>2. WindowSize(d) - index * ChunkSize = left
      BY <1>3, <1>5, <2>1
    <2>3. /\ MinOf(ChunkSize, left) \in Nat
          /\ first < MinOf(ChunkSize, left) /\ MinOf(ChunkSize, left) <= ChunkSize
          /\ ws + before + MinOf(ChunkSize, left) <= d.end
      BY <1>1, <1>5, <2>1, SMTT(30) DEF MinOf
    <2>4. QED
      BY <2>2, <2>3
  <1>7. index + 1 \in 1 .. Len(d.chunks)
    <2>1. before < all
      BY <1>1, <1>3, <1>5
    <2>2. index < Len(d.chunks)
      BY <1>1, <1>2, <1>5, <2>1, ChunksBefore
    <2>3. QED
      BY <1>1, <2>2
  <1>8. PICK chunk \in Chunk : chunk = d.chunks[index + 1]
    BY <1>1, <1>7, ElementOfSeq
  <1>9. \A o \in first + 1 .. last : chunk[o] \in Nat /\ chunk[o] = ws + before + o
    <2> SUFFICES ASSUME NEW o \in first + 1 .. last
                 PROVE  chunk[o] \in Nat /\ chunk[o] = ws + before + o
      OBVIOUS
    <2>1. o \in 1 .. ChunkSize /\ ws + before + o <= d.end
      BY <1>1, <1>5, <1>6
    <2>2. (d.discarded + ((index + 1) - 1)) * ChunkSize = ws + before
      <3>1. (index + 1) - 1 = index
        OBVIOUS
      <3>2. (d.discarded + index) * ChunkSize = d.discarded * ChunkSize + index * ChunkSize
        BY <1>1, ChunksBefore
      <3>3. QED
        BY <1>2, <1>5, <3>1, <3>2
    <2>3. d.chunks[index + 1][o] = ws + before + o
      BY <1>7, <2>1, <2>2 DEF Deque, HoldsRun
    <2>4. QED
      BY <1>8, <2>1, <2>3 DEF Chunk
  <1>10. GetChunk(d, start) = SubSeq(chunk, first + 1, last)
    BY <1>4, <1>5, <1>6, <1>8 DEF GetChunk
  <1>11. PICK size \in Nat \ {0} : size = last - first
    BY <1>5, <1>6
  <1>12. /\ SubSeq(chunk, first + 1, last) \in Seq(Nat)
         /\ Len(SubSeq(chunk, first + 1, last)) = size
         /\ \A j \in 1 .. size : SubSeq(chunk, first + 1, last)[j] = chunk[first + j]
    <2>1. first + 1 \in Int /\ last \in Int /\ \A o \in first + 1 .. last : chunk[o] \in Nat
      BY <1>5, <1>6, <1>9
    <2>2. /\ SubSeq(chunk, first + 1, last) \in Seq(Nat)
          /\ Len(SubSeq(chunk, first + 1, last))
                = IF first + 1 <= last THEN last - (first + 1) + 1 ELSE 0
          /\ \A j \in 1 .. last - (first + 1) + 1 :
                SubSeq(chunk, first + 1, last)[j] = chunk[(first + 1) + j - 1]
      BY <2>1, SubSeqProperties
    <2>3. QED
      BY <1>5, <1>6, <1>11, <2>2
  <1>13. \A j \in 1 .. size : chunk[first + j] = start + j
    <2> SUFFICES ASSUME NEW j \in 1 .. size PROVE chunk[first + j] = start + j
      OBVIOUS
    <2>1. first + j \in first + 1 .. last
      BY <1>5, <1>6, <1>11
    <2>2. chunk[first + j] = ws + before + (first + j)
      BY <1>9, <2>1
    <2>3. QED
      BY <1>5, <2>2
  <1>14. start + size <= d.end
    BY <1>1, <1>5, <1>6, <1>11
  <1>15. QED
    BY <1>10, <1>11, <1>12, <1>13, <1>14 DEF IsRun

\* A deque shows what was appended to it.
LEMMA DequeIsWindow ==
    ASSUME NEW d, Deque(d)
    PROVE  IsWindow(d)
  <1>1. d \in DequeType /\ WindowStart(d) \in Nat /\ d.end \in Nat
        /\ Len(d.chunks) * ChunkSize \in Nat
    BY DequeFields DEF Deque
  <1>2. d.end <= WindowStart(d) => d.chunks = <<>>
    BY DEF Deque
  <1>3. ASSUME d.end > WindowStart(d)
        PROVE  Len(d.chunks) * ChunkSize - WindowSize(d) \in 0 .. (ChunkSize - 1)
    <2>1. PICK ws \in Nat, all \in Nat, size \in Nat :
            ws = WindowStart(d) /\ all = Len(d.chunks) * ChunkSize /\ size = WindowSize(d)
            /\ size = d.end - ws
      BY <1>1, <1>3 DEF WindowSize
    <2>2. ws + all - d.end \in 0 .. (ChunkSize - 1)
      BY <1>1, <1>3, <2>1 DEF Deque, Fits
    <2>3. all - size = ws + all - d.end
      BY <1>1, <2>1
    <2>4. QED
      BY <2>1, <2>2, <2>3
  <1>4. ASSUME NEW i \in WindowStart(d) .. (d.end - 1)
        PROVE  GetChunk(d, i)[1] = i + 1
    <2>1. i \in Nat /\ InWindow(d, i)
      BY <1>1 DEF InWindow
    <2>2. IsRun(GetChunk(d, i), i) /\ Len(GetChunk(d, i)) \in Nat \ {0}
      BY <2>1, GetChunkIsRun
    <2>3. 1 \in 1 .. Len(GetChunk(d, i))
      BY <2>2
    <2>4. QED
      BY <2>2, <2>3 DEF IsRun
  <1>5. QED
    BY <1>2, <1>3, <1>4 DEF IsWindow

\* discard pops whole chunks from the front of the run, and moves the window no
\* further than it was told to.
LEMMA DiscardKeepsDeque ==
    ASSUME NEW d, Deque(d), NEW to \in Nat
    PROVE  /\ Deque(Discard(d, to)) /\ Discard(d, to).end = d.end
           /\ \/ WindowStart(Discard(d, to)) <= WindowStart(d)
              \/ WindowStart(Discard(d, to)) <= to
           /\ d.discarded <= Discard(d, to).discarded
           /\ to \div ChunkSize <= Discard(d, to).discarded
           /\ Discard(d, to).discarded \in Nat /\ to \div ChunkSize \in Nat
  <1>1. d \in DequeType /\ d.end \in Nat /\ d.discarded \in Nat /\ Len(d.chunks) \in Nat
        /\ d.chunks \in Seq(Chunk) /\ ChunkSize \in Nat /\ ChunkSize > 0
        /\ (d.chunks = <<>> <=> Len(d.chunks) = 0)
    BY DequeFields DEF Deque
  <1>2. PICK l \in Nat, ws \in Nat, all \in Nat :
            /\ l = Len(d.chunks)
            /\ ws = WindowStart(d) /\ ws = d.discarded * ChunkSize
            /\ all = l * ChunkSize /\ all = Len(d.chunks) * ChunkSize
    BY <1>1, DequeFields
  <1>3. /\ ws <= d.end => ws + all - d.end \in 0 .. (ChunkSize - 1)
        /\ d.end <= ws => l = 0
    BY <1>1, <1>2 DEF Deque, Fits
  <1>4. PICK n \in Nat :
            /\ n = MaxOf(0, (to \div ChunkSize) - d.discarded)
            /\ n = 0 \/ d.discarded + n = to \div ChunkSize
            /\ to \div ChunkSize \in Nat
            /\ d.discarded <= d.discarded + n /\ to \div ChunkSize <= d.discarded + n
    <2>1. to \div ChunkSize \in Nat
      BY PositionInChunks
    <2>2. QED
      BY <1>1, <2>1 DEF MaxOf
  <1>5. PICK r : r = Discard(d, to)
    OBVIOUS
  <1>6. /\ r = [chunks |-> SubSeq(d.chunks, n + 1, Len(d.chunks)),
                discarded |-> d.discarded + n, end |-> d.end]
    BY <1>1, <1>4, <1>5 DEF Discard, DequeType
  <1>7. /\ SubSeq(d.chunks, n + 1, l) \in Seq(Chunk)
        /\ Len(SubSeq(d.chunks, n + 1, l)) = IF n <= l THEN l - n ELSE 0
        /\ \A k \in 1 .. l - n : SubSeq(d.chunks, n + 1, l)[k] = d.chunks[n + k]
    <2>1. \A k \in n + 1 .. l : d.chunks[k] \in Chunk
      BY <1>1, <1>2, ElementOfSeq
    <2>2. n + 1 \in Int /\ l \in Int
      OBVIOUS
    <2>3. /\ SubSeq(d.chunks, n + 1, l) \in Seq(Chunk)
          /\ Len(SubSeq(d.chunks, n + 1, l)) = IF n + 1 <= l THEN l - (n + 1) + 1 ELSE 0
          /\ \A k \in 1 .. l - (n + 1) + 1 :
                SubSeq(d.chunks, n + 1, l)[k] = d.chunks[(n + 1) + k - 1]
      BY <2>1, <2>2, SubSeqProperties
    <2>4. QED
      BY <2>3
  <1>8. PICK c \in Seq(Chunk) : c = SubSeq(d.chunks, n + 1, l)
    BY <1>7
  <1>9. PICK m \in Nat : m = IF n <= l THEN l - n ELSE 0
    <2>1. (IF n <= l THEN l - n ELSE 0) \in Nat
      OBVIOUS
    <2>2. QED
      BY <2>1
  <1>10. /\ r = [chunks |-> c, discarded |-> d.discarded + n, end |-> d.end]
         /\ Len(c) = m
         /\ \A k \in 1 .. m : c[k] = d.chunks[n + k]
         /\ (c = <<>>) <=> (m = 0)
    <2>1. r = [chunks |-> c, discarded |-> d.discarded + n, end |-> d.end]
      BY <1>2, <1>6, <1>8
    <2>2. Len(c) = m
      BY <1>7, <1>8, <1>9
    <2>3. c = <<>> <=> m = 0
      BY <2>2, EmptySeq
    <2>4. \A k \in 1 .. m : k \in 1 .. l - n
      BY <1>9
    <2>5. \A k \in 1 .. m : c[k] = d.chunks[n + k]
      BY <1>7, <1>8, <2>4
    <2>6. QED
      BY <2>1, <2>2, <2>3, <2>5
  <1>11. r \in DequeType
    <2>1. d.discarded + n \in Nat
      BY <1>1
    <2>2. QED
      BY <1>1, <1>10, <2>1, MakeDeque
  <1>12. PICK dropped \in Nat, held \in Nat :
            /\ dropped = n * ChunkSize /\ WindowStart(r) = ws + dropped
            /\ held = m * ChunkSize
            /\ n <= l => held = all - dropped
            /\ n >= l => all <= dropped
            /\ n > l => all < dropped
            /\ n < l => dropped + ChunkSize <= all
    <2>1. WindowStart(r) = d.discarded * ChunkSize + n * ChunkSize
      BY <1>1, <1>10, ChunksBefore DEF WindowStart
    <2>2. n * ChunkSize \in Nat /\ m * ChunkSize \in Nat
      BY ChunksBefore
    <2>3. n <= l => m * ChunkSize = l * ChunkSize - n * ChunkSize
      <3>1. (n + m) * ChunkSize = n * ChunkSize + m * ChunkSize
        BY ChunksBefore
      <3>2. n <= l => n + m = l
        BY <1>9
      <3>3. QED
        BY <1>2, <2>2, <3>1, <3>2
    <2>4. n >= l => l * ChunkSize <= n * ChunkSize
      BY ChunksBefore
    <2>5. /\ n > l => l * ChunkSize + ChunkSize <= n * ChunkSize
          /\ n < l => n * ChunkSize + ChunkSize <= l * ChunkSize
      <3>1. \A a, b \in Nat : a < b => a * ChunkSize + ChunkSize <= b * ChunkSize
        <4> SUFFICES ASSUME NEW a \in Nat, NEW b \in Nat, a < b
                     PROVE  a * ChunkSize + ChunkSize <= b * ChunkSize
          OBVIOUS
        <4>1. a + 1 \in Nat /\ a + 1 <= b
          OBVIOUS
        <4>2. (a + 1) * ChunkSize <= b * ChunkSize
          BY <4>1, ChunksBefore
        <4>3. (a + 1) * ChunkSize = a * ChunkSize + ChunkSize
          BY ChunksBefore
        <4>4. QED
          BY <4>2, <4>3
      <3>2. QED
        BY <3>1
    <2>6. PICK a \in Nat, b \in Nat : a = n * ChunkSize /\ b = m * ChunkSize
      BY <2>2
    <2>7. QED
      BY <1>1, <1>2, <2>1, <2>3, <2>4, <2>5, <2>6, SMTT(30)
  <1>13. WindowStart(r) <= r.end => Fits(r)
    <2> SUFFICES ASSUME ws + dropped <= d.end PROVE Fits(r)
      BY <1>10, <1>12
    <2>1. ws <= d.end /\ d.end <= ws + all
      BY <1>1, <1>3
    <2>2. n <= l /\ held = all - dropped
      BY <1>1, <1>12, <2>1, SMTT(30)
    <2>3. (ws + dropped) + held - d.end \in 0 .. (ChunkSize - 1)
      <3>1. PICK end \in Nat : end = d.end
        BY <1>1
      <3>2. ws + all - end \in 0 .. (ChunkSize - 1)
        BY <1>3, <2>1, <3>1
      <3>3. (ws + dropped) + held - end = ws + all - end
        BY <2>2
      <3>4. QED
        BY <3>1, <3>2, <3>3
    <2>4. QED
      BY <1>10, <1>12, <2>3 DEF Fits
  <1>14. r.end <= WindowStart(r) => r.chunks = <<>>
    <2> SUFFICES ASSUME d.end <= ws + dropped PROVE m = 0
      BY <1>10, <1>12
    <2>1. ~(n < l)
      <3>1. PICK end \in Nat : end = d.end /\ end <= ws + dropped
        BY <1>1
      <3>2. /\ ws <= end => ws + all - end \in 0 .. (ChunkSize - 1)
            /\ end <= ws => l = 0
        BY <1>3, <3>1
      <3>3. n < l => dropped + ChunkSize <= all
        BY <1>12
      <3>4. ws <= end => ws + all <= end + (ChunkSize - 1)
        BY <1>1, <3>2
      <3>5. CASE ws <= end
        <4>1. all <= dropped + (ChunkSize - 1)
          BY <1>1, <3>1, <3>4, <3>5
        <4>2. QED
          BY <1>1, <3>3, <4>1
      <3>6. CASE ~(ws <= end)
        BY <3>2, <3>6
      <3>7. QED
        BY <3>5, <3>6
    <2>2. QED
      BY <1>9, <2>1
  <1>15. HoldsRun(r)
    <2>1. \A k \in 1 .. m : /\ n + k \in 1 .. l
                            /\ (d.discarded + n) + (k - 1) = d.discarded + ((n + k) - 1)
      BY <1>1, <1>9
    <2> SUFFICES ASSUME NEW k \in 1 .. m, NEW o \in 1 .. ChunkSize,
                        ((d.discarded + n) + (k - 1)) * ChunkSize + o <= d.end
                 PROVE  c[k][o] = ((d.discarded + n) + (k - 1)) * ChunkSize + o
      BY <1>10 DEF HoldsRun
    <2>2. d.chunks[n + k][o] = (d.discarded + ((n + k) - 1)) * ChunkSize + o
      BY <1>2, <2>1 DEF Deque, HoldsRun
    <2>3. c[k] = d.chunks[n + k]
      BY <1>10
    <2>4. QED
      BY <2>1, <2>2, <2>3
  <1>16. \/ WindowStart(r) <= ws
         \/ WindowStart(r) <= to
    <2>1. CASE n = 0
      <3>1. d.discarded + n = d.discarded
        BY <1>1, <2>1
      <3>2. QED
        BY <1>2, <1>10, <3>1 DEF WindowStart
    <2>2. CASE d.discarded + n = to \div ChunkSize
      <3>1. (to \div ChunkSize) * ChunkSize <= to
        BY PositionInChunks
      <3>2. QED
        BY <1>10, <2>2, <3>1 DEF WindowStart
    <2>3. QED
      BY <1>4, <2>1, <2>2
  <1>17. /\ d.discarded <= r.discarded /\ to \div ChunkSize <= r.discarded
         /\ r.discarded \in Nat
    BY <1>1, <1>4, <1>10
  <1>18. QED
    BY <1>2, <1>4, <1>5, <1>10, <1>11, <1>13, <1>14, <1>15, <1>16, <1>17 DEF Deque

\* After get_last_chunk the end of the data is in the last chunk.
LEMMA SpaceAtTheEnd ==
    ASSUME NEW d \in DequeType, HoldsRun(d), Fits(d)
    PROVE  \E c \in Seq(Chunk), m \in Nat \ {0}, before \in Nat, offset \in 0 .. (ChunkSize - 1) :
            /\ WithSpace(d) = [chunks |-> c, discarded |-> d.discarded, end |-> d.end]
            /\ Len(c) = m
            /\ before = (d.discarded + (m - 1)) * ChunkSize
            /\ d.end = before + offset /\ offset = d.end % ChunkSize
            /\ HoldsRun(WithSpace(d))
  <1>1. d.end \in Nat /\ d.discarded \in Nat /\ Len(d.chunks) \in Nat
        /\ d.chunks \in Seq(Chunk) /\ ChunkSize \in Nat /\ ChunkSize > 0
    BY DequeFields
  <1>2. PICK l \in Nat, ws \in Nat, all \in Nat :
            /\ l = Len(d.chunks)
            /\ ws = WindowStart(d) /\ ws = d.discarded * ChunkSize
            /\ all = l * ChunkSize /\ all = Len(d.chunks) * ChunkSize
    BY <1>1, DequeFields
  <1>3. ws <= d.end /\ ws + all - d.end \in 0 .. (ChunkSize - 1)
    BY <1>2 DEF Fits
  <1>4. d = [chunks |-> d.chunks, discarded |-> d.discarded, end |-> d.end]
    BY DEF DequeType
  <1>5. (d.discarded + l) * ChunkSize = ws + all
    <2>1. (d.discarded + l) * ChunkSize = d.discarded * ChunkSize + l * ChunkSize
      BY <1>1, ChunksBefore
    <2>2. QED
      BY <1>2, <2>1
  <1>6. CASE d.end = ws + all
    <2>1. WindowSize(d) = Len(d.chunks) * ChunkSize
      BY <1>1, <1>2, <1>6 DEF WindowSize
    <2>2. NewChunk \in Chunk
      <3>1. 0 \in Nat
        OBVIOUS
      <3>2. QED
        BY <3>1 DEF NewChunk, Chunk
    <2>3. PICK c \in Seq(Chunk) :
            /\ c = Append(d.chunks, NewChunk)
            /\ Len(c) = l + 1 /\ \A k \in 1 .. l : c[k] = d.chunks[k]
      <3>1. /\ Append(d.chunks, NewChunk) \in Seq(Chunk)
            /\ Len(Append(d.chunks, NewChunk)) = Len(d.chunks) + 1
            /\ \A k \in 1 .. Len(d.chunks) : Append(d.chunks, NewChunk)[k] = d.chunks[k]
        BY <1>1, <2>2, AppendProperties
      <3>2. QED
        BY <1>2, <3>1, Zenon
    <2>4. WithSpace(d) = [chunks |-> c, discarded |-> d.discarded, end |-> d.end]
      BY <1>4, <2>1, <2>3 DEF WithSpace
    <2>5. HoldsRun(WithSpace(d))
      <3> SUFFICES ASSUME NEW k \in 1 .. l + 1, NEW o \in 1 .. ChunkSize,
                          (d.discarded + (k - 1)) * ChunkSize + o <= d.end
                   PROVE  c[k][o] = (d.discarded + (k - 1)) * ChunkSize + o
        BY <2>3, <2>4 DEF HoldsRun
      <3>1. k # l + 1
        <4>1. (l + 1) - 1 = l
          OBVIOUS
        <4>2. k = l + 1 => ws + all + o <= d.end
          BY <1>5, <4>1
        <4>3. QED
          BY <1>1, <1>6, <4>2
      <3>2. k \in 1 .. l
        BY <3>1
      <3>3. d.chunks[k][o] = (d.discarded + (k - 1)) * ChunkSize + o
        BY <1>2, <3>2 DEF HoldsRun
      <3>4. c[k] = d.chunks[k]
        BY <2>3, <3>2
      <3>5. QED
        BY <3>3, <3>4
    <2>6. d.end = ws + all + 0 /\ 0 = d.end % ChunkSize
      <3>1. PICK q \in Nat : q = d.discarded + l /\ q * ChunkSize = ws + all
        BY <1>1, <1>5
      <3>2. (q + 1) * ChunkSize = ws + all + ChunkSize
        BY <3>1, ChunksBefore
      <3>3. q * ChunkSize <= d.end /\ d.end < (q + 1) * ChunkSize
        BY <1>1, <1>6, <3>1, <3>2, SMTT(30)
      <3>4. d.end % ChunkSize = d.end - q * ChunkSize
        BY <1>1, <3>3, OffsetInChunk
      <3>5. QED
        BY <1>1, <1>6, <3>1, <3>4
    <2>7. /\ l + 1 \in Nat \ {0} /\ ws + all \in Nat /\ 0 \in 0 .. (ChunkSize - 1)
          /\ ws + all = (d.discarded + ((l + 1) - 1)) * ChunkSize
      <3>1. (l + 1) - 1 = l
        OBVIOUS
      <3>2. QED
        BY <1>1, <1>5, <3>1
    <2>8. QED
      BY <2>3, <2>4, <2>5, <2>6, <2>7
  <1>7. CASE d.end # ws + all
    <2>1. WindowSize(d) # Len(d.chunks) * ChunkSize
      BY <1>1, <1>2, <1>7, SMTT(30) DEF WindowSize
    <2>2. WithSpace(d) = d
      BY <2>1 DEF WithSpace
    <2>3. l # 0
      <3>1. l = 0 => all = 0
        BY <1>1, <1>2
      <3>2. all # 0
        BY <1>1, <1>3, <1>7
      <3>3. QED
        BY <3>1, <3>2
    <2>4. PICK before \in Nat :
            before = (d.discarded + (l - 1)) * ChunkSize /\ before + ChunkSize = ws + all
      <3>1. d.discarded + (l - 1) \in Nat /\ (d.discarded + (l - 1)) + 1 = d.discarded + l
        BY <1>1, <2>3
      <3>2. (d.discarded + (l - 1)) * ChunkSize + ChunkSize = (d.discarded + l) * ChunkSize
            /\ (d.discarded + (l - 1)) * ChunkSize \in Nat
        BY <3>1, ChunksBefore
      <3>3. QED
        BY <1>5, <3>2
    <2>5. PICK offset \in 0 .. (ChunkSize - 1) : d.end = before + offset
      <3>1. d.end - before \in 0 .. (ChunkSize - 1) /\ d.end = before + (d.end - before)
        <4>1. before + ChunkSize = ws + all
          BY <2>4
        <4>2. QED
          BY <1>1, <1>3, <1>7, <4>1, SMTT(30)
      <3>2. QED
        BY <3>1
    <2>6. offset = d.end % ChunkSize
      <3>1. d.discarded + (l - 1) \in Nat
        BY <1>1, <2>3
      <3>2. ((d.discarded + (l - 1)) + 1) * ChunkSize = before + ChunkSize
        BY <2>4, <3>1, ChunksBefore
      <3>3. d.end % ChunkSize = d.end - before
        <4>1. before <= d.end /\ d.end < before + ChunkSize
          BY <1>1, <2>5
        <4>2. QED
          BY <1>1, <2>4, <3>1, <3>2, <4>1, OffsetInChunk
      <3>4. QED
        BY <1>1, <2>5, <3>3
    <2>7. QED
      BY <1>1, <1>2, <1>4, <2>2, <2>3, <2>4, <2>5, <2>6
  <1>8. QED
    BY <1>6, <1>7

\* append_some continues the run: it skips what was discarded before it came
\* and fills the last chunk with the rest, and always makes some progress.
LEMMA AppendKeepsDeque ==
    ASSUME NEW d, Deque(d), NEW buf, IsRun(buf, d.end), Len(buf) > 0
    PROVE  /\ Deque(AppendSome(d, buf))
           /\ AppendSome(d, buf).discarded = d.discarded
           /\ d.end < AppendSome(d, buf).end
           /\ AppendSome(d, buf).end <= d.end + Len(buf)
  <1>1. d \in DequeType /\ d.end \in Nat /\ d.discarded \in Nat /\ Len(d.chunks) \in Nat
        /\ d.chunks \in Seq(Chunk) /\ ChunkSize \in Nat /\ ChunkSize > 0
        /\ (d.chunks = <<>> <=> Len(d.chunks) = 0)
    BY DequeFields DEF Deque
  <1>2. PICK ws \in Nat : ws = WindowStart(d) /\ ws = d.discarded * ChunkSize
    BY <1>1, DequeFields
  <1>3. PICK b \in Nat : b = Len(buf) /\ b > 0
    BY LenProperties DEF IsRun
  <1>4. PICK skip \in 0 .. b :
            /\ skip = Skipped(d, buf)
            /\ ws <= d.end => skip = 0
            /\ d.end < ws => d.end + skip <= ws /\ (skip # b => d.end + skip = ws)
    <2>1. WindowSize(d) = d.end - ws
      BY <1>2 DEF WindowSize
    <2>2. PICK end \in Nat : end = d.end
      BY <1>1
    <2>3. PICK ahead \in Nat :
            /\ ahead = MaxOf(0, -(end - ws))
            /\ ws <= end => ahead = 0
            /\ end < ws => end + ahead = ws
      BY DEF MaxOf
    <2>4. PICK skip \in 0 .. b : /\ skip = MinOf(ahead, b) /\ skip <= ahead
                                 /\ skip # b => skip = ahead
      BY <1>3 DEF MinOf
    <2>5. skip = Skipped(d, buf)
      BY <1>3, <2>1, <2>2, <2>3, <2>4 DEF Skipped
    <2>6. ws <= end => skip = 0
      BY <2>3, <2>4
    <2>7. end < ws => end + skip <= ws /\ (skip # b => end + skip = ws)
      BY <2>3, <2>4
    <2>8. QED
      BY <2>2, <2>5, <2>6, <2>7
  <1>5. PICK at \in DequeType :
            /\ at = [d EXCEPT !.end = @ + skip]
            /\ at.chunks = d.chunks /\ at.discarded = d.discarded /\ at.end = d.end + skip
            /\ WindowStart(at) = ws
    <2>1. d.end + skip \in Nat
      BY <1>1, <1>4
    <2>2. [d EXCEPT !.end = @ + skip]
            = [chunks |-> d.chunks, discarded |-> d.discarded, end |-> d.end + skip]
      BY <1>1 DEF DequeType
    <2>3. QED
      BY <1>1, <1>2, <2>1, <2>2, MakeDeque DEF WindowStart
  <1>6. CASE skip = b
    <2>1. AppendSome(d, buf) = at
      BY <1>3, <1>4, <1>5, <1>6 DEF AppendSome
    <2>2. d.end < ws /\ at.end <= ws
      BY <1>1, <1>3, <1>4, <1>5, <1>6
    <2>3. d.chunks = <<>>
      BY <1>1, <1>2, <2>2 DEF Deque
    <2>4. HoldsRun(at)
      <3>1. Len(at.chunks) = 0
        BY <1>1, <1>5, <2>3
      <3>2. QED
        BY <3>1 DEF HoldsRun
    <2>5. WindowStart(at) <= at.end => Fits(at)
      <3> SUFFICES ASSUME ws <= at.end PROVE Fits(at)
        BY <1>5
      <3>1. at.end = ws /\ Len(at.chunks) * ChunkSize = 0
        BY <1>1, <1>5, <2>2, <2>3
      <3>2. ws + 0 - ws \in 0 .. (ChunkSize - 1) /\ ws <= ws
        BY <1>1
      <3>3. QED
        BY <1>5, <3>1, <3>2 DEF Fits
    <2>6. Deque(at)
      BY <1>5, <2>3, <2>4, <2>5 DEF Deque
    <2>7. d.end < at.end /\ at.end <= d.end + b
      BY <1>1, <1>3, <1>5, <1>6
    <2>8. QED
      BY <1>3, <1>5, <2>1, <2>6, <2>7
  <1>7. CASE skip # b
    <2>1. HoldsRun(at) /\ Fits(at)
      <3>1. CASE ws <= d.end
        <4>1. at.end = d.end
          BY <1>1, <1>4, <1>5, <3>1
        <4>2. HoldsRun(d) /\ Fits(d)
          BY <1>2, <3>1 DEF Deque
        <4>3. HoldsRun(at)
          BY <1>5, <4>1, <4>2 DEF HoldsRun
        <4>4. QED
          BY <1>2, <1>5, <4>1, <4>2, <4>3 DEF Fits
      <3>2. CASE d.end < ws
        <4>1. d.chunks = <<>> /\ at.end = ws
          BY <1>1, <1>2, <1>4, <1>5, <1>7, <3>2 DEF Deque
        <4>2. Len(at.chunks) = 0
          BY <1>1, <1>5, <4>1
        <4>3. HoldsRun(at)
          BY <4>2 DEF HoldsRun
        <4>4. Len(at.chunks) * ChunkSize = 0
          BY <1>1, <4>2
        <4>5. ws + 0 - ws \in 0 .. (ChunkSize - 1) /\ ws <= ws
          BY <1>1
        <4>6. QED
          BY <1>5, <4>1, <4>3, <4>4, <4>5 DEF Fits
      <3>3. QED
        BY <1>1, <3>1, <3>2
    <2>2. PICK c \in Seq(Chunk), m \in Nat \ {0}, before \in Nat,
               offset \in 0 .. (ChunkSize - 1) :
            /\ WithSpace(at) = [chunks |-> c, discarded |-> at.discarded, end |-> at.end]
            /\ Len(c) = m
            /\ before = (at.discarded + (m - 1)) * ChunkSize
            /\ at.end = before + offset /\ offset = at.end % ChunkSize
            /\ HoldsRun(WithSpace(at))
      BY <2>1, SpaceAtTheEnd
    <2>3. PICK n \in Nat \ {0} :
            n = Written(d, buf) /\ n <= b - skip /\ n <= ChunkSize - offset
      <3>1. Written(d, buf) = MinOf(b - skip, ChunkSize - offset)
        BY <1>3, <1>4, <1>5, <2>2 DEF Written
      <3>2. b - skip \in Nat \ {0} /\ ChunkSize - offset \in Nat \ {0}
        <4>1. b \in Nat /\ skip \in 0 .. b /\ skip # b => b - skip \in Nat \ {0}
          OBVIOUS
        <4>2. ChunkSize \in Nat /\ ChunkSize > 0 => ChunkSize - offset \in Nat \ {0}
          OBVIOUS
        <4>3. QED
          BY <1>1, <1>7, <4>1, <4>2, Zenon
      <3>3. QED
        BY <3>1, <3>2 DEF MinOf
    <2>4. PICK e \in Nat, old \in Nat :
            e = at.end /\ old = d.end /\ e = before + offset /\ e = old + skip
      <3>1. at.end = before + offset
        BY <2>2
      <3>2. at.end = d.end + skip
        BY <1>5
      <3>3. d.end + skip \in Nat
        BY <1>1
      <3>4. QED
        BY <1>1, <3>1, <3>2, <3>3
    <2>5. \A i \in (offset + 1) .. (offset + n) :
            buf[skip + i - offset] \in Nat /\ buf[skip + i - offset] = before + i
      <3> SUFFICES ASSUME NEW i \in (offset + 1) .. (offset + n)
                   PROVE  buf[skip + i - offset] \in Nat
                          /\ buf[skip + i - offset] = before + i
        OBVIOUS
      <3>1. PICK j \in 1 .. b : j = skip + i - offset /\ old + j = before + i
        <4>1. skip + i - offset \in 1 .. b /\ old + (skip + i - offset) = before + i
          <5>1. ChunkSize \in Nat /\ n <= b - skip /\ before + offset = old + skip
            BY <1>1, <2>3, <2>4
          <5>2. QED
            BY <5>1
        <4>2. QED
          BY <4>1
      <3>2. buf[j] = old + j
        BY <1>3, <2>4 DEF IsRun
      <3>3. before + i \in Nat
        BY <1>1
      <3>4. QED
        BY <3>1, <3>2, <3>3
    <2>6. PICK new \in Chunk :
            /\ new = [i \in 1 .. ChunkSize |->
                        IF i \in (offset + 1) .. (offset + n) THEN buf[skip + i - offset]
                                                              ELSE c[m][i]]
            /\ \A i \in 1 .. ChunkSize :
                    new[i] = IF i \in (offset + 1) .. (offset + n) THEN before + i
                                                                   ELSE c[m][i]
      <3>1. c[m] \in Chunk
        <4>1. m \in 1 .. Len(c)
          BY <2>2
        <4>2. QED
          BY <4>1, ElementOfSeq
      <3>2. \A i \in 1 .. ChunkSize : c[m][i] \in Nat
        BY <3>1 DEF Chunk
      <3>3. [i \in 1 .. ChunkSize |->
                IF i \in (offset + 1) .. (offset + n) THEN buf[skip + i - offset]
                                                      ELSE c[m][i]] \in Chunk
        BY <2>5, <3>2 DEF Chunk
      <3>4. QED
        BY <2>5, <3>3
    <2>7. PICK s \in Seq(Chunk) :
            /\ s = [c EXCEPT ![m] = new]
            /\ Len(s) = m
            /\ s[m] = new /\ \A k \in 1 .. m : k # m => s[k] = c[k]
      <3>1. m \in 1 .. Len(c) /\ m \in 1 .. m
        BY <2>2
      <3>2. /\ [c EXCEPT ![m] = new] \in Seq(Chunk)
            /\ Len([c EXCEPT ![m] = new]) = Len(c)
            /\ \A j \in 1 .. Len(c) : [c EXCEPT ![m] = new][j] = IF j = m THEN new ELSE c[j]
        BY <3>1, ExceptSeq
      <3>3. QED
        BY <2>2, <3>1, <3>2
    <2>8. PICK r : r = AppendSome(d, buf)
      OBVIOUS
    <2>9. r = [chunks |-> s, discarded |-> d.discarded, end |-> e + n]
      <3> DEFINE w == WithSpace(at)
      <3>0. w = [chunks |-> c, discarded |-> d.discarded, end |-> e]
        BY <1>5, <2>2, <2>4
      <3>1. /\ w.chunks = c /\ w.discarded = d.discarded /\ w.end = e /\ Len(w.chunks) = m
            /\ w = [chunks |-> c, discarded |-> d.discarded, end |-> e]
        <4> HIDE DEF w
        <4>1. w.chunks = c /\ w.discarded = d.discarded /\ w.end = e
          BY <3>0
        <4>2. Len(w.chunks) = m
          BY <2>2, <4>1, Zenon
        <4>3. QED
          BY <3>0, <4>1, <4>2, Zenon
      <3>2. r = WriteLast(w, buf, skip, n)
        BY <1>3, <1>4, <1>5, <1>7, <2>3, <2>8 DEF AppendSome
      <3> HIDE DEF w
      <3>3. r = [w EXCEPT !.end = e + n, !.chunks = [c EXCEPT ![m] = new]]
        BY <2>2, <2>4, <2>6, <3>1, <3>2, ZenonT(60) DEF WriteLast
      <3>4. QED
        BY <2>7, <3>1, <3>3
    <2>10. r \in DequeType
      <3>1. e + n \in Nat
        OBVIOUS
      <3>2. QED
        BY <1>1, <2>9, <3>1, MakeDeque
    <2>11. HoldsRun(r)
      <3> SUFFICES ASSUME NEW k \in 1 .. m, NEW o \in 1 .. ChunkSize,
                          (d.discarded + (k - 1)) * ChunkSize + o <= e + n
                   PROVE  s[k][o] = (d.discarded + (k - 1)) * ChunkSize + o
        BY <2>7, <2>9 DEF HoldsRun
      <3>1. \A j \in 1 .. m :
                (d.discarded + (j - 1)) * ChunkSize + o <= e
                    => c[j][o] = (d.discarded + (j - 1)) * ChunkSize + o
        <4>1. PICK x : x = WithSpace(at) /\ x = [chunks |-> c, discarded |-> d.discarded,
                                                 end |-> e]
          BY <1>5, <2>2, <2>4
        <4>2. HoldsRun(x) /\ x.chunks = c /\ x.discarded = d.discarded /\ x.end = e
              /\ Len(x.chunks) = m
          BY <2>2, <4>1, SMTT(30)
        <4>3. QED
          BY <4>2 DEF HoldsRun
      <3>2. CASE k = m
        <4>1. before = (d.discarded + (m - 1)) * ChunkSize
          BY <1>5, <2>2
        <4>2. before + o <= e + n
          BY <3>2, <4>1
        <4>3. new[o] = before + o
          <5>1. CASE o \in (offset + 1) .. (offset + n)
            BY <2>6, <5>1
          <5>2. CASE o \notin (offset + 1) .. (offset + n)
            <6>1. before + o <= e
              BY <1>1, <2>4, <4>2, <5>2
            <6>2. m \in 1 .. m
              OBVIOUS
            <6>3. c[m][o] = before + o
              BY <3>1, <4>1, <6>1, <6>2
            <6>4. new[o] = c[m][o]
              BY <2>6, <5>2
            <6>5. QED
              BY <6>3, <6>4
          <5>3. QED
            BY <5>1, <5>2
        <4>4. QED
          BY <2>7, <3>2, <4>1, <4>3
      <3>3. CASE k # m
        <4>1. PICK a \in Nat, p \in Nat : a = d.discarded + (k - 1) /\ p = d.discarded + (m - 1)
          BY <1>1, SMTT(30)
        <4>2. a + 1 \in Nat /\ a + 1 <= p
          <5>1. d.discarded \in Nat /\ a = d.discarded + (k - 1) /\ p = d.discarded + (m - 1)
            BY <1>1, <4>1
          <5>2. d.discarded + (k - 1) + 1 <= d.discarded + (m - 1)
            BY <3>3, <5>1, EarlierChunk, Zenon
          <5>3. QED
            BY <5>1, <5>2, SMTT(30)
        <4>3. (a + 1) * ChunkSize <= p * ChunkSize
          BY <4>2, ChunksBefore
        <4>4. (a + 1) * ChunkSize = a * ChunkSize + ChunkSize /\ a * ChunkSize \in Nat
          BY ChunksBefore
        <4>5. PICK x \in Nat : x = a * ChunkSize /\ x + ChunkSize <= before
          <5>1. p * ChunkSize = before
            BY <1>5, <2>2, <4>1
          <5>2. QED
            BY <4>3, <4>4, <5>1
        <4>6. x + o <= e
          BY <1>1, <2>4, <4>5
        <4>7. c[k][o] = (d.discarded + (k - 1)) * ChunkSize + o
          BY <3>1, <4>1, <4>5, <4>6
        <4>8. s[k] = c[k]
          BY <2>7, <3>3
        <4>9. QED
          BY <4>7, <4>8
      <3>4. QED
        BY <3>2, <3>3
    <2>12. ws <= e /\ WindowStart(r) = ws
      BY <1>2, <1>5, <2>1, <2>4, <2>9 DEF Fits, WindowStart
    <2>13. Fits(r)
      <3>1. PICK held \in Nat : held = m * ChunkSize /\ ws + held = before + ChunkSize
        <4>1. PICK a \in Nat : a = m - 1 /\ a + 1 = m
          OBVIOUS
        <4>2. (d.discarded + a) * ChunkSize = d.discarded * ChunkSize + a * ChunkSize
              /\ (a + 1) * ChunkSize = a * ChunkSize + ChunkSize
              /\ a * ChunkSize \in Nat /\ m * ChunkSize \in Nat
          BY <1>1, ChunksBefore
        <4>3. before = ws + a * ChunkSize /\ m * ChunkSize = a * ChunkSize + ChunkSize
          BY <1>2, <1>5, <2>2, <4>1, <4>2
        <4>4. PICK x \in Nat : x = a * ChunkSize
          BY <4>2
        <4>5. before = ws + x /\ m * ChunkSize = x + ChunkSize
          BY <4>3, <4>4
        <4>6. QED
          BY <1>1, <4>5
      <3>2. ws + held - (e + n) \in 0 .. (ChunkSize - 1)
        <4>1. ws + held = before + ChunkSize
          BY <3>1
        <4>2. ChunkSize \in Nat /\ n <= ChunkSize - offset /\ e = before + offset
          BY <1>1, <2>3, <2>4
        <4>3. QED
          BY <4>1, <4>2
      <3>3. ws <= e + n
        BY <2>12
      <3>4. QED
        BY <2>7, <2>9, <2>12, <3>1, <3>2, <3>3 DEF Fits
    <2>14. Deque(r)
      <3>1. ~(r.end <= WindowStart(r))
        BY <2>9, <2>12
      <3>2. QED
        BY <2>10, <2>11, <2>13, <3>1 DEF Deque
    <2>15. old < e + n /\ e + n <= old + b
      <3>1. n <= b - skip /\ e = old + skip
        BY <2>3, <2>4
      <3>2. b \in Nat /\ skip \in 0 .. b
        BY <1>4
      <3>3. QED
        BY <3>1, <3>2
    <2>16. QED
      BY <1>3, <2>4, <2>8, <2>9, <2>14, <2>15
  <1>8. QED
    BY <1>6, <1>7

-----------------------------------------------------------------------------
(* The buffers                                                             *)

\* A deque's window does not start after what is merged, or it never will hold
\* anything.
NotAhead(d) == AllDiscarded(d) \/ WindowStart(d) <= merged.end

\* A writer's deque has what was received of it, and its window never starts
\* after what is merged unless it diverged: of the others the strategy discards
\* only what it has merged.
WriterHolds(w) ==
    /\ Deque(writerData[w])
    /\ writerData[w].end <= received[w]
    /\ NotAhead(writerData[w])

BuffersType ==
    /\ received \in [Writer -> 0 .. MaxData]
    /\ writerData \in [Writer -> DequeType]
    /\ source \in Writer \cup {Nobody}
    /\ until \in 0 .. MaxData
    /\ hasHeader \in BOOLEAN
    /\ finished \in BOOLEAN
    /\ delayedLen \in 0 .. merged.end

\* Nothing is discarded of the merged replay, nothing merged before its header,
\* and a running add_data reads what its writer has.
MergedHolds ==
    /\ Deque(merged) /\ merged.discarded = 0 /\ merged.end <= MaxData
    /\ source # Nobody => /\ merged.end < until /\ until <= writerData[source].end
                          /\ ~AllDiscarded(writerData[source])
    /\ ~hasHeader => merged.end = 0 /\ source = Nobody

BuffersInv == BuffersType /\ MergedHolds /\ \A w \in Writer : WriterHolds(w)

\* What BuffersInv says of one writer, in numbers.
LEMMA WriterNumbers ==
    ASSUME BuffersInv, NEW w \in Writer
    PROVE  /\ writerData[w] \in DequeType /\ Deque(writerData[w])
           /\ writerData[w].end \in Nat /\ received[w] \in Nat /\ received[w] <= MaxData
           /\ WindowStart(writerData[w]) \in Nat /\ merged.end \in Nat
           /\ writerData[w].end <= received[w]
           /\ AllDiscarded(writerData[w]) \/ WindowStart(writerData[w]) <= merged.end
           /\ MaxData \in Nat
  <1>1. Deque(writerData[w]) /\ Deque(merged)
    BY DEF BuffersInv, WriterHolds, MergedHolds
  <1>2. writerData[w] \in DequeType /\ merged \in DequeType
    BY <1>1 DEF Deque
  <1>3. writerData[w].end \in Nat /\ WindowStart(writerData[w]) \in Nat /\ merged.end \in Nat
    BY <1>2, DequeFields
  <1>4. received[w] \in 0 .. MaxData /\ MaxData \in Nat
    BY StreamsAssumption DEF BuffersInv, BuffersType
  <1>5. QED
    BY <1>1, <1>2, <1>3, <1>4 DEF BuffersInv, WriterHolds, NotAhead

\* An empty deque is one.
LEMMA NewDequeIsDeque ==
    /\ Deque(NewDeque) /\ NewDeque.end = 0 /\ NewDeque.discarded = 0
    /\ WindowStart(NewDeque) = 0
  <1>1. ChunkSize \in Nat /\ ChunkSize > 0
    BY StreamsAssumption
  <1>2. <<>> \in Seq(Chunk) /\ Len(<<>>) = 0
    BY EmptySeq
  <1>3. NewDeque \in DequeType
    BY <1>2, MakeDeque DEF NewDeque
  <1>4. NewDeque.chunks = <<>> /\ NewDeque.end = 0 /\ NewDeque.discarded = 0
    BY DEF NewDeque
  <1>5. WindowStart(NewDeque) = 0
    BY <1>1, <1>4 DEF WindowStart
  <1>6. Len(NewDeque.chunks) * ChunkSize = 0 /\ 0 + 0 - 0 \in 0 .. (ChunkSize - 1)
    BY <1>1, <1>2, <1>4
  <1>7. Fits(NewDeque)
    BY <1>4, <1>5, <1>6 DEF Fits
  <1>8. HoldsRun(NewDeque)
    BY <1>2, <1>4 DEF HoldsRun
  <1>9. QED
    BY <1>3, <1>4, <1>5, <1>7, <1>8 DEF Deque

\* All buffers are empty at first.
LEMMA InitBuffersInv == Init => BuffersInv
  <1> SUFFICES ASSUME Init PROVE BuffersInv
    OBVIOUS
  <1> USE DEF Init
  <1>1. MaxData \in Nat /\ NewDeque \in DequeType
    BY StreamsAssumption, NewDequeIsDeque DEF Deque
  <1>2. BuffersType
    <2>1. received \in [Writer -> 0 .. MaxData] /\ until \in 0 .. MaxData
      BY <1>1
    <2>2. writerData \in [Writer -> DequeType]
      BY <1>1
    <2>3. delayedLen \in 0 .. merged.end
      <3>1. merged.end = 0 /\ delayedLen = 0 /\ 0 \in 0 .. 0
        BY NewDequeIsDeque
      <3>2. QED
        BY <3>1, Zenon
    <2>4. source \in Writer \cup {Nobody} /\ hasHeader \in BOOLEAN /\ finished \in BOOLEAN
      OBVIOUS
    <2>5. QED
      BY <2>1, <2>2, <2>3, <2>4, Zenon DEF BuffersType
  <1>3. MergedHolds
    BY <1>1, NewDequeIsDeque DEF MergedHolds
  <1>4. ASSUME NEW w \in Writer PROVE WriterHolds(w)
    <2>1. writerData[w] = NewDeque /\ received[w] = 0 /\ merged = NewDeque
      OBVIOUS
    <2>2. QED
      BY <2>1, NewDequeIsDeque DEF WriterHolds, NotAhead
  <1>5. QED
    BY <1>2, <1>3, <1>4 DEF BuffersInv

\* Receiving makes more of a writer's data due.
LEMMA ReceiveKeeps ==
    ASSUME BuffersInv, NEW w \in Writer, NEW n \in 1 .. MaxData, Receive(w, n)
    PROVE  BuffersInv'
  <1>1. /\ received[w] + n <= MaxData
        /\ received' = [received EXCEPT ![w] = @ + n]
        /\ UNCHANGED <<writerData, merged, source, until, hasHeader, delayedLen, finished>>
    BY DEF Receive, mergeVars
  <1>2. \A v \in Writer : received'[v] \in 0 .. MaxData /\ received[v] <= received'[v]
    <2> SUFFICES ASSUME NEW v \in Writer
                 PROVE  received'[v] \in 0 .. MaxData /\ received[v] <= received'[v]
      OBVIOUS
    <2>1. received \in [Writer -> 0 .. MaxData]
      BY DEF BuffersInv, BuffersType
    <2>2. received'[v] = IF v = w THEN received[v] + n ELSE received[v]
      BY <1>1, <2>1
    <2>3. QED
      BY <1>1, <2>2, WriterNumbers
  <1>3. received' \in [Writer -> 0 .. MaxData]
    <2>1. received' = [v \in Writer |-> received'[v]]
      BY <1>1 DEF BuffersInv, BuffersType
    <2>2. QED
      BY <1>2, <2>1
  <1>4. BuffersType'
    BY <1>1, <1>3 DEF BuffersInv, BuffersType
  <1>5. MergedHolds'
    BY <1>1 DEF BuffersInv, MergedHolds, AllDiscarded
  <1>6. ASSUME NEW v \in Writer PROVE WriterHolds(v)'
    <2>1. writerData[v].end <= received'[v]
      BY <1>2, WriterNumbers
    <2>2. QED
      BY <1>1, <2>1 DEF BuffersInv, WriterHolds, NotAhead, AllDiscarded, WindowStart
  <1>7. QED
    BY <1>4, <1>5, <1>6 DEF BuffersInv

\* A writer's deque is replaced by one with the same data or more, whose window
\* does not start after what is merged unless everything is discarded, and does
\* not move while data is merged.
LEMMA NewWriterData ==
    ASSUME BuffersInv, NEW w \in Writer, NEW d, Deque(d),
           writerData' = [writerData EXCEPT ![w] = d],
           writerData[w].end <= d.end, d.end <= received[w],
           NotAhead(d), source # Nobody => d.discarded = writerData[w].discarded,
           UNCHANGED <<received, merged, source, until, hasHeader, delayedLen, finished>>
    PROVE  BuffersInv'
  <1>1. d \in DequeType /\ d.end \in Nat
    BY DequeFields DEF Deque
  <1>2. writerData \in [Writer -> DequeType]
    BY DEF BuffersInv, BuffersType
  <1>3. writerData' \in [Writer -> DequeType]
        /\ \A v \in Writer : writerData'[v] = IF v = w THEN d ELSE writerData[v]
    BY <1>1, <1>2
  <1>4. BuffersType'
    BY <1>3 DEF BuffersInv, BuffersType
  <1>5. MergedHolds'
    <2>1. source # Nobody => /\ until <= writerData'[source].end
                             /\ ~AllDiscarded(writerData'[source])
      <3> SUFFICES ASSUME source # Nobody
                   PROVE  /\ until <= writerData'[source].end
                          /\ ~AllDiscarded(writerData'[source])
        OBVIOUS
      <3>1. /\ source \in Writer /\ until <= writerData[source].end /\ until \in Nat
            /\ ~AllDiscarded(writerData[source])
        BY StreamsAssumption DEF BuffersInv, BuffersType, MergedHolds
      <3>2. CASE source = w
        <4>1. until <= d.end
          BY <1>1, <3>1, <3>2, WriterNumbers
        <4>2. ~AllDiscarded(d)
          BY <3>1, <3>2 DEF AllDiscarded
        <4>3. QED
          BY <1>3, <3>2, <4>1, <4>2
      <3>3. CASE source # w
        BY <1>3, <3>1, <3>3
      <3>4. QED
        BY <3>2, <3>3
    <2>2. QED
      BY <2>1 DEF BuffersInv, MergedHolds, AllDiscarded
  <1>6. ASSUME NEW v \in Writer PROVE WriterHolds(v)'
    <2>1. CASE v = w
      <3>1. writerData'[v] = d /\ merged' = merged
        BY <1>3, <2>1
      <3>2. NotAhead(writerData[v])'
        BY <3>1 DEF NotAhead, AllDiscarded, WindowStart
      <3>3. QED
        BY <2>1, <3>1, <3>2 DEF WriterHolds
    <2>2. CASE v # w
      <3>1. writerData'[v] = writerData[v]
        BY <1>3, <2>2
      <3>2. QED
        BY <3>1 DEF BuffersInv, WriterHolds, NotAhead, AllDiscarded, WindowStart
    <2>3. QED
      BY <2>1, <2>2
  <1>7. QED
    BY <1>4, <1>5, <1>6 DEF BuffersInv

\* write_all appends what was received.
LEMMA WriteSomeKeeps ==
    ASSUME BuffersInv, NEW w \in Writer, WriteSome(w)
    PROVE  BuffersInv'
  <1> DEFINE buf == Sent(writerData[w].end, received[w])
             d == AppendSome(writerData[w], buf)
  <1>1. /\ writerData[w].end < received[w]
        /\ writerData' = [writerData EXCEPT ![w] = d]
        /\ UNCHANGED <<received, merged, source, until, hasHeader, delayedLen, finished>>
    BY DEF WriteSome, mergeVars
  <1>2. /\ IsRun(buf, writerData[w].end) /\ Len(buf) = received[w] - writerData[w].end
        /\ Len(buf) > 0
    <2>1. IsRun(buf, writerData[w].end) /\ Len(buf) = received[w] - writerData[w].end
      BY <1>1, WriterNumbers, SentIsRun
    <2> HIDE DEF buf
    <2>2. QED
      BY <1>1, <2>1, WriterNumbers
  <1> HIDE DEF buf
  <1>3. /\ Deque(d) /\ d.discarded = writerData[w].discarded
        /\ writerData[w].end < d.end /\ d.end <= writerData[w].end + Len(buf)
    BY <1>2, AppendKeepsDeque, WriterNumbers
  <1> HIDE DEF d
  <1>4. NotAhead(d)
    <2>1. /\ WindowStart(d) = WindowStart(writerData[w])
          /\ AllDiscarded(d) <=> AllDiscarded(writerData[w])
      BY <1>3 DEF WindowStart, AllDiscarded
    <2>2. QED
      BY <2>1, WriterNumbers DEF NotAhead
  <1>5. d.end \in Nat
    BY <1>3, DequeFields DEF Deque
  <1>6. writerData[w].end <= d.end /\ d.end <= received[w]
    BY <1>2, <1>3, <1>5, WriterNumbers
  <1>7. QED
    BY <1>1, <1>3, <1>4, <1>6, NewWriterData

\* Of a replay that may be merged only what is merged is discarded.
LEMMA DiscardMergedKeeps ==
    ASSUME BuffersInv, NEW w \in Writer, NEW to \in 1 .. MaxData, DiscardMerged(w, to)
    PROVE  BuffersInv'
  <1> DEFINE d == Discard(writerData[w], to)
  <1>1. /\ to <= merged.end /\ to \in Nat /\ source = Nobody
        /\ writerData' = [writerData EXCEPT ![w] = d]
        /\ UNCHANGED <<received, merged, source, until, hasHeader, delayedLen, finished>>
    BY DEF DiscardMerged, Idle, mergeVars
  <1>2. /\ Deque(d) /\ d.end = writerData[w].end
        /\ WindowStart(d) <= WindowStart(writerData[w]) \/ WindowStart(d) <= to
        /\ writerData[w].discarded <= d.discarded
    BY <1>1, DiscardKeepsDeque, WriterNumbers
  <1> HIDE DEF d
  <1>3. WindowStart(d) \in Nat
    BY <1>2, DequeFields DEF Deque
  <1>4. NotAhead(d)
    <2>1. CASE AllDiscarded(writerData[w])
      <3>1. writerData[w].discarded \in Nat /\ d.discarded \in Nat
        BY <1>2, WriterNumbers, DequeFields DEF Deque
      <3>2. UsizeMax \div ChunkSize \in Nat
        BY StreamsAssumption, PositionInChunks
      <3>3. AllDiscarded(d)
        BY <1>2, <2>1, <3>1, <3>2 DEF AllDiscarded
      <3>4. QED
        BY <3>3 DEF NotAhead
    <2>2. CASE ~AllDiscarded(writerData[w])
      <3>1. WindowStart(d) <= merged.end
        BY <1>1, <1>2, <1>3, <2>2, WriterNumbers
      <3>2. QED
        BY <3>1 DEF NotAhead
    <2>3. QED
      BY <2>1, <2>2
  <1>5. writerData[w].end <= d.end /\ d.end <= received[w]
    BY <1>2, WriterNumbers
  <1>6. QED
    BY <1>1, <1>2, <1>4, <1>5, NewWriterData

\* Of a replay that has diverged, everything.
LEMMA DiscardAllKeeps ==
    ASSUME BuffersInv, NEW w \in Writer, DiscardAll(w)
    PROVE  BuffersInv'
  <1> DEFINE d == Discard(writerData[w], UsizeMax)
  <1>1. /\ source = Nobody
        /\ writerData' = [writerData EXCEPT ![w] = d]
        /\ UNCHANGED <<received, merged, source, until, hasHeader, delayedLen, finished>>
    BY DEF DiscardAll, Idle, mergeVars
  <1>2. UsizeMax \in Nat
    BY StreamsAssumption
  <1>3. /\ Deque(d) /\ d.end = writerData[w].end
        /\ UsizeMax \div ChunkSize <= d.discarded
        /\ d.discarded \in Nat /\ UsizeMax \div ChunkSize \in Nat
    BY <1>2, DiscardKeepsDeque, WriterNumbers
  <1> HIDE DEF d
  <1>4. NotAhead(d)
    BY <1>3 DEF NotAhead, AllDiscarded
  <1>5. writerData[w].end <= d.end /\ d.end <= received[w]
    BY <1>3, WriterNumbers
  <1>6. QED
    BY <1>1, <1>3, <1>4, <1>5, NewWriterData

\* iter_chunks gives some of the data to merge, from where the merged replay
\* ends.
LEMMA NextChunkIsRun ==
    ASSUME BuffersInv, source # Nobody
    PROVE  /\ IsRun(NextChunk, merged.end)
           /\ Len(NextChunk) \in Nat \ {0}
           /\ merged.end + Len(NextChunk) <= until
  <1>1. source \in Writer /\ merged.end < until /\ until <= writerData[source].end
        /\ until \in Nat /\ ~AllDiscarded(writerData[source])
    BY StreamsAssumption DEF BuffersInv, BuffersType, MergedHolds
  <1>2. PICK d \in DequeType, end \in Nat :
            d = writerData[source] /\ Deque(d) /\ end = merged.end /\ WindowStart(d) <= end
            /\ d.end \in Nat /\ until <= d.end
    BY <1>1, WriterNumbers
  <1>3. InWindow(d, end)
    BY <1>1, <1>2 DEF InWindow
  <1>4. PICK chunk \in Seq(Nat), n \in Nat \ {0}, left \in Nat \ {0} :
            chunk = GetChunk(d, end) /\ n = Len(chunk) /\ left = until - merged.end
            /\ IsRun(chunk, end)
    <2>1. until - merged.end \in Nat \ {0}
      BY <1>1, <1>2
    <2>2. IsRun(GetChunk(d, end), end) /\ Len(GetChunk(d, end)) \in Nat \ {0}
      BY <1>2, <1>3, GetChunkIsRun
    <2>3. QED
      BY <2>1, <2>2 DEF IsRun
  <1>5. NextChunk = FirstBytes(chunk, left)
    BY <1>2, <1>4 DEF NextChunk
  <1>6. IsRun(NextChunk, end) /\ Len(NextChunk) = MinOf(left, n)
    BY <1>4, <1>5, FirstBytesOfRun, ZenonT(60)
  <1>7. MinOf(left, n) \in Nat \ {0} /\ end + MinOf(left, n) <= until
    BY <1>1, <1>2, <1>4 DEF MinOf
  <1>8. QED
    BY <1>2, <1>6, <1>7

\* add_data of the merged replay appends it.
LEMMA MergeSomeKeeps ==
    ASSUME BuffersInv, MergeSome
    PROVE  BuffersInv' /\ merged.end < merged'.end
  <1>1. /\ source # Nobody /\ merged' = AppendSome(merged, NextChunk)
        /\ source' = IF merged'.end = until THEN Nobody ELSE source
        /\ UNCHANGED <<received, writerData, until, hasHeader, delayedLen, finished>>
    BY DEF MergeSome
  <1>2. /\ IsRun(NextChunk, merged.end) /\ Len(NextChunk) \in Nat \ {0}
        /\ merged.end + Len(NextChunk) <= until
    BY <1>1, NextChunkIsRun
  <1>3. Deque(merged) /\ merged.discarded = 0
    BY DEF BuffersInv, MergedHolds
  <1>4. /\ Deque(merged') /\ merged'.discarded = 0 /\ merged.end < merged'.end
        /\ merged'.end <= merged.end + Len(NextChunk)
    <2>1. Len(NextChunk) > 0
      BY <1>2
    <2>2. QED
      BY <1>1, <1>2, <1>3, <2>1, AppendKeepsDeque
  <1>5. merged.end \in Nat /\ merged'.end \in Nat
    <2>1. merged \in DequeType /\ merged' \in DequeType
      BY <1>3, <1>4 DEF Deque
    <2>2. QED
      BY <2>1 DEF DequeType
  <1>6. merged'.end <= until /\ until \in 0 .. MaxData /\ MaxData \in Nat
    BY <1>2, <1>4, <1>5, StreamsAssumption DEF BuffersInv, BuffersType
  <1>7. BuffersType'
    <2>1. delayedLen \in 0 .. merged'.end
      BY <1>4, <1>5 DEF BuffersInv, BuffersType
    <2>2. source' \in Writer \cup {Nobody}
      BY <1>1 DEF BuffersInv, BuffersType
    <2>3. QED
      BY <1>1, <2>1, <2>2 DEF BuffersInv, BuffersType
  <1>8. MergedHolds'
    <2>1. merged'.end <= MaxData
      BY <1>5, <1>6
    <2>2. source' # Nobody => source' = source /\ merged'.end < until
      BY <1>1, <1>5, <1>6
    <2>3. hasHeader
      BY <1>1 DEF BuffersInv, BuffersType, MergedHolds
    <2>4. QED
      BY <1>1, <1>4, <2>1, <2>2, <2>3 DEF BuffersInv, MergedHolds
  <1>9. ASSUME NEW v \in Writer PROVE WriterHolds(v)'
    <2>1. AllDiscarded(writerData[v]) \/ WindowStart(writerData[v]) <= merged'.end
      BY <1>4, <1>5, WriterNumbers
    <2>2. NotAhead(writerData[v])'
      BY <1>1, <2>1 DEF NotAhead, AllDiscarded, WindowStart
    <2>3. QED
      BY <1>1, <2>2 DEF BuffersInv, WriterHolds
  <1>10. QED
    BY <1>4, <1>7, <1>8, <1>9 DEF BuffersInv

\* The strategy starts to merge what a writer has, once the header is there.
LEMMA StartMergeKeeps ==
    ASSUME BuffersInv, NEW w \in Writer, NEW to \in 1 .. MaxData, StartMerge(w, to)
    PROVE  BuffersInv'
  <1>1. /\ hasHeader /\ merged.end < to /\ to <= writerData[w].end
        /\ ~AllDiscarded(writerData[w])
        /\ source' = w /\ until' = to
        /\ UNCHANGED <<received, writerData, merged, hasHeader, delayedLen, finished>>
    BY DEF StartMerge
  <1>2. BuffersType'
    BY <1>1, StreamsAssumption DEF BuffersInv, BuffersType
  <1>3. MergedHolds'
    BY <1>1 DEF BuffersInv, MergedHolds, AllDiscarded
  <1>4. ASSUME NEW v \in Writer PROVE WriterHolds(v)'
    BY <1>1 DEF BuffersInv, WriterHolds, NotAhead, AllDiscarded, WindowStart
  <1>5. QED
    BY <1>2, <1>3, <1>4 DEF BuffersInv

\* The other steps change what is shown of the merged replay, or nothing here.
LEMMA ShowingKeeps ==
    ASSUME BuffersInv,
           UNCHANGED <<received, writerData, merged, source, until>>,
           hasHeader' \in BOOLEAN, hasHeader => hasHeader',
           finished' \in BOOLEAN, delayedLen' \in 0 .. merged.end
    PROVE  BuffersInv'
  <1>1. BuffersType'
    BY DEF BuffersInv, BuffersType
  <1>2. MergedHolds'
    BY DEF BuffersInv, BuffersType, MergedHolds, AllDiscarded
  <1>3. ASSUME NEW v \in Writer PROVE WriterHolds(v)'
    BY DEF BuffersInv, WriterHolds, NotAhead, AllDiscarded, WindowStart
  <1>4. QED
    BY <1>1, <1>2, <1>3 DEF BuffersInv

\* So the buffers hold what they should after every step.
LEMMA NextKeepsBuffers == BuffersInv /\ [Next]_vars => BuffersInv'
  <1> SUFFICES ASSUME BuffersInv, [Next]_vars PROVE BuffersInv'
    OBVIOUS
  <1>0. hasHeader \in BOOLEAN /\ finished \in BOOLEAN /\ delayedLen \in 0 .. merged.end
        /\ merged.end \in Nat
    <2>1. merged \in DequeType
      BY DEF BuffersInv, MergedHolds, Deque
    <2>2. QED
      BY <2>1, DequeFields DEF BuffersInv, BuffersType
  <1>1. CASE AddHeader
    BY <1>0, <1>1, ShowingKeeps DEF AddHeader, mergeVars
  <1>2. CASE FinishMerged
    BY <1>0, <1>2, ShowingKeeps DEF FinishMerged, mergeVars
  <1>3. ASSUME NEW len \in 1 .. MaxData, Advance(len) PROVE BuffersInv'
    <2>1. len \in 0 .. merged.end
      BY <1>0, <1>3 DEF Advance
    <2>2. QED
      BY <1>0, <1>3, <2>1, ShowingKeeps DEF Advance, mergeVars
  <1>4. ASSUME NEW r \in Reader, Attach(r) \/ PollRead(r) PROVE BuffersInv'
    BY <1>0, <1>4, ShowingKeeps DEF Attach, PollRead, mergeVars
  <1>5. CASE UNCHANGED vars
    BY <1>0, <1>5, ShowingKeeps DEF vars, mergeVars
  <1>6. QED
    BY <1>1, <1>2, <1>3, <1>4, <1>5, ReceiveKeeps, WriteSomeKeeps, DiscardMergedKeeps,
       DiscardAllKeeps, StartMergeKeeps, MergeSomeKeeps
    DEF Next, Writing

-----------------------------------------------------------------------------
(* The readers                                                             *)

\* The byte at a position of what readers get: the header's, then the replay's.
ByteAt(j) == IF j <= HeaderSize THEN -j ELSE j - HeaderSize

ReadersType ==
    /\ wakers \in SUBSET Reader
    /\ reader \in [Reader -> {"absent", "ready", "waiting", "done"}]
    /\ got \in [Reader -> Seq(Int)]

GotThePrefix(r) ==
    /\ Len(got[r]) <= ReadableLen
    /\ \A j \in 1 .. Len(got[r]) : got[r][j] = ByteAt(j)

ReadersInv == ReadersType /\ NoLostWakeup /\ \A r \in Reader : GotThePrefix(r)

\* What may be read, in numbers.
LEMMA ReadableNumbers ==
    ASSUME BuffersInv
    PROVE  /\ merged.end \in Nat /\ delayedLen \in Nat /\ delayedLen <= merged.end
           /\ HeaderSize \in Nat /\ MaxData \in Nat /\ CopySize \in Nat
           /\ HeaderLen \in Nat /\ ReadableLen \in Nat /\ ReadableLen = delayedLen + HeaderLen
           /\ hasHeader => HeaderLen = HeaderSize
           /\ ~hasHeader => ReadableLen = 0
           /\ ReadableLen <= HeaderSize + MaxData
  <1>1. HeaderSize \in Nat /\ MaxData \in Nat /\ CopySize \in Nat
    BY StreamsAssumption
  <1>2. merged.end \in Nat /\ merged.end <= MaxData
    <2>1. merged \in DequeType
      BY DEF BuffersInv, MergedHolds, Deque
    <2>2. QED
      BY <2>1, DequeFields DEF BuffersInv, MergedHolds
  <1>3. delayedLen \in Nat /\ delayedLen <= merged.end /\ hasHeader \in BOOLEAN
    BY <1>2 DEF BuffersInv, BuffersType
  <1>4. ~hasHeader => merged.end = 0
    BY DEF BuffersInv, MergedHolds
  <1>5. HeaderLen = (IF hasHeader THEN HeaderSize ELSE 0) /\ HeaderLen \in Nat
    BY <1>1 DEF HeaderLen
  <1>6. ReadableLen = delayedLen + HeaderLen
    BY DEF ReadableLen
  <1>7. QED
    BY <1>1, <1>2, <1>3, <1>4, <1>5, <1>6

\* A chunk that is shown continues what a reader has.
LEMMA ReadableChunkContinues ==
    ASSUME BuffersInv, NEW pos \in Nat, pos < ReadableLen
    PROVE  /\ ReadableChunk(pos) \in Seq(Int)
           /\ Len(ReadableChunk(pos)) \in Nat
           /\ pos + Len(ReadableChunk(pos)) <= ReadableLen
           /\ \A j \in 1 .. Len(ReadableChunk(pos)) : ReadableChunk(pos)[j] = ByteAt(pos + j)
  <1>1. /\ HeaderSize \in Nat /\ HeaderLen \in Nat /\ HeaderLen = HeaderSize
        /\ delayedLen \in Nat /\ merged.end \in Nat /\ delayedLen <= merged.end
        /\ ReadableLen = delayedLen + HeaderSize /\ ReadableLen \in Nat
    BY ReadableNumbers
  <1>2. CASE pos < HeaderLen
    <2>1. ReadableChunk(pos) = SubSeq(Header, pos + 1, HeaderSize)
      BY <1>2 DEF ReadableChunk
    <2>2. \A j \in pos + 1 .. HeaderSize : Header[j] \in Int /\ Header[j] = -j
      BY <1>1 DEF Header
    <2>3. /\ SubSeq(Header, pos + 1, HeaderSize) \in Seq(Int)
          /\ Len(SubSeq(Header, pos + 1, HeaderSize))
                = IF pos + 1 <= HeaderSize THEN HeaderSize - (pos + 1) + 1 ELSE 0
          /\ \A j \in 1 .. HeaderSize - (pos + 1) + 1 :
                SubSeq(Header, pos + 1, HeaderSize)[j] = Header[(pos + 1) + j - 1]
      <3>1. pos + 1 \in Int /\ HeaderSize \in Int
            /\ \A j \in pos + 1 .. HeaderSize : Header[j] \in Int
        BY <1>1, <2>2
      <3>2. QED
        BY <3>1, SubSeqProperties
    <2>4. PICK h \in Seq(Int), l \in Nat :
            /\ h = SubSeq(Header, pos + 1, HeaderSize) /\ l = Len(h) /\ pos + l = HeaderSize
            /\ \A j \in 1 .. l : h[j] = Header[(pos + 1) + j - 1]
      <3>1. PICK h \in Seq(Int) : h = SubSeq(Header, pos + 1, HeaderSize)
        BY <2>3
      <3>2. PICK l \in Nat : l = HeaderSize - pos
        BY <1>1, <1>2
      <3>3. pos + 1 <= HeaderSize /\ HeaderSize - (pos + 1) + 1 = l /\ pos + l = HeaderSize
        BY <1>1, <1>2, <3>2
      <3>4. Len(h) = l
        BY <2>3, <3>1, <3>3
      <3>5. \A j \in 1 .. l : h[j] = Header[(pos + 1) + j - 1]
        BY <2>3, <3>1, <3>3
      <3>6. QED
        BY <3>1, <3>3, <3>4, <3>5
    <2>5. \A j \in 1 .. l : h[j] = ByteAt(pos + j)
      <3> SUFFICES ASSUME NEW j \in 1 .. l PROVE h[j] = ByteAt(pos + j)
        OBVIOUS
      <3>1. pos + j \in pos + 1 .. HeaderSize /\ (pos + 1) + j - 1 = pos + j
            /\ pos + j <= HeaderSize
        BY <1>1, <2>4
      <3>2. h[j] = -(pos + j)
        BY <2>2, <2>4, <3>1
      <3>3. QED
        BY <3>1, <3>2 DEF ByteAt
    <2>6. pos + l <= ReadableLen
      BY <1>1, <2>4
    <2>7. QED
      BY <2>1, <2>4, <2>5, <2>6
  <1>3. CASE ~(pos < HeaderLen)
    <2>1. PICK start \in Nat : start = pos - HeaderLen /\ start < delayedLen
      BY <1>1, <1>3
    <2>2. PICK left \in Nat : left = ReadableLen - pos
      BY <1>1
    <2>3. ReadableChunk(pos) = FirstBytes(GetChunk(merged, start), left)
      BY <1>3, <2>1, <2>2 DEF ReadableChunk
    <2>4. Deque(merged) /\ InWindow(merged, start)
      <3>1. Deque(merged) /\ merged.discarded = 0
        BY DEF BuffersInv, MergedHolds
      <3>2. WindowStart(merged) = 0
        BY <3>1, StreamsAssumption DEF WindowStart
      <3>3. QED
        BY <1>1, <2>1, <3>1, <3>2 DEF InWindow
    <2>5. IsRun(GetChunk(merged, start), start)
      BY <2>4, GetChunkIsRun
    <2>6. PICK c \in Seq(Nat), l \in Nat :
            /\ c = ReadableChunk(pos) /\ l = Len(c) /\ l <= left
            /\ \A j \in 1 .. l : c[j] = start + j
      <3>1. GetChunk(merged, start) \in Seq(Nat)
        BY <2>5 DEF IsRun
      <3>2. /\ FirstBytes(GetChunk(merged, start), left) \in Seq(Nat)
            /\ Len(FirstBytes(GetChunk(merged, start), left)) \in Nat
            /\ Len(FirstBytes(GetChunk(merged, start), left)) <= left
        BY <3>1, FirstBytesAre
      <3>3. IsRun(FirstBytes(GetChunk(merged, start), left), start)
        BY <2>5, FirstBytesOfRun
      <3>4. QED
        BY <2>3, <3>2, <3>3 DEF IsRun
    <2>7. c \in Seq(Int)
      <3>1. Nat \subseteq Int
        OBVIOUS
      <3>2. QED
        BY <3>1, SeqMonotonic
    <2>8. \A j \in 1 .. l : c[j] = ByteAt(pos + j)
      <3> SUFFICES ASSUME NEW j \in 1 .. l PROVE c[j] = ByteAt(pos + j)
        OBVIOUS
      <3>1. ~(pos + j <= HeaderSize) /\ start + j = (pos + j) - HeaderSize
        BY <1>1, <1>3, <2>1
      <3>2. QED
        BY <2>6, <3>1 DEF ByteAt
    <2>9. pos + l <= ReadableLen
      BY <1>1, <2>2, <2>6
    <2>10. QED
      BY <2>6, <2>7, <2>8, <2>9
  <1>4. QED
    BY <1>2, <1>3

\* Nothing has been given to anybody.
LEMMA InitReadersInv == Init => ReadersInv
  <1> SUFFICES ASSUME Init PROVE ReadersInv
    OBVIOUS
  <1>1. /\ wakers = {} /\ reader = [r \in Reader |-> "absent"]
        /\ got = [r \in Reader |-> <<>>] /\ hasHeader = FALSE /\ delayedLen = 0
    BY DEF Init
  <1>2. <<>> \in Seq(Int) /\ Len(<<>>) = 0
    OBVIOUS
  <1>3. ReadersType
    BY <1>1, <1>2 DEF ReadersType
  <1>4. NoLostWakeup
    BY <1>1 DEF NoLostWakeup
  <1>5. ReadableLen = 0
    BY <1>1 DEF ReadableLen, HeaderLen
  <1>6. ASSUME NEW r \in Reader PROVE GotThePrefix(r)
    <2>1. Len(got[r]) = 0
      BY <1>1, <1>2
    <2>2. QED
      BY <1>5, <2>1 DEF GotThePrefix
  <1>7. QED
    BY <1>3, <1>4, <1>6 DEF ReadersInv

\* A reader's bytes stay right while more of the replay is shown.
LEMMA PrefixIsKept ==
    ASSUME BuffersInv, BuffersInv', ReadersInv, NEW r \in Reader,
           got'[r] = got[r], ReadableLen <= ReadableLen'
    PROVE  GotThePrefix(r)'
  <1>1. got[r] \in Seq(Int) /\ GotThePrefix(r)
    BY DEF ReadersInv, ReadersType
  <1>2. Len(got[r]) \in Nat
    BY <1>1, LenProperties
  <1>3. ReadableLen \in Nat /\ ReadableLen' \in Nat
    <2>1. ReadableLen \in Nat
      BY ReadableNumbers
    <2>2. ReadableLen' \in Nat
      <3>1. merged' \in DequeType /\ delayedLen' \in 0 .. merged'.end
        BY DEF BuffersInv, BuffersType, MergedHolds, Deque
      <3>2. merged'.end \in Nat
        BY <3>1, DequeFields
      <3>3. HeaderLen' \in Nat
        BY StreamsAssumption DEF HeaderLen
      <3>4. QED
        BY <3>1, <3>2, <3>3 DEF ReadableLen
    <2>3. QED
      BY <2>1, <2>2
  <1>4. Len(got[r]) <= ReadableLen'
    BY <1>1, <1>2, <1>3 DEF GotThePrefix
  <1>5. \A j \in 1 .. Len(got[r]) : got[r][j] = ByteAt(j)
    BY <1>1 DEF GotThePrefix
  <1>6. (\A j \in 1 .. Len(got[r]) : got[r][j] = ByteAt(j))'
    BY <1>5 DEF ByteAt
  <1>7. QED
    BY <1>4, <1>6 DEF GotThePrefix

\* Event::notify: once all tasks in the event are woken nobody waits.
LEMMA WakeKeeps ==
    ASSUME BuffersInv, BuffersInv', ReadersInv, Wake, got' = got,
           ReadableLen <= ReadableLen'
    PROVE  ReadersInv'
  <1>1. /\ wakers' = {}
        /\ reader' = [r \in Reader |-> IF r \in wakers THEN "ready" ELSE reader[r]]
    BY DEF Wake
  <1>2. ReadersType /\ NoLostWakeup
    BY DEF ReadersInv
  <1>3. ReadersType'
    BY <1>1, <1>2 DEF ReadersType
  <1>4. \A r \in Reader : reader'[r] # "waiting"
    BY <1>1, <1>2 DEF NoLostWakeup
  <1>5. NoLostWakeup'
    BY <1>4 DEF NoLostWakeup
  <1>6. ASSUME NEW r \in Reader PROVE GotThePrefix(r)'
    BY PrefixIsKept
  <1>7. QED
    BY <1>3, <1>5, <1>6 DEF ReadersInv

\* What does not show more of the replay leaves the readers as they are.
LEMMA NothingShownKeeps ==
    ASSUME ReadersInv, UNCHANGED <<hasHeader, delayedLen, finished, wakers, reader, got>>
    PROVE  ReadersInv'
  <1>1. ReadableLen' = ReadableLen
    BY DEF ReadableLen, HeaderLen
  <1>2. ReadersType'
    BY DEF ReadersInv, ReadersType
  <1>3. NoLostWakeup'
    BY <1>1 DEF ReadersInv, NoLostWakeup
  <1>4. ASSUME NEW r \in Reader PROVE GotThePrefix(r)'
    BY <1>1 DEF ReadersInv, GotThePrefix, ByteAt
  <1>5. QED
    BY <1>2, <1>3, <1>4 DEF ReadersInv

\* A reader that attaches has nothing yet, and will be polled.
LEMMA AttachKeeps ==
    ASSUME ReadersInv, NEW r \in Reader, Attach(r)
    PROVE  ReadersInv'
  <1>1. /\ reader' = [reader EXCEPT ![r] = "ready"]
        /\ UNCHANGED <<hasHeader, delayedLen, finished, wakers, got>>
    BY DEF Attach
  <1>2. ReadableLen' = ReadableLen
    BY <1>1 DEF ReadableLen, HeaderLen
  <1>3. ReadersType'
    BY <1>1 DEF ReadersInv, ReadersType
  <1>4. NoLostWakeup'
    BY <1>1, <1>2 DEF ReadersInv, ReadersType, NoLostWakeup
  <1>5. ASSUME NEW q \in Reader PROVE GotThePrefix(q)'
    BY <1>1, <1>2 DEF ReadersInv, GotThePrefix, ByteAt
  <1>6. QED
    BY <1>3, <1>4, <1>5 DEF ReadersInv

\* poll_read, with something to read: a copy of the chunk's first bytes.
LEMMA ReadKeeps ==
    ASSUME BuffersInv, ReadersInv, NEW r \in Reader,
           ReadableLen > Len(got[r]),
           got' = [got EXCEPT ![r] = @ \o FirstBytes(ReadableChunk(Len(@)), CopySize)],
           reader' = [reader EXCEPT ![r] = "ready"],
           UNCHANGED <<hasHeader, delayedLen, finished, wakers>>
    PROVE  ReadersInv'
  <1>1. PICK g \in Seq(Int), n \in Nat, readable \in Nat :
            /\ g = got[r] /\ n = Len(g) /\ readable = ReadableLen /\ n < readable
            /\ \A j \in 1 .. n : g[j] = ByteAt(j)
    <2>1. got[r] \in Seq(Int) /\ GotThePrefix(r)
      BY DEF ReadersInv, ReadersType
    <2>2. Len(got[r]) \in Nat
      BY <2>1, LenProperties
    <2>3. ReadableLen \in Nat /\ Len(got[r]) < ReadableLen
      BY <2>2, ReadableNumbers
    <2>4. \A j \in 1 .. Len(got[r]) : got[r][j] = ByteAt(j)
      BY <2>1 DEF GotThePrefix
    <2>5. QED
      BY <2>1, <2>2, <2>3, <2>4
  <1>2. PICK c \in Seq(Int), l \in Nat :
            /\ c = ReadableChunk(n) /\ l = Len(c) /\ n + l <= readable
            /\ \A j \in 1 .. l : c[j] = ByteAt(n + j)
    BY <1>1, ReadableChunkContinues
  <1>3. PICK f \in Seq(Int), m \in Nat :
            /\ f = FirstBytes(c, CopySize) /\ m = Len(f) /\ m <= l
            /\ \A j \in 1 .. m : f[j] = c[j]
    <2>1. CopySize \in Nat
      BY StreamsAssumption
    <2>2. /\ FirstBytes(c, CopySize) \in Seq(Int)
          /\ Len(FirstBytes(c, CopySize)) \in Nat /\ Len(FirstBytes(c, CopySize)) <= Len(c)
          /\ \A j \in 1 .. Len(FirstBytes(c, CopySize)) : FirstBytes(c, CopySize)[j] = c[j]
      BY <2>1, FirstBytesAre
    <2>3. QED
      BY <1>2, <2>2
  <1>4. PICK h \in Seq(Int) : h = g \o f
    BY <1>1, <1>3, ConcatProperties
  <1>5. /\ Len(h) = n + m
        /\ \A j \in 1 .. n + m : h[j] = IF j <= n THEN g[j] ELSE f[j - n]
    BY <1>1, <1>3, <1>4, ConcatProperties
  <1>6. ASSUME NEW j \in 1 .. n + m PROVE h[j] = ByteAt(j)
    <2>1. CASE j <= n
      <3>1. j \in 1 .. n
        BY <1>1, <2>1
      <3>2. QED
        BY <1>1, <1>5, <2>1, <3>1
    <2>2. CASE ~(j <= n)
      <3>1. PICK i \in 1 .. m : i = j - n /\ n + i = j
        <4>1. j - n \in 1 .. m /\ n + (j - n) = j
          BY <2>2
        <4>2. QED
          BY <4>1
      <3>2. h[j] = f[i]
        BY <1>5, <2>2, <3>1
      <3>3. i \in 1 .. l
        BY <1>2, <1>3, <3>1
      <3>4. f[i] = ByteAt(n + i)
        BY <1>2, <1>3, <3>1, <3>3
      <3>5. QED
        BY <3>1, <3>2, <3>4
    <2>3. QED
      BY <2>1, <2>2
  <1>7. got' = [got EXCEPT ![r] = h]
    BY <1>1, <1>2, <1>3, <1>4
  <1>8. ReadableLen' = ReadableLen
    BY DEF ReadableLen, HeaderLen
  <1>9. ReadersType'
    BY <1>7 DEF ReadersInv, ReadersType
  <1>10. NoLostWakeup'
    <2>1. \A q \in Reader : reader'[q] = "waiting" =>
              q # r /\ reader[q] = "waiting" /\ got'[q] = got[q]
      BY <1>7 DEF ReadersInv, ReadersType
    <2>2. QED
      BY <1>8, <2>1 DEF ReadersInv, NoLostWakeup
  <1>11. ASSUME NEW q \in Reader PROVE GotThePrefix(q)'
    <2>1. CASE q = r
      <3>1. got'[q] = h
        BY <1>7, <2>1 DEF ReadersInv, ReadersType
      <3>2. Len(got'[q]) = n + m /\ n + m <= ReadableLen'
        <4>1. n + m <= readable
          BY <1>2, <1>3
        <4>2. readable = ReadableLen'
          BY <1>1, <1>8
        <4>3. QED
          BY <1>5, <3>1, <4>1, <4>2
      <3>3. Len(got'[q]) <= ReadableLen'
        BY <3>2
      <3>4. \A j \in 1 .. Len(got'[q]) : got'[q][j] = ByteAt(j)
        BY <1>6, <3>1, <3>2
      <3>5. QED
        BY <3>3, <3>4 DEF GotThePrefix, ByteAt
    <2>2. CASE q # r
      <3>1. got'[q] = got[q]
        BY <1>7, <2>2 DEF ReadersInv, ReadersType
      <3>2. QED
        BY <1>8, <3>1 DEF ReadersInv, GotThePrefix, ByteAt
    <2>3. QED
      BY <2>1, <2>2
  <1>12. QED
    BY <1>9, <1>10, <1>11 DEF ReadersInv

\* poll_read: a chunk, or the end, or the reader's waker goes into the event.
LEMMA PollReadKeeps ==
    ASSUME BuffersInv, ReadersInv, NEW r \in Reader, PollRead(r)
    PROVE  ReadersInv'
  <1>1. UNCHANGED <<hasHeader, delayedLen, finished>>
    BY DEF PollRead
  <1>2. ReadableLen' = ReadableLen
    BY <1>1 DEF ReadableLen, HeaderLen
  <1>3. CASE ReadableLen > Len(got[r])
    <2>1. \/ got' = [got EXCEPT ![r] = @ \o FirstBytes(ReadableChunk(Len(@)), CopySize)]
             /\ reader' = [reader EXCEPT ![r] = "ready"] /\ UNCHANGED wakers
          \/ ReadableLen <= Len(got[r])
      BY DEF PollRead
    <2>2. ~(ReadableLen <= Len(got[r]))
      <3>1. ReadableLen \in Nat /\ Len(got[r]) \in Nat
        BY ReadableNumbers, LenProperties DEF ReadersInv, ReadersType
      <3>2. QED
        BY <1>3, <3>1
    <2>3. QED
      BY <1>1, <1>3, <2>1, <2>2, ReadKeeps
  <1>4. CASE ~(ReadableLen > Len(got[r]))
    <2>1. /\ ReadableLen <= Len(got[r]) /\ got' = got
          /\ \/ finished /\ reader' = [reader EXCEPT ![r] = "done"] /\ wakers' = wakers
             \/ /\ ~finished /\ wakers' = wakers \cup {r}
                /\ reader' = [reader EXCEPT ![r] = "waiting"]
      BY <1>4 DEF PollRead
    <2>2. ReadersType'
      BY <2>1 DEF ReadersInv, ReadersType
    <2>3. NoLostWakeup'
      BY <1>1, <1>2, <2>1 DEF ReadersInv, ReadersType, NoLostWakeup
    <2>4. ASSUME NEW q \in Reader PROVE GotThePrefix(q)'
      BY <1>2, <2>1 DEF ReadersInv, GotThePrefix, ByteAt
    <2>5. QED
      BY <2>2, <2>3, <2>4 DEF ReadersInv
  <1>5. QED
    BY <1>3, <1>4

\* So readers have what they should after every step.
LEMMA NextKeepsReaders ==
    BuffersInv /\ BuffersInv' /\ ReadersInv /\ [Next]_vars => ReadersInv'
  <1> SUFFICES ASSUME BuffersInv, BuffersInv', ReadersInv, [Next]_vars PROVE ReadersInv'
    OBVIOUS
  <1>1. CASE AddHeader
    <2>1. Wake /\ got' = got /\ ~hasHeader /\ hasHeader' = TRUE /\ delayedLen' = delayedLen
      BY <1>1 DEF AddHeader
    <2>2. ReadableLen = delayedLen /\ ReadableLen' = delayedLen + HeaderSize
      <3>1. delayedLen \in Nat
        BY ReadableNumbers
      <3>2. QED
        BY <2>1, <3>1 DEF ReadableLen, HeaderLen
    <2>3. ReadableLen <= ReadableLen'
      BY <2>2, ReadableNumbers
    <2>4. QED
      BY <2>1, <2>3, WakeKeeps
  <1>2. CASE FinishMerged
    <2>1. Wake /\ got' = got /\ ReadableLen' = ReadableLen
      BY <1>2 DEF FinishMerged, ReadableLen, HeaderLen
    <2>2. ReadableLen <= ReadableLen'
      BY <2>1, ReadableNumbers
    <2>3. QED
      BY <2>1, <2>2, WakeKeeps
  <1>3. ASSUME NEW len \in 1 .. MaxData, Advance(len) PROVE ReadersInv'
    <2>1. Wake /\ got' = got /\ delayedLen < len /\ delayedLen' = len /\ HeaderLen' = HeaderLen
      BY <1>3 DEF Advance, HeaderLen
    <2>2. ReadableLen = delayedLen + HeaderLen /\ ReadableLen' = len + HeaderLen
      BY <2>1 DEF ReadableLen
    <2>3. ReadableLen <= ReadableLen'
      BY <2>1, <2>2, ReadableNumbers
    <2>4. QED
      BY <2>1, <2>3, WakeKeeps
  <1>4. ASSUME NEW r \in Reader, Attach(r) \/ PollRead(r) PROVE ReadersInv'
    BY <1>4, AttachKeeps, PollReadKeeps
  <1>5. CASE MergeSome
    BY <1>5, NothingShownKeeps DEF MergeSome, readVars
  <1>6. ASSUME NEW w \in Writer, WriteSome(w) PROVE ReadersInv'
    BY <1>6, NothingShownKeeps DEF WriteSome, readVars
  <1>7. ASSUME NEW w \in Writer, NEW n \in 1 .. MaxData,
               Receive(w, n) \/ DiscardMerged(w, n) \/ StartMerge(w, n)
        PROVE  ReadersInv'
    BY <1>7, NothingShownKeeps DEF Receive, DiscardMerged, StartMerge, readVars
  <1>8. ASSUME NEW w \in Writer, DiscardAll(w) PROVE ReadersInv'
    BY <1>8, NothingShownKeeps DEF DiscardAll, readVars
  <1>9. CASE UNCHANGED vars
    BY <1>9, NothingShownKeeps DEF vars, readVars
  <1>10. QED
    BY <1>1, <1>2, <1>3, <1>4, <1>5, <1>6, <1>7, <1>8, <1>9 DEF Next, Writing

-----------------------------------------------------------------------------
(* What holds throughout                                                   *)

\* The deques hold the run of bytes that went in, and every reader a prefix of
\* what is shown, in every reachable state.
LEMMA StreamsInvariant == Spec => [](BuffersInv /\ ReadersInv)
  <1>1. BuffersInv /\ ReadersInv /\ [Next]_vars => (BuffersInv /\ ReadersInv)'
    BY NextKeepsBuffers, NextKeepsReaders
  <1>2. QED
    BY InitBuffersInv, InitReadersInv, <1>1, PTL DEF Spec

\* util/buf_deque.rs: append_some and discard, in whatever order they come,
\* leave a sliding window on the data appended, in as many chunks as it needs.
THEOREM DequesHoldTheRun == Spec => []DequesAreWindows
  <1>1. BuffersInv /\ ReadersInv => DequesAreWindows
    <2> SUFFICES ASSUME BuffersInv, ReadersInv PROVE DequesAreWindows
      OBVIOUS
    <2>1. Deque(merged) /\ merged \in DequeType
      BY DEF BuffersInv, MergedHolds, Deque
    <2>2. ASSUME NEW r \in Reader PROVE Len(got[r]) <= HeaderSize + MaxData
      <3>1. got[r] \in Seq(Int) /\ Len(got[r]) <= ReadableLen
        BY DEF ReadersInv, ReadersType, GotThePrefix
      <3>2. Len(got[r]) \in Nat
        BY <3>1, LenProperties
      <3>3. QED
        BY <3>1, <3>2, ReadableNumbers
    <2>3. TypeOK
      BY <2>1, <2>2 DEF TypeOK, BuffersInv, BuffersType, ReadersInv, ReadersType
    <2>4. IsWindow(merged)
      BY <2>1, DequeIsWindow
    <2>5. ASSUME NEW w \in Writer PROVE IsWindow(writerData[w])
      BY DequeIsWindow, WriterNumbers
    <2>6. QED
      BY <2>3, <2>4, <2>5 DEF DequesAreWindows
  <1>2. QED
    BY <1>1, StreamsInvariant, PTL

\* The asserts of BufDeque::get_chunk hold when the merge strategy comes back
\* for a writer's data, because it discards only what it has merged, or all of a
\* writer it will not come back to.
THEOREM UnmergedIsHeld == Spec => []UnmergedDataIsHeld
  <1>1. BuffersInv => UnmergedDataIsHeld
    <2> SUFFICES ASSUME BuffersInv, NEW w \in Writer, writerData[w].end > merged.end,
                        ~AllDiscarded(writerData[w])
                 PROVE  InWindow(writerData[w], merged.end)
      BY DEF UnmergedDataIsHeld
    <2>1. /\ WindowStart(writerData[w]) <= merged.end
          /\ merged.end \in Nat /\ writerData[w].end \in Nat
      BY WriterNumbers
    <2>2. merged.end < writerData[w].end
      BY <2>1
    <2>3. QED
      BY <2>1, <2>2 DEF InWindow
  <1>2. QED
    BY <1>1, StreamsInvariant, PTL

\* MergedReplayReader::poll_read gives every reader the header and then the
\* replay, byte for byte, and nothing that is not yet shown.
THEOREM ReadersGetThePrefix == Spec => []ReadersSeeThePrefix
  <1>1. BuffersInv /\ ReadersInv => ReadersSeeThePrefix
    <2> SUFFICES ASSUME BuffersInv, ReadersInv, NEW r \in Reader
                 PROVE  /\ Len(got[r]) <= ReadableLen
                        /\ IsPrefix(got[r], Header \o Sent(0, delayedLen))
      BY DEF ReadersSeeThePrefix
    <2>1. PICK g \in Seq(Int), n \in Nat :
            /\ g = got[r] /\ n = Len(g) /\ n <= ReadableLen
            /\ \A j \in 1 .. n : g[j] = ByteAt(j)
      <3>1. got[r] \in Seq(Int) /\ GotThePrefix(r)
        BY DEF ReadersInv, ReadersType
      <3>2. Len(got[r]) \in Nat
        BY <3>1, LenProperties
      <3>3. QED
        BY <3>1, <3>2 DEF GotThePrefix
    <2>2. /\ HeaderSize \in Nat /\ delayedLen \in Nat
          /\ n <= HeaderSize + delayedLen
      BY <2>1, ReadableNumbers
    <2>3. PICK head \in Seq(Int) :
            /\ head = Header /\ Len(head) = HeaderSize
            /\ \A j \in 1 .. HeaderSize : head[j] = -j
      <3>1. Header \in [1 .. HeaderSize -> Int]
        BY <2>2 DEF Header
      <3>2. Header \in Seq(Int)
        BY <2>2, <3>1, SeqDef
      <3>3. Len(Header) = HeaderSize
        BY <2>2, <3>1, <3>2, LenProperties
      <3>4. \A j \in 1 .. HeaderSize : Header[j] = -j
        BY DEF Header
      <3>5. QED
        BY <3>2, <3>3, <3>4
    <2>4. PICK data \in Seq(Int) :
            /\ data = Sent(0, delayedLen) /\ Len(data) = delayedLen
            /\ \A j \in 1 .. delayedLen : data[j] = j
      <3>1. IsRun(Sent(0, delayedLen), 0) /\ Len(Sent(0, delayedLen)) = delayedLen
        <4>1. 0 \in Nat /\ 0 <= delayedLen /\ delayedLen - 0 = delayedLen
          BY <2>2
        <4>2. /\ IsRun(Sent(0, delayedLen), 0)
              /\ Len(Sent(0, delayedLen)) = delayedLen - 0
          BY <2>2, <4>1, SentIsRun
        <4>3. QED
          BY <4>1, <4>2, Zenon
      <3>2. Sent(0, delayedLen) \in Seq(Int)
        <4>1. Nat \subseteq Int
          OBVIOUS
        <4>2. QED
          BY <3>1, <4>1, SeqMonotonic DEF IsRun
      <3>3. \A j \in 1 .. delayedLen : Sent(0, delayedLen)[j] = 0 + j
        BY <3>1 DEF IsRun
      <3>4. \A j \in 1 .. delayedLen : 0 + j = j
        BY <2>2
      <3>5. QED
        BY <3>1, <3>2, <3>3, <3>4
    <2>5. PICK all \in Seq(Int) :
            /\ all = head \o data /\ Len(all) = HeaderSize + delayedLen
            /\ \A j \in 1 .. HeaderSize + delayedLen :
                    all[j] = IF j <= HeaderSize THEN head[j] ELSE data[j - HeaderSize]
      <3>1. PICK all \in Seq(Int) : all = head \o data
        BY <2>3, <2>4, ConcatProperties
      <3>2. /\ Len(all) = Len(head) + Len(data)
            /\ \A j \in 1 .. Len(head) + Len(data) :
                    all[j] = IF j <= Len(head) THEN head[j] ELSE data[j - Len(head)]
        <4>1. /\ Len(head \o data) = Len(head) + Len(data)
              /\ \A j \in 1 .. Len(head) + Len(data) :
                    (head \o data)[j] = IF j <= Len(head) THEN head[j] ELSE data[j - Len(head)]
          BY ConcatProperties, Zenon
        <4>2. QED
          BY <3>1, <4>1, Zenon
      <3>3. QED
        BY <2>3, <2>4, <3>1, <3>2
    <2>6. ASSUME NEW j \in 1 .. n PROVE all[j] = g[j] /\ j \in 1 .. HeaderSize + delayedLen
      <3>1. j \in 1 .. HeaderSize + delayedLen
        BY <2>2
      <3>2. CASE j <= HeaderSize
        <4>1. j \in 1 .. HeaderSize
          BY <2>2, <3>2
        <4>2. QED
          BY <2>1, <2>3, <2>5, <3>1, <3>2, <4>1 DEF ByteAt
      <3>3. CASE ~(j <= HeaderSize)
        <4>1. j - HeaderSize \in 1 .. delayedLen
          BY <2>2, <3>3
        <4>2. QED
          BY <2>1, <2>4, <2>5, <3>1, <3>3, <4>1 DEF ByteAt
      <3>4. QED
        BY <3>1, <3>2, <3>3
    <2>7. IsPrefix(g, all)
      <3>1. PICK a \in Seq(Int) :
              a = SubSeq(all, 1, n) /\ Len(a) = n /\ \A j \in 1 .. n : a[j] = all[j]
        <4>1. FirstBytes(all, n) \in Seq(Int) /\ Len(FirstBytes(all, n)) = MinOf(n, Len(all))
              /\ \A j \in 1 .. Len(FirstBytes(all, n)) : FirstBytes(all, n)[j] = all[j]
          BY FirstBytesAre
        <4>2. MinOf(n, Len(all)) = n
          BY <2>2, <2>5 DEF MinOf
        <4>3. FirstBytes(all, n) = SubSeq(all, 1, n)
          BY <4>2 DEF FirstBytes
        <4>4. QED
          BY <4>1, <4>2, <4>3
      <3>2. PICK b \in Seq(Int) :
              b = SubSeq(g, 1, n) /\ Len(b) = n /\ \A j \in 1 .. n : b[j] = g[j]
        <4>1. FirstBytes(g, n) \in Seq(Int) /\ Len(FirstBytes(g, n)) = MinOf(n, Len(g))
              /\ \A j \in 1 .. Len(FirstBytes(g, n)) : FirstBytes(g, n)[j] = g[j]
          BY FirstBytesAre
        <4>2. MinOf(n, Len(g)) = n
          BY <2>1 DEF MinOf
        <4>3. FirstBytes(g, n) = SubSeq(g, 1, n)
          BY <4>2 DEF FirstBytes
        <4>4. QED
          BY <4>1, <4>2, <4>3
      <3>3. \A j \in 1 .. n : a[j] = b[j]
        BY <2>6, <3>1, <3>2
      <3>4. a = b
        BY <3>1, <3>2, <3>3, SeqEqual
      <3>5. n <= Len(all)
        BY <2>2, <2>5
      <3>6. QED
        BY <2>1, <3>1, <3>2, <3>4, <3>5 DEF IsPrefix
    <2>8. QED
      BY <2>1, <2>3, <2>4, <2>5, <2>7
  <1>2. QED
    BY <1>1, StreamsInvariant, PTL

\* util/event.rs: a reader that waits has its waker in the event and nothing to
\* read, in whatever order it was polled and the event notified.
THEOREM NoReaderLeftAsleep == Spec => []NoLostWakeup
  <1>1. ReadersInv => NoLostWakeup
    BY DEF ReadersInv
  <1>2. QED
    BY <1>1, StreamsInvariant, PTL
-----------------------------------------------------------------------------
(* The deque, as the merge strategy sees it                                *)

\* On the chunks of BufDeque, discard moves the window as Discard(from, until)
\* of QuorumMerge moves its start: forward only, to the start of the chunk that
\* position to is in, and past the end of the data if it is told to.
THEOREM DiscardMovesTheWindow ==
    ASSUME NEW d, Deque(d), NEW to \in Nat
    PROVE  /\ Deque(Discard(d, to)) /\ Discard(d, to).end = d.end
           /\ WindowStart(Discard(d, to)) =
                MaxOf(WindowStart(d), (to \div ChunkSize) * ChunkSize)
  <1>1. d.discarded \in Nat /\ ChunkSize \in Nat /\ ChunkSize > 0
    BY DequeFields DEF Deque
  <1>2. PICK k \in Nat : k = to \div ChunkSize
    BY PositionInChunks
  <1>3. PICK g \in Nat : g = d.discarded
    BY <1>1
  <1>4. Discard(d, to).discarded = g + MaxOf(0, k - g)
    BY <1>2, <1>3, DequeFields DEF Discard, Deque, DequeType
  <1>5. CASE k <= g
    <2>1. g + MaxOf(0, k - g) = g
      BY <1>5 DEF MaxOf
    <2>2. k * ChunkSize <= g * ChunkSize /\ k * ChunkSize \in Nat /\ g * ChunkSize \in Nat
      BY <1>1, <1>5
    <2>3. MaxOf(g * ChunkSize, k * ChunkSize) = g * ChunkSize
      BY <2>2 DEF MaxOf
    <2>4. QED
      BY <1>2, <1>3, <1>4, <2>1, <2>3, DiscardKeepsDeque DEF WindowStart
  <1>6. CASE k > g
    <2>1. g + MaxOf(0, k - g) = k
      BY <1>6 DEF MaxOf
    <2>2. k * ChunkSize > g * ChunkSize /\ k * ChunkSize \in Nat /\ g * ChunkSize \in Nat
      BY <1>1, <1>6
    <2>3. MaxOf(g * ChunkSize, k * ChunkSize) = k * ChunkSize
      BY <2>2 DEF MaxOf
    <2>4. QED
      BY <1>2, <1>3, <1>4, <2>1, <2>3, DiscardKeepsDeque DEF WindowStart
  <1>7. QED
    BY <1>5, <1>6
=============================================================================
