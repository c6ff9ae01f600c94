----------------------- MODULE ConnectionStreamProofs -----------------------
(***************************************************************************)
(* Proofs about ConnectionStream, for any payload, any limits and however  *)
(* the frames fall: no byte is lost or read twice between the parsers of a *)
(* connection, and a complete replay is the whole of what was sent.        *)
(***************************************************************************)
EXTENDS ConnectionStream, SequenceTheorems, WellFoundedInduction, TLAPS

\* A set of numbers has a least one: CHOOSE in Taken finds the first NUL.
LEMMA LeastNumber ==
    ASSUME NEW T \in SUBSET Nat, T # {}
    PROVE  \E m \in T : \A k \in T : m <= k
  <1>1. PICK m \in T : \A k \in T : ~ (<<k, m>> \in OpToRel(<, Nat))
    BY NatLessThanWellFounded, WFMin
  <1>2. \A k \in T : ~ (k < m)
    BY <1>1 DEF OpToRel
  <1>3. QED
    BY <1>2

-----------------------------------------------------------------------------
(* The inductive invariant                                                 *)

Bytes == Seq(0 .. 255)
Count == {"nul", "count"}
Of == {"nothing", "bytes", "players", "armies", "player"}
Read == [upto : Count, count : Nat, of : Of]

\* There is something to read before the data, and the pending read has not
\* got more than it is to have.
ReadsKnown ==
    /\ todo \in Seq(Read)
    /\ stage # "data" =>
        /\ todo # <<>>
        /\ Pending.upto = "count" => Len(got) <= Pending.count

\* Each part is empty until the stage that reads it.
PartsInOrder ==
    /\ stage = "type" => line = <<>>
    /\ stage \in {"type", "line"} => header = <<>>
    /\ stage # "data" => data = <<>>
    /\ stage = "data" => got = <<>>

\* The stream ends where the payload does.
EndIsTheEnd == input # "open" => sent = Len(payload) /\ chunk = <<>>

StreamInv ==
    /\ NothingLostOrReread /\ CompleteIsWhole
    /\ ReadsKnown /\ PartsInOrder /\ EndIsTheEnd

\* What TypeOK says of the sequences, one by one.
LEMMA StreamTypes ==
    ASSUME TypeOK
    PROVE  /\ chunk \in Bytes /\ got \in Bytes /\ line \in Bytes /\ header \in Bytes
           /\ data \in Bytes /\ payload \in Bytes /\ payload \in Payload
           /\ Len(payload) \in Nat /\ sent \in 0 .. Len(payload) /\ sent \in Nat
           /\ Len(chunk) \in Nat /\ Len(got) \in Nat /\ Len(header) \in Nat
  <1>1. /\ chunk \in Bytes /\ got \in Bytes /\ line \in Bytes /\ header \in Bytes
        /\ data \in Bytes
    BY DEF TypeOK, Bytes
  <1>2. payload \in Bytes /\ payload \in Payload /\ sent \in 0 .. Len(payload)
    BY StreamAssumption DEF TypeOK, Bytes
  <1>3. QED
    BY <1>1, <1>2, LenProperties DEF Bytes

-----------------------------------------------------------------------------
(* Sequences of bytes                                                      *)

\* Concatenation, which the provers expand element by element unless it has a
\* name.
Cat(a, b) == a \o b

\* Bytes that move from the chunk to the pending read, or to the data.
LEMMA MoveBytes ==
    ASSUME NEW l \in Bytes, NEW g \in Bytes, NEW b \in Bytes, NEW c \in Bytes
    PROVE  /\ Cat(Cat(Cat(l, Cat(g, b)), <<>>), c) = Cat(Cat(Cat(l, g), <<>>), Cat(b, c))
           /\ Cat(Cat(Cat(l, <<>>), Cat(g, b)), c) = Cat(Cat(Cat(l, <<>>), g), Cat(b, c))
  <1> USE DEF Bytes
  <1>1. /\ g \o b \in Bytes /\ l \o g \in Bytes /\ b \o c \in Bytes
        /\ l \o (g \o b) \in Bytes /\ (l \o g) \o b \in Bytes
    BY ConcatProperties
  <1>2. /\ (l \o (g \o b)) \o <<>> = l \o (g \o b) /\ (l \o g) \o <<>> = l \o g
        /\ l \o <<>> = l
    BY <1>1, ConcatEmptySeq
  <1>3. l \o (g \o b) = (l \o g) \o b
    BY ConcatAssociative, SMTT(30)
  <1>4. ((l \o g) \o b) \o c = (l \o g) \o (b \o c)
    BY <1>1, ConcatAssociative, SMTT(30)
  <1>5. QED
    BY <1>2, <1>3, <1>4 DEF Cat

\* A part that is complete moves behind the parts before it.
LEMMA MovePart ==
    ASSUME NEW l \in Bytes, NEW h \in Bytes, NEW g \in Bytes
    PROVE  /\ (<<>> \o <<>>) \o g = (g \o <<>>) \o <<>>
           /\ (l \o <<>>) \o g = ((l \o g) \o <<>>) \o <<>>
           /\ (l \o h) \o g = (l \o (h \o g)) \o <<>>
  <1> USE DEF Bytes
  <1>1. <<>> \in Bytes /\ l \o g \in Bytes /\ h \o g \in Bytes /\ l \o (h \o g) \in Bytes
    BY ConcatProperties, EmptySeq
  <1>2. /\ <<>> \o <<>> = <<>> /\ <<>> \o g = g /\ g \o <<>> = g /\ l \o <<>> = l
        /\ (l \o g) \o <<>> = l \o g
        /\ (l \o (h \o g)) \o <<>> = l \o (h \o g)
    BY <1>1, ConcatEmptySeq
  <1>3. (l \o h) \o g = l \o (h \o g)
    BY ConcatAssociative
  <1>4. QED
    BY <1>2, <1>3

\* A chunk, cut in two.
LEMMA CutChunk ==
    ASSUME NEW c \in Bytes, NEW n \in 0 .. Len(c)
    PROVE  /\ SubSeq(c, 1, n) \in Bytes /\ SubSeq(c, n + 1, Len(c)) \in Bytes
           /\ SubSeq(c, 1, n) \o SubSeq(c, n + 1, Len(c)) = c
           /\ Len(SubSeq(c, 1, n)) = n
  <1> USE DEF Bytes
  <1>1. Len(c) \in Nat /\ n \in Nat /\ n <= Len(c) /\ \A i \in 1 .. Len(c) : c[i] \in 0 .. 255
    BY LenProperties, ElementOfSeq
  <1>2. (\A i \in 1 .. n : c[i] \in 0 .. 255) /\ \A i \in n + 1 .. Len(c) : c[i] \in 0 .. 255
    BY <1>1
  <1>3. SubSeq(c, 1, n) \in Seq(0 .. 255) /\ Len(SubSeq(c, 1, n)) = n
    BY <1>1, <1>2, SubSeqProperties
  <1>4. SubSeq(c, n + 1, Len(c)) \in Seq(0 .. 255)
    BY <1>1, <1>2, SubSeqProperties
  <1>5. SubSeq(c, 1, n) \o SubSeq(c, n + 1, Len(c)) = SubSeq(c, 1, Len(c))
    <2>1. 1 \in 1 .. Len(c) + 1 /\ n \in 1 - 1 .. Len(c) /\ Len(c) \in n .. Len(c)
      BY <1>1
    <2>2. QED
      BY <2>1, ConcatAdjacentSubSeq
  <1>6. SubSeq(c, 1, Len(c)) = c
    BY SubSeqFull
  <1>7. QED
    BY <1>3, <1>4, <1>5, <1>6

\* The next n bytes of a payload.
LEMMA NextBytes ==
    ASSUME NEW p \in Bytes, NEW s \in 0 .. Len(p), NEW n \in Nat, s + n <= Len(p)
    PROVE  /\ SubSeq(p, s + 1, s + n) \in Bytes
           /\ SubSeq(p, 1, s) \o SubSeq(p, s + 1, s + n) = SubSeq(p, 1, s + n)
  <1> USE DEF Bytes
  <1>1. Len(p) \in Nat /\ \A i \in 1 .. Len(p) : p[i] \in 0 .. 255
    BY LenProperties, ElementOfSeq
  <1>2. \A i \in s + 1 .. s + n : p[i] \in 0 .. 255
    BY <1>1
  <1>3. SubSeq(p, s + 1, s + n) \in Seq(0 .. 255)
    BY <1>1, <1>2, SubSeqProperties
  <1>4. 1 \in 1 .. Len(p) + 1 /\ s \in 1 - 1 .. Len(p) /\ s + n \in s .. Len(p)
    BY <1>1
  <1>5. QED
    BY <1>3, <1>4, ConcatAdjacentSubSeq

-----------------------------------------------------------------------------
(* What is read next                                                       *)

\* The reads headers are made of.
LEMMA ReadTypes ==
    /\ Until \in Read
    /\ \A n \in Nat : Skip(n) \in Read
    /\ \A n \in Nat, of \in Of : Value(n, of) \in Read
  BY DEF Until, Skip, Value, Read, Of, Count

\* A number of at most four bytes.
LEMMA LittleType ==
    ASSUME NEW bytes \in Bytes
    PROVE  Little(bytes) \in Nat
  <1>1. Len(bytes) \in Nat /\ \A i \in 1 .. Len(bytes) : bytes[i] \in 0 .. 255
    BY LenProperties, ElementOfSeq DEF Bytes
  <1>2. /\ 1 <= Len(bytes) => bytes[1] \in Nat
        /\ 2 <= Len(bytes) => bytes[2] \in Nat
        /\ 3 <= Len(bytes) => bytes[3] \in Nat
        /\ 4 <= Len(bytes) => bytes[4] \in Nat
    <2>1. /\ 1 <= Len(bytes) => 1 \in 1 .. Len(bytes)
          /\ 2 <= Len(bytes) => 2 \in 1 .. Len(bytes)
          /\ 3 <= Len(bytes) => 3 \in 1 .. Len(bytes)
          /\ 4 <= Len(bytes) => 4 \in 1 .. Len(bytes)
      BY <1>1
    <2>2. \A n : n \in 0 .. 255 => n \in Nat
      OBVIOUS
    <2>3. QED
      BY <1>1, <2>1, <2>2, Zenon
  <1>3. PICK a \in Nat, b \in Nat, c \in Nat, d \in Nat :
            /\ a = IF 1 <= Len(bytes) THEN bytes[1] ELSE 0
            /\ b = IF 2 <= Len(bytes) THEN bytes[2] ELSE 0
            /\ c = IF 3 <= Len(bytes) THEN bytes[3] ELSE 0
            /\ d = IF 4 <= Len(bytes) THEN bytes[4] ELSE 0
    BY <1>1, <1>2
  <1>4. Little(bytes) = a + 256 * (b + 256 * (c + 256 * d))
    BY <1>3 DEF Little
  <1>5. QED
    BY <1>4

\* One and two reads in a row, and none.
LEMMA ShortReads ==
    ASSUME NEW a \in Read, NEW b \in Read
    PROVE  /\ <<>> \in Seq(Read)
           /\ <<a>> \in Seq(Read) /\ Len(<<a>>) = 1 /\ <<a>> # <<>>
           /\ <<a, b>> \in Seq(Read) /\ Len(<<a, b>>) = 2
  OBVIOUS

\* The pending read is one.
LEMMA FirstRead ==
    ASSUME NEW t \in Seq(Read), t # <<>>
    PROVE  t[1] \in Read /\ 0 <= t[1].count
  <1>1. 1 \in 1 .. Len(t)
    BY EmptySeq
  <1>2. t[1] \in Read
    BY <1>1, ElementOfSeq
  <1>3. QED
    BY <1>2 DEF Read

\* Reads, so many times over.
LEMMA RepeatType ==
    ASSUME NEW n \in Nat, NEW reads \in Seq(Read), Len(reads) \in Nat \ {0}
    PROVE  Repeat(n, reads) \in Seq(Read)
  <1> DEFINE l == Len(reads)
             m == n * l
  <1>1. l \in Nat \ {0} /\ m \in Nat
    OBVIOUS
  <1>2. \A i \in 1 .. m : ((i - 1) % l) + 1 \in 1 .. l
    BY <1>1
  <1>3. \A i \in 1 .. m : reads[((i - 1) % l) + 1] \in Read
    BY <1>2, ElementOfSeq
  <1>4. Repeat(n, reads) = [i \in 1 .. m |-> reads[((i - 1) % l) + 1]]
    BY DEF Repeat
  <1> HIDE DEF l, m
  <1>5. QED
    BY <1>1, <1>3, <1>4

\* Two reads, so many times over.
LEMMA RepeatTwoType ==
    ASSUME NEW n \in Nat, NEW a \in Read, NEW b \in Read
    PROVE  Repeat(n, <<a, b>>) \in Seq(Read)
  <1> DEFINE reads == <<a, b>>
  <1>1. reads \in Seq(Read) /\ Len(reads) \in Nat \ {0}
    BY ShortReads
  <1> HIDE DEF reads
  <1>2. Repeat(n, reads) \in Seq(Read)
    BY <1>1, RepeatType
  <1>3. QED
    BY <1>2 DEF reads

\* What a value calls for is reads.
LEMMA FollowingType ==
    ASSUME NEW of \in Of, NEW n \in Nat
    PROVE  Following(of, n) \in Seq(Read)
  <1>1. CountSize \in Nat
    BY StreamAssumption
  <1>2. /\ Until \in Read /\ Skip(n) \in Read /\ Skip(1) \in Read /\ Skip(CountSize) \in Read
        /\ Value(CountSize, "bytes") \in Read /\ Value(1, "player") \in Read
    BY <1>1, ReadTypes DEF Of
  <1>3. /\ <<>> \in Seq(Read) /\ <<Skip(n)>> \in Seq(Read) /\ <<Skip(1)>> \in Seq(Read)
    BY <1>2, ShortReads
  <1>4. Repeat(n, <<Until, Skip(CountSize)>>) \in Seq(Read)
    BY <1>2, RepeatTwoType
  <1>5. Repeat(n, <<Value(CountSize, "bytes"), Value(1, "player")>>) \in Seq(Read)
    BY <1>2, RepeatTwoType
  <1>6. QED
    BY <1>3, <1>4, <1>5 DEF Following

\* What a replay header starts with.
LEMMA HeaderReadsType == HeaderReads \in Seq(Read) /\ HeaderReads # <<>>
  <1>1. VersionGap \in Nat /\ MapGap \in Nat /\ CountSize \in Nat
    BY StreamAssumption
  <1>2. /\ Until \in Read /\ Skip(VersionGap) \in Read /\ Skip(MapGap) \in Read
        /\ Value(CountSize, "bytes") \in Read /\ Value(1, "players") \in Read
        /\ Skip(1) \in Read /\ Value(1, "armies") \in Read /\ Skip(CountSize) \in Read
    BY <1>1, ReadTypes DEF Of
  <1>3. HeaderReads \in Seq(Read)
    BY <1>2 DEF HeaderReads
  <1>4. Len(HeaderReads) = 10
    BY DEF HeaderReads
  <1>5. QED
    BY <1>3, <1>4

\* A poll takes no more than the chunk has, nor more than the read is to have.
LEMMA TakenFacts ==
    ASSUME StreamInv, chunk # <<>>, stage # "data" => ~IsComplete /\ Room > 0
    PROVE  /\ Taken \in 0 .. Len(chunk)
           /\ stage # "data" /\ Pending.upto = "count" => Len(got) + Taken <= Pending.count
  <1> DEFINE there == Lesser(Len(chunk), Room)
  <1>0. TypeOK /\ Len(chunk) \in Nat \ {0}
    BY StreamTypes, EmptySeq DEF StreamInv, NothingLostOrReread, Bytes
  <1>1. Room \in Int /\ Room > 0
    <2>1. LineLimit \in Nat /\ MaxSize \in Nat /\ CopySize \in Nat \ {0}
      BY StreamAssumption
    <2>2. stage \in {"type", "line", "header", "data"} /\ Len(got) \in Nat /\ Len(header) \in Nat
      BY <1>0, StreamTypes DEF TypeOK
    <2>3. CASE stage = "type"
      BY <2>2, <2>3 DEF Room
    <2>4. CASE stage = "line"
      BY <2>1, <2>2, <2>4 DEF Room
    <2>5. CASE stage = "header"
      BY <2>1, <2>2, <2>5 DEF Room
    <2>6. CASE stage = "data"
      BY <2>1, <2>6 DEF Room
    <2>7. QED
      BY <2>2, <2>3, <2>4, <2>5, <2>6
  <1>2. there \in 1 .. Len(chunk)
    BY <1>0, <1>1 DEF Lesser
  <1> HIDE DEF there
  <1>3. CASE stage = "data"
    <2>1. Taken = there
      BY <1>3 DEF Taken, there
    <2>2. QED
      BY <1>2, <1>3, <2>1
  <1>4. CASE stage # "data"
    <2>1. /\ Pending \in Read /\ Len(got) \in Nat
          /\ Pending.upto = "count" => Len(got) <= Pending.count
      <3>1. todo \in Seq(Read) /\ todo # <<>>
        BY <1>4 DEF StreamInv, ReadsKnown
      <3>2. 1 \in 1 .. Len(todo)
        BY <3>1, EmptySeq
      <3>3. QED
        BY <1>0, <1>4, <3>1, <3>2, ElementOfSeq, StreamTypes DEF StreamInv, ReadsKnown, Pending
    <2>2. CASE Pending.upto = "count"
      <3> DEFINE left == Pending.count - Len(got)
      <3>1. Taken = Lesser(there, left)
        BY <1>4, <2>2 DEF Taken, there
      <3>2. Pending.count \in Nat /\ Len(got) # Pending.count
        BY <1>4, <2>1, <2>2 DEF IsComplete, Read
      <3>3. left \in Nat /\ left >= 1 /\ Len(got) + left = Pending.count
        BY <2>1, <2>2, <3>2
      <3> HIDE DEF left
      <3>4. QED
        BY <1>0, <1>2, <2>1, <3>1, <3>2, <3>3 DEF Lesser
    <2>3. CASE Pending.upto = "nul"
      <3> DEFINE nuls == {i \in 1 .. there : chunk[i] = 0}
      <3>1. Taken = IF nuls = {} THEN there
                    ELSE CHOOSE i \in nuls : \A j \in nuls : i <= j
        BY <1>4, <2>3 DEF Taken, there
      <3>2. nuls \in SUBSET Nat
        BY <1>0, <1>2
      <3>3. nuls # {} => \E i \in nuls : \A j \in nuls : i <= j
        BY <3>2, LeastNumber
      <3>4. nuls # {} => Taken \in nuls
        BY <3>1, <3>3
      <3>5. \A i \in nuls : i \in 1 .. Len(chunk)
        BY <1>0, <1>2
      <3>6. CASE nuls = {}
        <4>1. Taken = there
          BY <3>1, <3>6
        <4>2. QED
          BY <1>0, <1>2, <2>3, <4>1
      <3>7. CASE nuls # {}
        <4>1. Taken \in 1 .. Len(chunk)
          BY <3>4, <3>5, <3>7
        <4>2. QED
          BY <1>0, <1>2, <2>3, <4>1
      <3>8. QED
        BY <3>6, <3>7
    <2>4. QED
      BY <2>1, <2>2, <2>3 DEF Read, Count
  <1>5. QED
    BY <1>3, <1>4

-----------------------------------------------------------------------------
(* The steps                                                               *)

\* Everything read so far, in the order of NothingLostOrReread.
LEMMA ReadSoFar ==
    ASSUME StreamInv
    PROVE  /\ TypeOK
           /\ (((line \o header) \o got) \o data) \o chunk = SubSeq(payload, 1, sent)
  BY DEF StreamInv, NothingLostOrReread

\* Nothing has been sent.
LEMMA InitStreamInv == Init => StreamInv
  <1> SUFFICES ASSUME Init PROVE StreamInv
    OBVIOUS
  <1> USE DEF Init
  <1>1. <<>> \in Seq(0 .. 255) /\ Len(<<>>) = 0
    BY EmptySeq
  <1>2. payload \in Seq(0 .. 255) /\ Len(payload) \in Nat
    BY StreamAssumption, LenProperties
  <1>3. Skip(2) \in Read /\ Skip(2).upto = "count" /\ Skip(2).count = 2
    BY ReadTypes DEF Skip
  <1>4. todo \in Seq(Read) /\ Len(todo) = 1 /\ todo # <<>> /\ Pending = Skip(2)
    BY <1>3, ShortReads DEF Pending
  <1>5. TypeOK
    <2>1. \A i \in DOMAIN todo : todo[i].upto \in {"nul", "count"} /\ todo[i].count \in Nat
      BY <1>4, ElementOfSeq, LenProperties DEF Read, Count
    <2>2. {chunk, got, line, header, data} \subseteq Seq(0 .. 255)
      BY <1>1
    <2>3. QED
      BY <1>2, <2>1, <2>2 DEF TypeOK
  <1>6. NothingLostOrReread
    <2>1. <<>> \o <<>> = <<>>
      BY <1>1, ConcatEmptySeq
    <2>2. SubSeq(payload, 1, 0) = <<>>
      BY SubSeqEmpty
    <2>3. QED
      BY <1>5, <2>1, <2>2 DEF NothingLostOrReread
  <1>7. ReadsKnown
    BY <1>1, <1>3, <1>4 DEF ReadsKnown
  <1>8. CompleteIsWhole /\ PartsInOrder /\ EndIsTheEnd
    BY DEF CompleteIsWhole, PartsInOrder, EndIsTheEnd
  <1>9. QED
    BY <1>6, <1>7, <1>8 DEF StreamInv

\* A message arrives once the one before it has been read.
LEMMA FrameKeeps ==
    ASSUME StreamInv, NEW n \in Nat, Frame(n)
    PROVE  StreamInv'
  <1>1. /\ result = "reading" /\ chunk = <<>> /\ input = "open" /\ sent + n <= Len(payload)
        /\ chunk' = SubSeq(payload, sent + 1, sent + n)
        /\ sent' = sent + n
        /\ UNCHANGED <<payload, input, stage, todo, got, line, header, data, result>>
    BY DEF Frame, Starved, parserVars
  <1>2. TypeOK
    BY ReadSoFar
  <1> DEFINE all == ((line \o header) \o got) \o data
  <1>3. all \in Bytes /\ all \o <<>> = all
    <2>1. line \o header \in Bytes
      BY <1>2, StreamTypes, ConcatProperties DEF Bytes
    <2>2. (line \o header) \o got \in Bytes
      BY <1>2, <2>1, StreamTypes, ConcatProperties DEF Bytes
    <2>3. all \in Bytes
      BY <1>2, <2>2, StreamTypes, ConcatProperties DEF Bytes
    <2> HIDE DEF all
    <2>4. QED
      BY <2>3, ConcatEmptySeq DEF Bytes
  <1>4. /\ chunk' \in Bytes
        /\ SubSeq(payload, 1, sent) \o chunk' = SubSeq(payload, 1, sent')
    BY <1>1, <1>2, StreamTypes, NextBytes
  <1>5. all \o chunk' = SubSeq(payload, 1, sent')
    <2>1. all \o chunk = SubSeq(payload, 1, sent)
      BY ReadSoFar
    <2> HIDE DEF all
    <2>2. all = SubSeq(payload, 1, sent)
      BY <1>1, <1>3, <2>1
    <2>3. QED
      BY <1>4, <2>2
  <1>6. TypeOK'
    <2>1. sent' \in 0 .. Len(payload)
      BY <1>1, <1>2, StreamTypes
    <2>2. QED
      BY <1>1, <1>2, <1>4, <2>1 DEF TypeOK, Bytes
  <1>7. NothingLostOrReread'
    BY <1>1, <1>5, <1>6 DEF NothingLostOrReread
  <1>8. (CompleteIsWhole /\ ReadsKnown /\ PartsInOrder /\ EndIsTheEnd)'
    BY <1>1 DEF StreamInv, CompleteIsWhole, ReadsKnown, Pending, PartsInOrder, EndIsTheEnd
  <1>9. QED
    BY <1>7, <1>8 DEF StreamInv

\* The stream ends, or reading it does: the bytes stay where they are.
LEMMA EndKeeps ==
    ASSUME StreamInv,
           \/ \E how \in {"closed", "failed"} : Close(how)
           \/ RunShort \/ TimeOut \/ UNCHANGED vars
    PROVE  StreamInv'
  <1>1. UNCHANGED <<payload, sent, chunk, stage, todo, got, line, header, data>>
    BY DEF Close, RunShort, TimeOut, vars, streamVars, parserVars
  <1>2. TypeOK
    BY ReadSoFar
  <1>3. TypeOK'
    <2>1. input' \in {"open", "closed", "failed"}
      BY <1>2, ZenonT(60) DEF TypeOK, Close, RunShort, TimeOut, vars, streamVars
    <2>2. result' \in {"reading", "reader", "done", "no data", "bad data", "io error",
                       "timed out"}
      <3>1. CASE RunShort
        <4>1. stage \in {"type", "line", "header", "data"} /\ result' = Shortage
          BY <1>2, <3>1 DEF TypeOK, RunShort
        <4>2. QED
          BY <4>1 DEF Shortage
      <3>2. CASE TimeOut
        BY <3>2 DEF TimeOut
      <3>3. CASE result' = result
        BY <1>2, <3>3 DEF TypeOK
      <3>4. QED
        BY <3>1, <3>2, <3>3 DEF Close, vars, parserVars
    <2>3. QED
      BY <1>1, <1>2, <2>1, <2>2 DEF TypeOK
  <1>4. NothingLostOrReread'
    BY <1>1, <1>3 DEF StreamInv, NothingLostOrReread
  <1>5. ReadsKnown' /\ PartsInOrder'
    BY <1>1 DEF StreamInv, ReadsKnown, Pending, PartsInOrder
  <1>6. EndIsTheEnd'
    BY <1>1 DEF StreamInv, EndIsTheEnd, Close, Starved, RunShort, TimeOut, vars, streamVars
  <1>7. CompleteIsWhole'
    <2>1. CASE RunShort
      <3> SUFFICES ASSUME result' = "done"
                   PROVE  (line \o header) \o data = payload /\ input' = "closed"
        BY <1>1 DEF CompleteIsWhole
      <3>1. stage = "data" /\ input = "closed" /\ input' = input /\ Starved
        BY <1>2, <2>1 DEF RunShort, Shortage, TypeOK, streamVars
      <3>2. chunk = <<>> /\ got = <<>> /\ sent = Len(payload)
        BY <3>1 DEF Starved, StreamInv, PartsInOrder, EndIsTheEnd
      <3> DEFINE parts == line \o header
                 all == parts \o data
      <3>3. parts \in Bytes
        BY <1>2, StreamTypes, ConcatProperties DEF Bytes
      <3>4. all \in Bytes /\ parts \o <<>> = parts
        <4> HIDE DEF parts
        <4>1. QED
          BY <1>2, <3>3, StreamTypes, ConcatProperties, ConcatEmptySeq DEF Bytes
      <3>5. all \o <<>> = all
        <4> HIDE DEF all
        <4>1. QED
          BY <3>4, ConcatEmptySeq DEF Bytes
      <3>6. SubSeq(payload, 1, Len(payload)) = payload
        BY <1>2, StreamTypes, SubSeqFull DEF Bytes
      <3>7. ((parts \o got) \o data) \o chunk = SubSeq(payload, 1, sent)
        BY ReadSoFar
      <3> HIDE DEF parts
      <3>8. all = payload
        BY <3>2, <3>4, <3>5, <3>6, <3>7
      <3>9. QED
        BY <3>1, <3>8 DEF parts
    <2>2. CASE ~RunShort
      <3>1. \/ UNCHANGED <<input, result>>
            \/ result' # "done"
        BY <2>2 DEF Close, TimeOut, vars, streamVars, parserVars, Starved
      <3>2. QED
        BY <1>1, <3>1 DEF StreamInv, CompleteIsWhole
    <2>3. QED
      BY <2>1, <2>2
  <1>8. QED
    BY <1>4, <1>5, <1>6, <1>7 DEF StreamInv

\* A poll moves bytes from the chunk to the pending read, or to the data.
LEMMA ConsumeKeeps ==
    ASSUME StreamInv, Consume
    PROVE  StreamInv'
  <1> DEFINE bytes == SubSeq(chunk, 1, Taken)
             rest == SubSeq(chunk, Taken + 1, Len(chunk))
  <1>1. /\ result = "reading" /\ chunk # <<>> /\ (stage # "data" => ~IsComplete /\ Room > 0)
        /\ chunk' = rest
        /\ IF stage = "data" THEN data' = data \o bytes /\ got' = got
                             ELSE got' = got \o bytes /\ data' = data
        /\ UNCHANGED <<payload, sent, input, stage, todo, line, header, result>>
    BY DEF Consume
  <1>2. TypeOK /\ chunk \in Bytes /\ got \in Bytes /\ line \in Bytes /\ header \in Bytes
        /\ data \in Bytes
    BY ReadSoFar, StreamTypes
  <1>3. /\ Taken \in 0 .. Len(chunk)
        /\ stage # "data" /\ Pending.upto = "count" => Len(got) + Taken <= Pending.count
    BY <1>1, TakenFacts
  <1>4. PICK b \in Bytes, r \in Bytes :
            b = bytes /\ r = rest /\ Cat(b, r) = chunk /\ Len(b) = Taken
    BY <1>2, <1>3, CutChunk DEF Cat
  <1>5. PICK parts \in Bytes : parts = line \o header
    BY <1>2, ConcatProperties DEF Bytes
  <1>6. Cat(Cat(Cat(parts, got), data), Cat(b, r)) = SubSeq(payload, 1, sent)
    BY <1>4, <1>5, ReadSoFar DEF Cat
  <1>7. /\ chunk' = r
        /\ IF stage = "data" THEN data' = Cat(data, b) /\ got' = got
                             ELSE got' = Cat(got, b) /\ data' = data
    BY <1>1, <1>4 DEF Cat
  <1>8. /\ Cat(got, b) \in Bytes /\ Cat(data, b) \in Bytes
        /\ Len(Cat(got, b)) = Len(got) + Taken
    <2>1. \A x \in Bytes : x \o b \in Bytes /\ Len(x \o b) = Len(x) + Len(b)
      BY ConcatProperties, SMTT(30) DEF Bytes
    <2>2. QED
      BY <1>2, <1>4, <2>1, Zenon DEF Cat
  <1>9. /\ got' \in Bytes /\ data' \in Bytes
        /\ Cat(Cat(Cat(parts, got'), data'), chunk') = SubSeq(payload, 1, sent)
        /\ stage # "data" /\ Pending.upto = "count" => Len(got') <= Pending.count
        /\ stage # "data" => data' = <<>>
        /\ stage = "data" => got' = <<>>
    <2>1. CASE stage = "data"
      <3>1. got = <<>>
        BY <2>1 DEF StreamInv, PartsInOrder
      <3>2. Cat(Cat(Cat(parts, <<>>), Cat(data, b)), r)
                = Cat(Cat(Cat(parts, <<>>), data), Cat(b, r))
        BY <1>2, MoveBytes
      <3>3. QED
        BY <1>2, <1>6, <1>7, <1>8, <2>1, <3>1, <3>2
    <2>2. CASE stage # "data"
      <3>1. data = <<>>
        BY <2>2 DEF StreamInv, PartsInOrder
      <3>2. Cat(Cat(Cat(parts, Cat(got, b)), <<>>), r)
                = Cat(Cat(Cat(parts, got), <<>>), Cat(b, r))
        BY <1>2, MoveBytes
      <3>3. QED
        BY <1>2, <1>3, <1>6, <1>7, <1>8, <2>2, <3>1, <3>2
    <2>3. QED
      BY <2>1, <2>2
  <1>10. TypeOK'
    <2>1. {chunk', got', line, header, data'} \subseteq Seq(0 .. 255)
      BY <1>2, <1>7, <1>9 DEF Bytes
    <2>2. QED
      BY <1>1, <1>2, <2>1 DEF TypeOK
  <1>11. NothingLostOrReread'
    BY <1>1, <1>5, <1>9, <1>10 DEF NothingLostOrReread, Cat
  <1>12. ReadsKnown'
    <2>1. Pending' = Pending
      BY <1>1 DEF Pending
    <2>2. QED
      BY <1>1, <1>9, <2>1 DEF StreamInv, ReadsKnown
  <1>13. PartsInOrder'
    BY <1>1, <1>9 DEF StreamInv, PartsInOrder
  <1>14. CompleteIsWhole' /\ EndIsTheEnd'
    BY <1>1 DEF StreamInv, CompleteIsWhole, EndIsTheEnd
  <1>15. QED
    BY <1>11, <1>12, <1>13, <1>14 DEF StreamInv

\* A parser that starts the next part leaves every byte in its place: the parts
\* before, and what the chunk still has.
LEMMA NextPart ==
    ASSUME StreamInv, result = "reading", result' # "done",
           result' \in {"reading", "reader", "bad data"},
           UNCHANGED streamVars, data' = data,
           got' = <<>>, line' \in Bytes, header' \in Bytes,
           ((line' \o header') \o <<>>) \o data = ((line \o header) \o got) \o data,
           todo' \in Seq(Read), stage' \in {"type", "line", "header", "data"},
           stage' # "data" => todo' # <<>>,
           stage # "data", stage' # "type",
           stage' = "line" => header' = <<>>
    PROVE  StreamInv'
  <1>1. TypeOK /\ (((line \o header) \o got) \o data) \o chunk = SubSeq(payload, 1, sent)
    BY ReadSoFar
  <1>2. UNCHANGED <<payload, sent, chunk, input>>
    BY DEF streamVars
  <1>3. <<>> \in Seq(0 .. 255) /\ Len(<<>>) = 0
    BY EmptySeq
  <1>4. \A i \in DOMAIN todo' : todo'[i].upto \in {"nul", "count"} /\ todo'[i].count \in Nat
    <2>1. PICK t \in Seq(Read) : t = todo'
      OBVIOUS
    <2>2. DOMAIN t = 1 .. Len(t) /\ \A i \in 1 .. Len(t) : t[i] \in Read
      BY LenProperties, ElementOfSeq
    <2>3. QED
      BY <2>1, <2>2 DEF Read, Count
  <1>5. {chunk', got', line', header', data'} \subseteq Seq(0 .. 255)
    BY <1>1, <1>2, <1>3, StreamTypes DEF Bytes
  <1>6. TypeOK'
    BY <1>1, <1>2, <1>4, <1>5 DEF TypeOK
  <1>7. NothingLostOrReread'
    <2>1. (((line' \o header') \o got') \o data') \o chunk' = SubSeq(payload', 1, sent')
      BY <1>1, <1>2
    <2>2. QED
      BY <1>6, <2>1 DEF NothingLostOrReread
  <1>8. ReadsKnown'
    <2>1. PICK t \in Seq(Read) : t = todo'
      OBVIOUS
    <2>2. t # <<>> => 0 <= t[1].count
      BY FirstRead
    <2>3. Pending' = t[1]
      BY <2>1 DEF Pending
    <2>4. stage' # "data" => t # <<>> /\ 0 <= t[1].count
      BY <2>1, <2>2
    <2>5. Len(got') = 0
      BY <1>3
    <2>6. stage' # "data" => t # <<>> /\ Len(got') <= t[1].count
      BY <2>4, <2>5
    <2>7. QED
      BY <2>1, <2>3, <2>6 DEF ReadsKnown
  <1>9. PartsInOrder'
    BY DEF StreamInv, PartsInOrder
  <1>10. EndIsTheEnd' /\ CompleteIsWhole'
    BY <1>2 DEF StreamInv, EndIsTheEnd, CompleteIsWhole
  <1>11. QED
    BY <1>7, <1>8, <1>9, <1>10 DEF StreamInv

\* A parser that refuses what it has read leaves everything as it is.
LEMMA BadDataKeeps ==
    ASSUME StreamInv, result' = "bad data",
           UNCHANGED <<streamVars, stage, todo, got, line, header, data>>
    PROVE  StreamInv'
  <1>1. TypeOK'
    <2>1. TypeOK
      BY ReadSoFar
    <2>2. QED
      BY <2>1 DEF TypeOK, streamVars
  <1>2. QED
    BY <1>1 DEF StreamInv, NothingLostOrReread, CompleteIsWhole, ReadsKnown, Pending,
                PartsInOrder, EndIsTheEnd, streamVars

\* Both lines of the connection header.
LEMMA LinesKeep ==
    ASSUME StreamInv, ReadType \/ ReadLine
    PROVE  StreamInv'
  <1> TypeOK
    BY ReadSoFar
  <1>1. /\ <<>> \in Bytes /\ line \in Bytes /\ header \in Bytes /\ got \in Bytes
        /\ line \o got \in Bytes
    BY StreamTypes, ConcatProperties, EmptySeq DEF Bytes
  <1>2. Until \in Read /\ <<Until>> \in Seq(Read) /\ <<Until>> # <<>>
    BY ReadTypes, ShortReads
  <1>3. CASE result' = "bad data"
    <2>1. UNCHANGED <<streamVars, stage, todo, got, line, header, data>>
      BY <1>3 DEF ReadType, ReadLine, Complete
    <2>2. QED
      BY <1>3, <2>1, BadDataKeeps
  <1>4. CASE ReadType /\ result' # "bad data"
    <2>1. /\ result = "reading" /\ result' = result /\ stage = "type"
          /\ stage' = "line" /\ todo' = <<Until>> /\ line' = got /\ got' = <<>>
          /\ UNCHANGED <<streamVars, header, data>>
      BY <1>4 DEF ReadType, Complete
    <2>2. line = <<>> /\ header = <<>>
      BY <2>1 DEF StreamInv, PartsInOrder
    <2>3. ((line' \o header') \o <<>>) \o data = ((line \o header) \o got) \o data
      BY <1>1, <2>1, <2>2, MovePart
    <2>4. QED
      BY <1>1, <1>2, <2>1, <2>2, <2>3, NextPart
  <1>5. CASE ReadLine /\ result' # "bad data"
    <2>1. /\ result = "reading" /\ result' \in {"reading", "reader"} /\ stage = "line"
          /\ line' = line \o got /\ got' = <<>>
          /\ \/ stage' = "header" /\ todo' = HeaderReads
             \/ stage' = stage /\ todo' = todo
          /\ UNCHANGED <<streamVars, header, data>>
      BY <1>5 DEF ReadLine, Complete
    <2>2. header = <<>>
      BY <2>1 DEF StreamInv, PartsInOrder
    <2>3. ((line' \o header') \o <<>>) \o data = ((line \o header) \o got) \o data
      BY <1>1, <2>1, <2>2, MovePart
    <2>4. todo' \in Seq(Read) /\ todo' # <<>>
      BY <2>1, HeaderReadsType DEF StreamInv, ReadsKnown
    <2>5. QED
      BY <1>1, <2>1, <2>2, <2>3, <2>4, NextPart
  <1>6. QED
    BY <1>3, <1>4, <1>5

\* A part of the replay header, which says what comes next.
LEMMA FieldKeeps ==
    ASSUME StreamInv, ReadField
    PROVE  StreamInv'
  <1> TypeOK
    BY ReadSoFar
  <1>1. /\ result = "reading" /\ result' = result /\ stage = "header"
        /\ header' = header \o got /\ got' = <<>>
        /\ todo' = Following(Pending.of, Little(got)) \o Tail(todo)
        /\ stage' = IF todo' = <<>> THEN "data" ELSE "header"
        /\ UNCHANGED <<streamVars, line, data>>
    BY DEF ReadField, Complete
  <1>2. line \in Bytes /\ header \in Bytes /\ got \in Bytes /\ header \o got \in Bytes
    BY StreamTypes, ConcatProperties DEF Bytes
  <1>3. todo \in Seq(Read) /\ todo # <<>>
    BY <1>1 DEF StreamInv, ReadsKnown
  <1>4. Pending \in Read /\ Tail(todo) \in Seq(Read)
    <2>1. 1 \in 1 .. Len(todo)
      BY <1>3, EmptySeq
    <2>2. QED
      BY <1>3, <2>1, ElementOfSeq, HeadTailProperties DEF Pending
  <1>5. todo' \in Seq(Read)
    <2>1. Pending.of \in Of /\ Little(got) \in Nat
      BY <1>2, <1>4, LittleType DEF Read
    <2>2. Following(Pending.of, Little(got)) \in Seq(Read)
      BY <2>1, FollowingType
    <2>3. QED
      BY <1>1, <1>4, <2>2, ConcatProperties
  <1>6. ((line' \o header') \o <<>>) \o data = ((line \o header) \o got) \o data
    BY <1>1, <1>2, MovePart
  <1>7. QED
    BY <1>1, <1>2, <1>5, <1>6, NextPart

\* The invariant holds forever.
LEMMA StreamInvariant == Spec => []StreamInv
  <1>1. StreamInv /\ [Next]_vars => StreamInv'
    <2> SUFFICES ASSUME StreamInv, [Next]_vars PROVE StreamInv'
      OBVIOUS
    <2>1. ASSUME NEW n \in 0 .. Len(payload), Frame(n) PROVE StreamInv'
      <3>1. n \in Nat
        BY ReadSoFar, StreamTypes
      <3>2. QED
        BY <2>1, <3>1, FrameKeeps
    <2>2. QED
      BY <2>1, EndKeeps, ConsumeKeeps, LinesKeep, FieldKeeps DEF Next, Ended
  <1>2. QED
    BY InitStreamInv, <1>1, PTL DEF Spec

-----------------------------------------------------------------------------
(* What reading a connection promises                                      *)

\* take(), read_until and read_exact leave in the stream what they do not
\* need, and the next parser of the connection starts there.
THEOREM BytesAreReadOnce == Spec => []NothingLostOrReread
  BY StreamInvariant, PTL DEF StreamInv

\* read_data returns Ok only at the normal end of the stream, so a replay that
\* is complete has all that the client sent.
THEOREM CompleteReplays == Spec => []CompleteIsWhole
  BY StreamInvariant, PTL DEF StreamInv
=============================================================================
