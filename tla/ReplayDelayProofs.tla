-------------------------- MODULE ReplayDelayProofs --------------------------
(***************************************************************************)
(* Proofs about ReplayDelay, for any delay and interval and any amount of  *)
(* data: no byte is published before its time, and the strategy has seen   *)
(* everything that was published.                                          *)
(***************************************************************************)
EXTENDS ReplayDelay, SequenceTheorems, TLAPS

-----------------------------------------------------------------------------
(* The inductive invariant                                                 *)

\* The queue holds positions of the data, the oldest of which is published.
QueueIsPublished ==
    /\ \A i \in 1 .. Len(queue) : queue[i] <= Len(age)
    /\ queue = <<>> => delayed = 0 /\ headStart = 0
    /\ queue # <<>> => delayed = queue[1]

\* Until the queue is full nothing has left it.
FirstRoundIsKept ==
    Len(queue) < HistorySize => headStart = delayed

\* Each entry has been followed by rounds that are Sleep apart or further, and
\* the bytes it counts had arrived when it was pushed.
QueueAges ==
    \A i \in 1 .. Len(queue) : \A j \in 1 .. queue[i] :
        age[j] = Delay \/ (Len(queue) - i) * Sleep + slept <= age[j]

\* What the last round told the strategy, or left as the round before told it.
ToldWhatIsDelayed == told[2] = delayed /\ (open => prev[2] = delayed)

DelayInv ==
    /\ TypeOK /\ ToldWhatIsDelayed
    /\ open => QueueIsPublished /\ FirstRoundIsKept /\ QueueAges

-----------------------------------------------------------------------------
(* The queue                                                               *)

\* A whole number of intervals that is not shorter than the delay.
LEMMA HistoryIsLongEnough ==
    /\ HistorySize \in Nat \ {0}
    /\ (HistorySize - 1) * Sleep >= Delay
  <1> DEFINE q == (Delay + Sleep - 1) \div Sleep
  <1>1. Delay \in Nat /\ Delay >= 1 /\ Sleep \in Nat /\ Sleep >= 1
    BY DelayAssumption
  <1>2. q \in Nat /\ Sleep * q <= Delay + Sleep - 1 /\ Delay + Sleep - 1 < Sleep * (q + 1)
    BY <1>1
  <1>3. HistorySize = q + 1
    BY DEF HistorySize
  <1> HIDE DEF q
  <1>4. HistorySize \in Nat \ {0} /\ HistorySize - 1 = q
    BY <1>2, <1>3
  <1>5. Sleep * (q + 1) = Sleep * q + Sleep
    BY <1>1, <1>2
  <1>6. Sleep * q >= Delay
    BY <1>1, <1>2, <1>5
  <1>7. q * Sleep >= Delay
    BY <1>1, <1>2, <1>6
  <1>8. QED
    BY <1>4, <1>7

\* push_and_get_delayed: the new position is the last one, and the others have
\* moved up by one if the queue was full.
LEMMA PushedFacts ==
    ASSUME TypeOK, NEW position \in Nat
    PROVE  LET q == Pushed(position)
           IN  /\ q \in Seq(Nat) /\ Len(q) \in 1 .. HistorySize /\ q # <<>>
               /\ q[Len(q)] = position
               /\ \E k \in {0, 1} :
                    /\ Len(q) = Len(queue) + 1 - k
                    /\ \A i \in 1 .. (Len(q) - 1) : q[i] = queue[i + k] /\ i + k \in 1 .. Len(queue)
                    /\ k = 1 => Len(q) = HistorySize
  <1> DEFINE longer == Append(queue, position)
             n == Len(queue)
  <1>1. queue \in Seq(Nat) /\ n \in Nat /\ n <= HistorySize /\ HistorySize \in Nat \ {0}
    BY HistoryIsLongEnough DEF TypeOK
  <1>2. /\ longer \in Seq(Nat) /\ longer # <<>> /\ Len(longer) = n + 1
        /\ \A i \in 1 .. n : longer[i] = queue[i]
        /\ longer[n + 1] = position
    BY <1>1, AppendProperties
  <1> HIDE DEF longer, n
  <1>3. CASE n + 1 <= HistorySize
    <2>1. Pushed(position) = longer
      BY <1>1, <1>2, <1>3 DEF Pushed, longer
    <2>2. QED
      BY <1>1, <1>2, <1>3, <2>1 DEF n
  <1>4. CASE n + 1 > HistorySize
    <2> DEFINE t == Tail(longer)
    <2>1. Pushed(position) = t
      BY <1>1, <1>2, <1>4 DEF Pushed, longer
    <2>2. t \in Seq(Nat) /\ Len(t) = n /\ \A i \in 1 .. Len(t) : t[i] = longer[i + 1]
      BY <1>1, <1>2, HeadTailProperties
    <2> HIDE DEF t
    <2>3. n = HistorySize /\ n >= 1
      BY <1>1, <1>4
    <2>4. t # <<>> /\ t[n] = position
      BY <1>1, <1>2, <2>2, <2>3, EmptySeq
    <2>5. \A i \in 1 .. (Len(t) - 1) : t[i] = queue[i + 1] /\ i + 1 \in 1 .. n
      <3> SUFFICES ASSUME NEW i \in 1 .. (n - 1)
                   PROVE  t[i] = queue[i + 1] /\ i + 1 \in 1 .. n
        BY <2>2
      <3>1. i \in 1 .. n /\ i + 1 \in 1 .. n
        BY <1>1
      <3>2. QED
        BY <1>2, <2>2, <3>1
    <2>6. QED
      BY <1>1, <2>1, <2>2, <2>3, <2>4, <2>5 DEF n
  <1>5. QED
    BY <1>1, <1>3, <1>4

-----------------------------------------------------------------------------
(* The steps                                                               *)

\* What the types say of the ages.
LEMMA AgeTypes ==
    ASSUME TypeOK
    PROVE  /\ age \in Seq(0 .. Delay) /\ Len(age) \in Nat /\ Delay \in Nat /\ Sleep \in Nat \ {0}
           /\ \A j \in 1 .. Len(age) : age[j] \in 0 .. Delay
           /\ queue \in Seq(Nat) /\ Len(queue) \in Nat
           /\ \A i \in 1 .. Len(queue) : queue[i] \in Nat
           /\ slept \in 0 .. Sleep /\ slept \in Nat
  <1>1. age \in Seq(0 .. Delay) /\ queue \in Seq(Nat) /\ slept \in 0 .. Sleep
    BY DEF TypeOK
  <1>2. Delay \in Nat /\ Sleep \in Nat \ {0}
    BY DelayAssumption
  <1>3. QED
    BY <1>1, <1>2, LenProperties, ElementOfSeq

\* Nothing has been received or published.
LEMMA InitDelayInv == Init => DelayInv
  <1> SUFFICES ASSUME Init PROVE DelayInv
    OBVIOUS
  <1>1. <<>> \in Seq(Nat) /\ <<>> \in Seq(0 .. Delay) /\ Len(<<>>) = 0
    BY EmptySeq
  <1>2. Sleep \in 0 .. Sleep /\ 0 <= HistorySize
    BY DelayAssumption, HistoryIsLongEnough
  <1>3. TypeOK
    BY <1>1, <1>2 DEF Init, TypeOK
  <1>4. QueueIsPublished /\ FirstRoundIsKept /\ QueueAges /\ ToldWhatIsDelayed
    BY <1>1
    DEF Init, QueueIsPublished, FirstRoundIsKept, QueueAges, ToldWhatIsDelayed
  <1>5. QED
    BY <1>3, <1>4 DEF DelayInv

\* Time passes for the bytes at least as fast as for the interval.
LEMMA TickKeeps == DelayInv /\ Tick => DelayInv'
  <1> SUFFICES ASSUME DelayInv, Tick PROVE DelayInv'
    OBVIOUS
  <1> TypeOK
    BY DEF DelayInv
  <1> DEFINE older == [i \in 1 .. Len(age) |-> Capped(age[i] + 1, Delay)]
  <1>1. /\ age' = older /\ slept' = Capped(slept + 1, Sleep)
        /\ UNCHANGED <<open, queue, prev, delayed, told, headStart>>
    BY DEF Tick
  <1>2. older \in Seq(0 .. Delay) /\ Len(older) = Len(age)
    <2>1. \A i \in 1 .. Len(age) : Capped(age[i] + 1, Delay) \in 0 .. Delay
      BY AgeTypes, SMTT(30) DEF Capped
    <2>2. QED
      BY <2>1, AgeTypes
  <1>3. \A i \in 1 .. Len(age) : age'[i] = Capped(age[i] + 1, Delay)
    BY <1>1
  <1>4. slept' \in 0 .. Sleep /\ slept' <= slept + 1
    BY <1>1, AgeTypes DEF Capped
  <1> HIDE DEF older
  <1>5. age' \in Seq(0 .. Delay) /\ Len(age') = Len(age)
    BY <1>1, <1>2
  <1>6. TypeOK'
    BY <1>1, <1>4, <1>5 DEF TypeOK
  <1>7. ToldWhatIsDelayed'
    BY <1>1 DEF DelayInv, ToldWhatIsDelayed
  <1>8. ASSUME open PROVE (QueueIsPublished /\ FirstRoundIsKept)'
    BY <1>1, <1>5, <1>8 DEF DelayInv, QueueIsPublished, FirstRoundIsKept
  <1>9. ASSUME open PROVE QueueAges'
    <2> SUFFICES ASSUME NEW i \in 1 .. Len(queue), NEW j \in 1 .. queue[i]
                 PROVE  age'[j] = Delay \/ (Len(queue) - i) * Sleep + slept' <= age'[j]
      BY <1>1 DEF QueueAges
    <2> DEFINE m == (Len(queue) - i) * Sleep
    <2>1. m \in Int
      BY AgeTypes
    <2>2. j \in 1 .. Len(age)
      <3>1. queue[i] \in Nat /\ queue[i] <= Len(age)
        BY <1>9, AgeTypes DEF DelayInv, QueueIsPublished
      <3>2. QED
        BY <3>1, AgeTypes
    <2>3. age[j] = Delay \/ m + slept <= age[j]
      BY <1>9 DEF DelayInv, QueueAges
    <2> HIDE DEF m
    <2>4. age[j] \in 0 .. Delay /\ age'[j] = Capped(age[j] + 1, Delay)
      BY <1>3, <2>2, AgeTypes
    <2>5. age'[j] = Delay \/ m + slept' <= age'[j]
      <3> PICK a \in 0 .. Delay : a = age[j]
        BY <2>4
      <3>1. age'[j] = IF a + 1 >= Delay THEN Delay ELSE a + 1
        BY <2>4 DEF Capped
      <3>2. slept' \in Int /\ slept \in Int /\ slept' <= slept + 1 /\ a \in Int /\ Delay \in Int
        BY <1>4, AgeTypes
      <3>3. ASSUME a + 1 < Delay PROVE m + slept' <= a + 1
        BY <2>1, <2>3, <3>2, <3>3, SMTT(30)
      <3>4. QED
        BY <3>1, <3>2, <3>3
    <2>6. QED
      BY <2>5 DEF m
  <1>10. QED
    BY <1>1, <1>6, <1>7, <1>8, <1>9 DEF DelayInv

\* New bytes are in no entry of the queue.
LEMMA ReadKeeps == DelayInv /\ ReadData => DelayInv'
  <1> SUFFICES ASSUME DelayInv, ReadData PROVE DelayInv'
    OBVIOUS
  <1> TypeOK
    BY DEF DelayInv
  <1>1. /\ open /\ age' = Append(age, 0)
        /\ UNCHANGED <<open, queue, slept, prev, delayed, told, headStart>>
    BY DEF ReadData
  <1>2. /\ age' \in Seq(0 .. Delay) /\ Len(age') = Len(age) + 1
        /\ \A j \in 1 .. Len(age) : age'[j] = age[j]
    <2>1. 0 \in 0 .. Delay
      BY AgeTypes
    <2>2. QED
      BY <1>1, <2>1, AgeTypes, AppendProperties
  <1>3. TypeOK'
    BY <1>1, <1>2, AgeTypes DEF TypeOK
  <1>4. ToldWhatIsDelayed'
    BY <1>1 DEF DelayInv, ToldWhatIsDelayed
  <1>5. (QueueIsPublished /\ FirstRoundIsKept)'
    BY <1>1, <1>2, AgeTypes DEF DelayInv, QueueIsPublished, FirstRoundIsKept
  <1>6. QueueAges'
    <2> SUFFICES ASSUME NEW i \in 1 .. Len(queue), NEW j \in 1 .. queue[i]
                 PROVE  age'[j] = Delay \/ (Len(queue) - i) * Sleep + slept <= age'[j]
      BY <1>1 DEF QueueAges
    <2>1. queue[i] \in Nat /\ queue[i] <= Len(age)
      BY <1>1, AgeTypes DEF DelayInv, QueueIsPublished
    <2>2. j \in 1 .. Len(age)
      BY <2>1, AgeTypes
    <2>3. QED
      BY <1>1, <1>2, <2>2 DEF DelayInv, QueueAges
  <1>7. QED
    BY <1>1, <1>3, <1>4, <1>5, <1>6 DEF DelayInv

\* A round pushes the current position and publishes the oldest.
LEMMA RoundKeeps == DelayInv /\ Round => DelayInv'
  <1> SUFFICES ASSUME DelayInv, Round PROVE DelayInv'
    OBVIOUS
  <1> DEFINE current == Len(age)
             q == Pushed(current)
             pair == <<current, q[1]>>
             n == Len(queue)
  <1> TypeOK /\ open /\ QueueIsPublished /\ FirstRoundIsKept /\ QueueAges
    BY DEF DelayInv, Round
  <1>1. /\ slept = Sleep /\ queue' = q /\ delayed' = q[1]
        /\ told' = IF pair # prev THEN pair ELSE told
        /\ prev' = pair
        /\ headStart' = IF queue = <<>> THEN current ELSE headStart
        /\ slept' = 0 /\ UNCHANGED <<open, age>>
    BY DEF Round, RoundIsDue, IsFirstRound
  <1>2. current \in Nat /\ n \in Nat
    BY AgeTypes
  <1> HIDE DEF q, pair
  <1>3. /\ q \in Seq(Nat) /\ Len(q) \in 1 .. HistorySize /\ q # <<>> /\ q[Len(q)] = current
        /\ HistorySize \in Nat \ {0}
    BY <1>2, PushedFacts, HistoryIsLongEnough DEF q
  <1>4. PICK k \in {0, 1} :
            /\ Len(q) = n + 1 - k
            /\ \A i \in 1 .. (Len(q) - 1) : q[i] = queue[i + k] /\ i + k \in 1 .. n
            /\ k = 1 => Len(q) = HistorySize
    BY <1>2, PushedFacts DEF q
  <1>5. \A i \in 1 .. Len(q) : \/ i = Len(q) /\ q[i] = current
                               \/ /\ i + k \in 1 .. n /\ q[i] = queue[i + k]
                                  /\ Len(q) - i = (n - (i + k)) + 1
    BY <1>2, <1>3, <1>4, SMTT(30)
  <1>6. \A i \in 1 .. Len(q) : q[i] \in Nat /\ q[i] <= current
    <2> SUFFICES ASSUME NEW i \in 1 .. Len(q) PROVE q[i] \in Nat /\ q[i] <= current
      OBVIOUS
    <2>1. ASSUME i + k \in 1 .. n, q[i] = queue[i + k] PROVE q[i] \in Nat /\ q[i] <= current
      BY <2>1, AgeTypes DEF QueueIsPublished
    <2>2. current <= current
      BY <1>2
    <2> HIDE DEF current
    <2>3. QED
      BY <1>2, <1>5, <2>1, <2>2
  <1>7. QueueIsPublished'
    BY <1>1, <1>3, <1>6 DEF QueueIsPublished
  <1>8. FirstRoundIsKept'
    <2> SUFFICES ASSUME Len(q) < HistorySize PROVE headStart' = q[1]
      BY <1>1 DEF FirstRoundIsKept
    <2>1. k = 0 /\ Len(q) = n + 1
      BY <1>2, <1>3, <1>4
    <2>2. CASE queue = <<>>
      <3>1. n = 0 /\ Len(q) = 1
        BY <1>2, <2>1, <2>2
      <3>2. QED
        BY <1>1, <1>3, <2>2, <3>1
    <2>3. CASE queue # <<>>
      <3>1. n >= 1
        BY <1>2, <2>3, EmptySeq, AgeTypes
      <3>2. 1 \in 1 .. (Len(q) - 1) /\ n < HistorySize
        BY <1>2, <1>3, <2>1, <3>1
      <3>3. q[1] = queue[1 + k]
        BY <1>4, <3>2
      <3>4. headStart' = delayed /\ delayed = queue[1]
        BY <1>1, <2>3, <3>2 DEF FirstRoundIsKept, QueueIsPublished
      <3>5. QED
        BY <2>1, <3>3, <3>4
    <2>4. QED
      BY <2>2, <2>3
  <1>9. QueueAges'
    <2> SUFFICES ASSUME NEW i \in 1 .. Len(q), NEW j \in 1 .. q[i]
                 PROVE  age[j] = Delay \/ (Len(q) - i) * Sleep + 0 <= age[j]
      BY <1>1 DEF QueueAges
    <2>1. j \in 1 .. Len(age) /\ age[j] \in 0 .. Delay
      <3>1. j \in 1 .. current
        BY <1>2, <1>6
      <3>2. QED
        BY <3>1, AgeTypes
    <2>2. CASE i = Len(q)
      <3> DEFINE p == (Len(q) - i) * Sleep
      <3>1. p = 0
        BY <1>3, <2>2, AgeTypes
      <3> HIDE DEF p
      <3>2. p + 0 <= age[j]
        BY <2>1, <3>1, AgeTypes
      <3>3. QED
        BY <3>2 DEF p
    <2>3. CASE /\ i + k \in 1 .. n /\ q[i] = queue[i + k]
               /\ Len(q) - i = (n - (i + k)) + 1
      <3> DEFINE m == n - (i + k)
                 d == m * Sleep
      <3>1. age[j] = Delay \/ d + slept <= age[j]
        BY <2>3 DEF QueueAges
      <3>2. m \in Int /\ Sleep \in Int /\ d \in Int
        BY <1>2, <2>3, AgeTypes
      <3>3. (m + 1) * Sleep = d + Sleep
        <4> HIDE DEF m
        <4>1. QED
          BY <3>2
      <3>4. (Len(q) - i) * Sleep = d + Sleep
        BY <2>3, <3>3
      <3> HIDE DEF d
      <3>5. QED
        BY <1>1, <2>1, <3>1, <3>2, <3>4, AgeTypes
    <2>4. QED
      BY <1>5, <2>2, <2>3
  <1>10. ToldWhatIsDelayed'
    <2>1. pair[2] = q[1]
      BY DEF pair
    <2>2. QED
      BY <1>1, <2>1 DEF DelayInv, ToldWhatIsDelayed
  <1>11. TypeOK'
    <2>1. 1 \in 1 .. Len(q) /\ q[1] \in 0 .. current
      BY <1>2, <1>3, <1>6
    <2>2. pair \in Nat \X Nat
      BY <1>2, <1>3, <2>1 DEF pair
    <2>3. told' \in Nat \X Nat /\ prev' \in Nat \X Nat
      BY <1>1, <2>2 DEF TypeOK
    <2>4. delayed' \in 0 .. Len(age') /\ headStart' \in 0 .. Len(age')
      BY <1>1, <1>2, <2>1 DEF TypeOK
    <2>5. queue' \in Seq(Nat) /\ Len(queue') <= HistorySize
      BY <1>1, <1>3
    <2>6. slept' \in 0 .. Sleep
      BY <1>1, AgeTypes
    <2>7. QED
      BY <1>1, <2>3, <2>4, <2>5, <2>6 DEF TypeOK
  <1>12. QED
    BY <1>1, <1>7, <1>8, <1>9, <1>10, <1>11 DEF DelayInv

\* The end of the connection publishes what is left.
LEMMA CloseKeeps == DelayInv /\ (Close \/ UNCHANGED vars) => DelayInv'
  <1> SUFFICES ASSUME DelayInv, Close \/ UNCHANGED vars PROVE DelayInv'
    OBVIOUS
  <1> TypeOK
    BY DEF DelayInv
  <1>1. CASE Close
    <2>1. TypeOK'
      <3>1. /\ open' = FALSE /\ delayed' = Len(age) /\ told' = <<Len(age), Len(age)>>
            /\ UNCHANGED <<age, queue, slept, prev, headStart>>
        BY <1>1 DEF Close
      <3>2. told' \in Nat \X Nat /\ delayed' \in 0 .. Len(age)
        BY <3>1, AgeTypes
      <3>3. QED
        BY <3>1, <3>2 DEF TypeOK
    <2>2. QED
      BY <1>1, <2>1 DEF Close, DelayInv, ToldWhatIsDelayed
  <1>2. CASE UNCHANGED vars
    BY <1>2 DEF vars, DelayInv, TypeOK, ToldWhatIsDelayed, QueueIsPublished, FirstRoundIsKept,
                QueueAges
  <1>3. QED
    BY <1>1, <1>2

\* The invariant holds forever.
LEMMA DelayInvariant == Spec => []DelayInv
  <1>1. DelayInv /\ [Next]_vars => DelayInv'
    BY TickKeeps, ReadKeeps, RoundKeeps, CloseKeeps DEF Next
  <1>2. QED
    BY InitDelayInv, <1>1, PTL DEF Spec

-----------------------------------------------------------------------------
(* What the delay promises                                                 *)

\* PositionHistory holds ceil(delay_s / sleep_s) + 1 entries: with fewer, the
\* oldest of a full queue could be younger than the delay.
THEOREM DelayIsHonoured == Spec => []DelayHonoured
  <1>1. DelayInv => DelayHonoured
    <2> SUFFICES ASSUME DelayInv, open, NEW i \in (headStart + 1) .. delayed
                 PROVE  age[i] = Delay
      BY DEF DelayHonoured, DelayInv
    <2>1. TypeOK /\ QueueIsPublished /\ FirstRoundIsKept /\ QueueAges
      BY DEF DelayInv
    <2>2. headStart \in Nat /\ delayed \in Nat /\ Len(age) \in Nat /\ delayed <= Len(age)
      BY <2>1, AgeTypes DEF TypeOK
    <2>3. headStart # delayed /\ i \in 1 .. Len(age) /\ i \in 1 .. delayed
      BY <2>2
    <2>4. queue # <<>> /\ delayed = queue[1] /\ ~(Len(queue) < HistorySize)
      BY <2>1, <2>3 DEF QueueIsPublished, FirstRoundIsKept
    <2>5. Len(queue) = HistorySize /\ 1 \in 1 .. Len(queue)
      BY <2>1, <2>4, AgeTypes, HistoryIsLongEnough DEF TypeOK
    <2>6. age[i] = Delay \/ (Len(queue) - 1) * Sleep + slept <= age[i]
      BY <2>1, <2>3, <2>4, <2>5 DEF QueueAges
    <2> DEFINE m == (HistorySize - 1) * Sleep
    <2>7. m >= Delay /\ m \in Int /\ (age[i] = Delay \/ m + slept <= age[i])
      BY <2>1, <2>5, <2>6, HistoryIsLongEnough, AgeTypes
    <2> HIDE DEF m
    <2>8. age[i] \in 0 .. Delay /\ slept \in Nat /\ Delay \in Nat
      BY <2>1, <2>3, AgeTypes
    <2>9. QED
      BY <2>7, <2>8
  <1>2. QED
    BY <1>1, DelayInvariant, PTL

-----------------------------------------------------------------------------
(* The writer's positions                                                  *)

\* Later rounds push later positions, and the pair that decides on the
\* callback is the pair of the last callback.
QueueInOrder == \A i, j \in 1 .. Len(queue) : i <= j => queue[i] <= queue[j]

PositionsInv == DelayInv /\ (open => QueueInOrder /\ prev = told)

\* What a round publishes, and that the queue stays in order.
LEMMA RoundInOrder ==
    ASSUME PositionsInv, Round
    PROVE  LET pair == <<Len(age), Pushed(Len(age))[1]>>
           IN  /\ delayed' = pair[2] /\ pair[2] \in delayed .. Len(age)
               /\ told' = pair /\ prev' = pair
               /\ QueueInOrder'
  <1> DEFINE current == Len(age)
             q == Pushed(current)
             pair == <<current, q[1]>>
             n == Len(queue)
  <1> TypeOK /\ DelayInv /\ open /\ QueueIsPublished /\ QueueInOrder /\ prev = told
    BY DEF PositionsInv, DelayInv, Round
  <1>1. /\ queue' = q /\ delayed' = q[1] /\ prev' = pair
        /\ told' = IF pair # prev THEN pair ELSE told
    BY DEF Round
  <1>2. told' = pair /\ pair[2] = q[1]
    BY <1>1
  <1>3. current \in Nat /\ n \in Nat
    BY AgeTypes
  <1> HIDE DEF q, pair
  <1>4. /\ Len(q) \in Nat /\ Len(q) >= 1 /\ q[Len(q)] = current
        /\ \A i \in 1 .. Len(q) : q[i] \in Nat
    <2>1. q \in Seq(Nat) /\ Len(q) \in 1 .. HistorySize /\ q[Len(q)] = current
      BY <1>3, PushedFacts DEF q
    <2>2. Len(q) \in Nat /\ Len(q) >= 1
      BY <2>1, HistoryIsLongEnough
    <2>3. \A i \in 1 .. Len(q) : q[i] \in Nat
      BY <2>1, ElementOfSeq
    <2>4. QED
      BY <2>1, <2>2, <2>3
  <1>5. PICK k \in {0, 1} :
            \A i \in 1 .. (Len(q) - 1) : q[i] = queue[i + k] /\ i + k \in 1 .. n
    BY <1>3, PushedFacts DEF q
  <1>6. \A i \in 1 .. n : queue[i] \in Nat /\ queue[i] <= current
    BY AgeTypes DEF QueueIsPublished
  <1>7. \A i, j \in 1 .. n : i <= j => queue[i] <= queue[j]
    BY DEF QueueInOrder
  <1>8. \A i \in 1 .. Len(q) : q[i] <= current
    <2> SUFFICES ASSUME NEW i \in 1 .. Len(q) PROVE q[i] <= current
      OBVIOUS
    <2> HIDE DEF current
    <2>1. CASE i = Len(q)
      BY <1>3, <1>4, <2>1
    <2>2. CASE i # Len(q)
      <3>1. i \in 1 .. (Len(q) - 1)
        BY <1>4, <2>2
      <3>2. QED
        BY <1>5, <1>6, <3>1
    <2>3. QED
      BY <2>1, <2>2
  <1>9. QueueInOrder'
    <2> SUFFICES ASSUME NEW i \in 1 .. Len(q), NEW j \in 1 .. Len(q), i <= j
                 PROVE  q[i] <= q[j]
      BY <1>1 DEF QueueInOrder
    <2>1. CASE j = Len(q)
      BY <1>4, <1>8, <2>1
    <2>2. CASE j # Len(q)
      <3>1. i \in 1 .. (Len(q) - 1) /\ j \in 1 .. (Len(q) - 1) /\ i + k <= j + k
        BY <1>4, <2>2
      <3>2. QED
        BY <1>5, <1>7, <3>1
    <2>3. QED
      BY <2>1, <2>2
  <1>10. delayed <= q[1]
    <2>1. CASE queue = <<>>
      BY <1>4, <2>1 DEF QueueIsPublished
    <2>2. CASE queue # <<>>
      <3>1. 1 \in 1 .. n /\ delayed = queue[1]
        BY <1>3, <2>2, EmptySeq, AgeTypes DEF QueueIsPublished
      <3>2. CASE Len(q) = 1
        BY <1>4, <1>6, <3>1, <3>2
      <3>3. CASE Len(q) # 1
        <4>1. 1 \in 1 .. (Len(q) - 1)
          BY <1>4, <3>3, SMTT(30)
        <4>2. q[1] = queue[1 + k] /\ 1 + k \in 1 .. n /\ 1 <= 1 + k
          BY <1>5, <4>1
        <4>3. QED
          BY <1>7, <3>1, <4>2
      <3>4. QED
        BY <3>2, <3>3
    <2>3. QED
      BY <2>1, <2>2
  <1>11. delayed \in Nat /\ q[1] \in Nat /\ q[1] <= current
    BY <1>3, <1>4, <1>8 DEF TypeOK
  <1>12. QED
    BY <1>1, <1>2, <1>3, <1>9, <1>10, <1>11 DEF q, pair

\* The invariant and the refinement, step by step.
LEMMA PositionsStep ==
    PositionsInv /\ [Next]_vars => PositionsInv' /\ [Positions!Next]_(Positions!vars)
  <1> SUFFICES ASSUME PositionsInv, [Next]_vars
               PROVE  PositionsInv' /\ [Positions!Next]_(Positions!vars)
    OBVIOUS
  <1> USE DEF Positions!vars
  <1> DelayInv /\ TypeOK
    BY DEF PositionsInv, DelayInv
  <1>1. DelayInv'
    BY TickKeeps, ReadKeeps, RoundKeeps, CloseKeeps DEF Next
  <1>2. CASE Tick
    <2>1. /\ UNCHANGED <<open, queue, prev, delayed, told>>
          /\ age' = [i \in 1 .. Len(age) |-> Capped(age[i] + 1, Delay)]
      BY <1>2 DEF Tick
    <2>2. Len(age') = Len(age)
      BY <2>1, AgeTypes
    <2>3. QED
      BY <1>1, <2>1, <2>2 DEF PositionsInv, QueueInOrder
  <1>3. CASE ReadData
    <2>1. open /\ age' = Append(age, 0) /\ UNCHANGED <<open, queue, prev, delayed, told>>
      BY <1>3 DEF ReadData
    <2>2. Len(age') = Len(age) + 1
      <3>1. 0 \in 0 .. Delay
        BY AgeTypes
      <3>2. QED
        BY <2>1, <3>1, AgeTypes, AppendProperties
    <2>3. Positions!Receive
      BY <2>1, <2>2 DEF Positions!Receive
    <2>4. QED
      BY <1>1, <2>1, <2>3 DEF PositionsInv, QueueInOrder, Positions!Next
  <1>4. CASE Round
    <2> DEFINE position == Pushed(Len(age))[1]
               pair == <<Len(age), position>>
    <2>1. /\ delayed' = position /\ position \in delayed .. Len(age)
          /\ told' = pair /\ prev' = pair /\ QueueInOrder'
      BY <1>4, RoundInOrder
    <2>2. open /\ UNCHANGED <<open, age>>
      BY <1>4 DEF Round
    <2> HIDE DEF position
    <2>3. told[2] = delayed
      BY DEF DelayInv, ToldWhatIsDelayed
    <2>4. CASE told = pair
      <3>1. told[2] = position
        BY <2>4
      <3>2. UNCHANGED Positions!vars
        BY <2>1, <2>2, <2>3, <2>4, <3>1
      <3>3. QED
        BY <1>1, <2>1, <3>2 DEF PositionsInv
    <2>5. CASE told # pair
      <3>1. Positions!Publish(position)
        BY <2>1, <2>2, <2>5 DEF Positions!Publish
      <3>2. Positions!Next
        BY <2>1, <3>1 DEF Positions!Next
      <3>3. QED
        BY <1>1, <2>1, <3>2 DEF PositionsInv
    <2>6. QED
      BY <2>4, <2>5
  <1>5. CASE Close
    <2>1. Positions!End
      BY <1>5 DEF Close, Positions!End
    <2>2. QED
      BY <1>1, <1>5, <2>1 DEF Close, PositionsInv, Positions!Next
  <1>6. CASE UNCHANGED vars
    BY <1>1, <1>6 DEF vars, PositionsInv, QueueInOrder
  <1>7. QED
    BY <1>2, <1>3, <1>4, <1>5, <1>6 DEF Next

\* Nothing is queued, and nothing was told.
LEMMA InitPositions == Init => PositionsInv /\ Positions!Init
  <1> SUFFICES ASSUME Init PROVE PositionsInv /\ Positions!Init
    OBVIOUS
  <1>1. DelayInv
    BY InitDelayInv
  <1>2. Len(age) = 0 /\ Len(queue) = 0
    BY EmptySeq DEF Init
  <1>3. QED
    BY <1>1, <1>2 DEF Init, PositionsInv, QueueInOrder, Positions!Init

\* The published position never moves back, which set_delayed_data_len
\* asserts, and the strategy is told of every change of it: the test against
\* the previous pair in update_replay_timestamp hides none.
THEOREM DelayImplementsPositions == Spec => ImplementsPositions
  <1>1. PositionsInv /\ [Next]_vars => PositionsInv' /\ [Positions!Next]_(Positions!vars)
    BY PositionsStep
  <1>2. QED
    BY InitPositions, <1>1, PTL DEF Spec, ImplementsPositions, Positions!Spec
=============================================================================
