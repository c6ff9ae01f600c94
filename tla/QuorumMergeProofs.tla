------------------------- MODULE QuorumMergeProofs -------------------------
(* Proofs about QuorumMerge, for every value of its constants.              *)
EXTENDS MergeClaims, FiniteSetTheorems, SequenceTheorems, WellFoundedInduction, TLAPS

\* Where a discard leaves the start of a window is a natural number.
LEMMA DiscardType ==
    ASSUME NEW from \in Nat, NEW until \in Nat
    PROVE  Discard(from, until) \in Nat
  BY ConstantsAssumption DEF Discard, MaxOf

\* Where a comparison starts, once the known prefix is skipped, is a natural number.
LEMMA MatchStartOptimizationType ==
    ASSUME NEW n \in Nat
    PROVE  MatchStartOptimization(n) \in Nat
  BY ConstantsAssumption DEF MatchStartOptimization, MaxOf

\* The larger of two naturals is a natural, and is at least each of them.
LEMMA MaxOfType ==
    ASSUME NEW x \in Nat, NEW y \in Nat
    PROVE  MaxOf(x, y) \in Nat /\ MaxOf(x, y) >= x /\ MaxOf(x, y) >= y
  BY DEF MaxOf

\* Every replay and the canonical stream begin as the empty sequence.
LEMMA EmptyIsSeq == <<>> \in Seq(Byte) /\ Len(<<>>) = 0
  OBVIOUS

\* The initial state is well typed.
LEMMA InitTypeOK == Init => TypeOK
  <1> SUFFICES ASSUME Init PROVE TypeOK
    OBVIOUS
  <1>1. data \in [Replay -> Seq(Byte)] /\ canon \in Seq(Byte)
    BY EmptyIsSeq DEF Init
  <1>2. \A r \in Replay : delayed[r] <= Len(data[r]) /\ notified[r] <= Len(data[r])
    BY EmptyIsSeq DEF Init
  <1>3. canonDelayed \in Nat /\ canonDelayed <= Len(canon)
    BY EmptyIsSeq DEF Init
  <1>4. candidates \in [Byte -> SUBSET Replay]
    BY DEF Init, NoCandidates
  <1>5. QED
    BY <1>1, <1>2, <1>3, <1>4 DEF Init, TypeOK

\* The types of the canonical stream's length and exposed position.
LEMMA CanonTypes ==
    TypeOK => /\ canonDelayed \in Nat /\ Len(canon) \in Nat
              /\ canonDelayed <= Len(canon) /\ quorum \in SUBSET Replay
  BY DEF TypeOK

\* Offering replays as candidates leaves every variable it touches well typed.
LEMMA TryMoveType ==
    ASSUME TypeOK,
           NEW moving \in SUBSET Replay, NEW from \in SUBSET Replay,
           NEW cand \in [Byte -> SUBSET Replay], NEW finished \in SUBSET Replay,
           TryMoveToCandidates(moving, from, cand, finished)
    PROVE  /\ reserve' \in SUBSET Replay
           /\ candidates' \in [Byte -> SUBSET Replay]
           /\ matching' \in [Replay -> Nat]
           /\ windowStart' \in [Replay -> Nat]
  <1> DEFINE long    == {r \in moving : Len(data[r]) > Len(canon)}
             short   == (moving \ long) \cap finished
             diverge == {r \in long : DivergesAtStalemate(r)}
             match   == long \ diverge
  <1>1. Len(canon) \in Nat
    BY DEF TypeOK
  <1>2. \A r \in Replay : /\ matching[r] \in Nat
                          /\ windowStart[r] \in Nat
    BY DEF TypeOK
  <1>3. \A r \in Replay : MaxOf(Len(canon), matching[r]) \in Nat
    BY <1>1, <1>2, MaxOfType
  <1>4. reserve' \in SUBSET Replay
    BY DEF TryMoveToCandidates
  <1>5. candidates' \in [Byte -> SUBSET Replay]
    BY DEF TryMoveToCandidates
  <1>6. matching' \in [Replay -> Nat]
    BY <1>2, <1>3 DEF TryMoveToCandidates
  <1>7. \A r \in Replay : /\ DiscardAll(windowStart[r]) \in Nat
                          /\ Discard(windowStart[r], MaxOf(Len(canon), matching[r])) \in Nat
    BY <1>2, <1>3, DiscardType, ConstantsAssumption DEF DiscardAll
  <1>8. windowStart' = [r \in Replay |->
                IF r \in short \cup diverge THEN DiscardAll(windowStart[r])
                ELSE IF r \in match
                THEN Discard(windowStart[r], MaxOf(Len(canon), matching[r]))
                ELSE windowStart[r]]
    BY DEF TryMoveToCandidates
  <1>9. windowStart' \in [Replay -> Nat]
    BY <1>2, <1>7, <1>8
  <1>10. QED
    BY <1>4, <1>5, <1>6, <1>9

\* The exposed position never goes back, and some quorum member justifies it.
LEMMA UpdateCanonDelayedType ==
    ASSUME canonDelayed \in Nat,
           NEW Q \in SUBSET Replay, NEW positions \in [Replay -> Nat],
           NEW n \in Nat, canonDelayed <= n,
           UpdateCanonDelayed(Q, positions, n)
    PROVE  /\ canonDelayed' \in Nat
           /\ canonDelayed' <= n
           /\ canonDelayed' >= canonDelayed
           /\ \E m \in Q : canonDelayed' >= MinOf(positions[m], n)
  BY DEF UpdateCanonDelayed, Slowest, MaxOf, MinOf

\* The data callback of one replay leaves every variable it touches well typed.
LEMMA DataUpdatedType ==
    ASSUME TypeOK, NEW r \in Replay, NEW positions \in [Replay -> Nat],
           ReplayDataUpdated(r, positions)
    PROVE  /\ matching' \in [Replay -> Nat]
           /\ windowStart' \in [Replay -> Nat]
           /\ mode' \in {"Stalemate", "Quorum"}
           /\ candidates' \in [Byte -> SUBSET Replay]
           /\ quorum' \in SUBSET Replay
           /\ reserve' \in SUBSET Replay
           /\ started' \in BOOLEAN
           /\ canonHeader' \in Replay \cup {NoReplay}
           /\ canon' = canon
           /\ canonDelayed' \in Nat /\ canonDelayed' <= Len(canon)
           /\ canonFinished' \in BOOLEAN
  <1>1. Len(canon) \in Nat /\ canonDelayed \in Nat /\ canonDelayed <= Len(canon)
    BY DEF TypeOK
  <1>2. CASE mode = "Stalemate"
    <2>1. UNCHANGED <<mode, quorum, canonVars>> /\ started' = (started \/ positions[r] > 0)
      BY <1>2 DEF ReplayDataUpdated
    <2>2. started' \in BOOLEAN
      BY <2>1 DEF TypeOK
    <2>3. CASE r \in reserve
      <3>1. TryMoveToCandidates({r}, reserve, candidates, Finished)
        BY <1>2, <2>3 DEF ReplayDataUpdated
      <3>2. /\ reserve' \in SUBSET Replay
            /\ candidates' \in [Byte -> SUBSET Replay]
            /\ matching' \in [Replay -> Nat]
            /\ windowStart' \in [Replay -> Nat]
        <4>1. {r} \in SUBSET Replay /\ Finished \in SUBSET Replay
          BY DEF Finished
        <4>2. reserve \in SUBSET Replay /\ candidates \in [Byte -> SUBSET Replay]
          BY DEF TypeOK
        <4>3. QED
          BY <3>1, <4>1, <4>2, TryMoveType
      <3>3. QED
        BY <1>1, <2>1, <2>2, <3>2 DEF TypeOK, canonVars
    <2>4. CASE r \notin reserve
      <3>1. UNCHANGED <<reserve, candidates, matching, windowStart>>
        BY <1>2, <2>4 DEF ReplayDataUpdated
      <3>2. QED
        BY <1>1, <2>1, <2>2, <3>1 DEF TypeOK, canonVars
    <2>5. QED
      BY <2>3, <2>4
  <1>3. CASE mode = "Quorum"
    <2>1. /\ UNCHANGED <<checkVars, stateVars, canonHeader, canon, canonFinished>>
          /\ UpdateCanonDelayed(quorum, positions, Len(canon)) \/ canonDelayed' = canonDelayed
      BY <1>3 DEF ReplayDataUpdated
    <2>2. canonDelayed' \in Nat /\ canonDelayed' <= Len(canon)
      <3>1. quorum \in SUBSET Replay
        BY DEF TypeOK
      <3>2. QED
        BY <1>1, <2>1, <3>1, UpdateCanonDelayedType
    <2>3. QED
      BY <2>1, <2>2 DEF TypeOK, checkVars, stateVars
  <1>4. QED
    BY <1>2, <1>3 DEF TypeOK

\* Appending one byte makes a sequence of bytes one longer.
LEMMA AppendFacts ==
    ASSUME NEW s \in Seq(Byte), NEW b \in Byte
    PROVE  /\ Append(s, b) \in Seq(Byte)
           /\ Len(Append(s, b)) = Len(s) + 1
  OBVIOUS

\* What one resolved stalemate appends to the canonical stream.
LEMMA MergedFacts ==
    ASSUME NEW c \in Seq(Byte), NEW b \in Byte, NEW d \in Seq(Byte),
           NEW p \in Nat, p >= Len(c) + 1, p <= Len(d)
    PROVE  /\ Append(c, b) \o SubSeq(d, Len(c) + 2, p) \in Seq(Byte)
           /\ Len(Append(c, b) \o SubSeq(d, Len(c) + 2, p)) = p
  <1>1. Append(c, b) \in Seq(Byte) /\ Len(Append(c, b)) = Len(c) + 1
    BY AppendFacts
  <1>2. SubSeq(d, Len(c) + 2, p) \in Seq(Byte)
        /\ Len(SubSeq(d, Len(c) + 2, p)) = p - (Len(c) + 1)
    OBVIOUS
  <1> DEFINE t == SubSeq(d, Len(c) + 2, p)
             u == Append(c, b)
  <1>3. u \o t \in Seq(Byte) /\ Len(u \o t) = Len(u) + Len(t)
    <2> HIDE DEF t, u
    <2>1. u \in Seq(Byte) /\ t \in Seq(Byte)
      BY <1>1, <1>2 DEF t, u
    <2>2. QED
      BY <2>1
  <1>4. Len(u) + Len(t) = p
    <2>1. /\ Len(c) \in Nat
          /\ Len(u) = Len(c) + 1
          /\ Len(t) = p - (Len(c) + 1)
      BY <1>1, <1>2
    <2> HIDE DEF t, u
    <2>2. QED
      BY <2>1
  <1>5. QED
    BY <1>3, <1>4 DEF t, u

\* However the comparisons overshoot, what is merged is within every member.
LEMMA QuorumPrefixIsShort ==
    ASSUME data \in [Replay -> Seq(Byte)],
           NEW Q \in SUBSET Replay, NEW from \in Nat, NEW p \in Nat,
           IsQuorumPrefix(Q, from, p)
    PROVE  \A q \in Q : p <= Len(data[q])
  <1>1. PICK s \in Q :
            /\ \A q \in Q : Len(data[s]) <= Len(data[q])
            /\ \/ Q = {s} /\ p = Len(data[s])
               \/ \E last \in Q \ {s}, common \in [Q \ {s} -> from .. MaxData] :
                    /\ \A q \in Q \ {s} : IsCommonPrefix(s, q, from, common[q])
                    /\ LET ends == {common[last]} \cup
                                   {ChunkEnd(common[q]) : q \in Q \ {s, last}}
                       IN  IF \E q \in Q \ {s} : common[q] = from THEN p = from
                           ELSE p \in ends /\ \A e \in ends : p <= e
    BY DEF IsQuorumPrefix
  <1>2. \A q \in Q : Len(data[q]) \in Nat
    OBVIOUS
  <1>3. p <= Len(data[s])
    <2>1. CASE p = Len(data[s])
      BY <2>1, <1>2
    <2>2. ASSUME NEW last \in Q \ {s}, NEW common \in [Q \ {s} -> from .. MaxData],
                 \A q \in Q \ {s} : IsCommonPrefix(s, q, from, common[q]),
                 \/ \E q \in Q \ {s} : common[q] = from /\ p = from
                 \/ p <= common[last]
          PROVE  p <= Len(data[s])
      <3>1. \A q \in Q \ {s} : common[q] \in Int /\ common[q] <= Len(data[s])
        BY <2>2, ConstantsAssumption DEF IsCommonPrefix
      <3>2. QED
        BY <2>2, <3>1, <1>2
    <2>3. QED
      BY <1>1, <2>1, <2>2
  <1>4. QED
    BY <1>1, <1>2, <1>3

\* The facts about ExitStalemate that do not depend on which byte won.
LEMMA ExitFacts ==
    ASSUME TypeOK, ExitStalemate
    PROVE  /\ started /\ mode' = "Quorum"
           /\ quorum' \in SUBSET Replay
           /\ quorum' \subseteq AllCandidates
           /\ reserve' \in SUBSET Replay
           /\ reserve' \subseteq reserve \cup AllCandidates
           /\ matching' \in [Replay -> Nat]
           /\ windowStart' \in [Replay -> Nat]
           /\ canon' \in Seq(Byte)
           /\ Len(canon') > Len(canon)
           /\ \A q \in quorum' : Len(data[q]) >= Len(canon')
           /\ canonDelayed' \in Nat /\ canonDelayed' <= Len(canon')
           /\ canonDelayed' >= canonDelayed
           /\ \E m \in quorum' : canonDelayed' >= MinOf(delayed[m], Len(canon'))
  <1>1. PICK b \in Byte, Q \in SUBSET Replay, p \in 0 .. MaxData :
            ExitStalemateWith(b, Q, p)
    BY DEF ExitStalemate
  <1> DEFINE good == candidates[b]
             losers == UNION {candidates[c] : c \in Byte \ {b}}
             rest == reserve \cup (good \ Q)
  <1>2. /\ Q \subseteq good
        /\ p >= Len(canon) + 1
        /\ \A q \in Q : p <= Len(data[q])
        /\ quorum' = Q
        /\ reserve' = rest
        /\ UpdateCanonDelayed(Q, delayed, p)
    <2>1. /\ Q \subseteq good
          /\ p >= Len(canon) + 1
          /\ quorum' = Q
          /\ reserve' = rest
          /\ UpdateCanonDelayed(Q, delayed, p)
          /\ IsQuorumPrefix(Q, Len(canon) + 1, p)
      BY <1>1 DEF ExitStalemateWith, IsNewQuorum
    <2>2. Q \in SUBSET Replay /\ p \in Nat /\ Len(canon) \in Nat
          /\ data \in [Replay -> Seq(Byte)]
      BY DEF TypeOK
    <2>3. \A q \in Q : p <= Len(data[q])
      BY <2>1, <2>2, QuorumPrefixIsShort
    <2>4. QED
      BY <2>1, <2>3
  <1>3. /\ p \in Nat /\ Len(canon) \in Nat /\ canon \in Seq(Byte)
        /\ data \in [Replay -> Seq(Byte)]
        /\ delayed \in [Replay -> Nat]
        /\ matching \in [Replay -> Nat]
        /\ windowStart \in [Replay -> Nat]
        /\ canonDelayed \in Nat /\ canonDelayed <= Len(canon)
        /\ reserve \in SUBSET Replay
        /\ good \in SUBSET Replay
    BY DEF TypeOK
  <1>4. PICK chosen \in Q :
            canon' = Append(canon, b) \o SubSeq(data[chosen], Len(canon) + 2, p)
    <2>1. PICK q \in Q : canon' = Append(canon, b) \o SubSeq(data[q], (Len(canon) + 1) + 1, p)
      BY <1>1 DEF ExitStalemateWith
    <2>2. (Len(canon) + 1) + 1 = Len(canon) + 2
      BY <1>3
    <2>3. QED
      BY <2>1, <2>2
  <1>5. canon' \in Seq(Byte) /\ Len(canon') = p
    <2>1. data[chosen] \in Seq(Byte) /\ p <= Len(data[chosen])
      BY <1>2, <1>3
    <2>2. QED
      BY <1>2, <1>3, <1>4, <2>1, MergedFacts
  <1>6. /\ canonDelayed' \in Nat
        /\ canonDelayed' <= p
        /\ canonDelayed' >= canonDelayed
        /\ \E m \in Q : canonDelayed' >= MinOf(delayed[m], p)
    <2>1. canonDelayed <= p
      BY <1>2, <1>3
    <2>2. QED
      BY <1>2, <1>3, <2>1, UpdateCanonDelayedType
  <1>7. \A r \in Replay : MaxOf(p, matching[r]) \in Nat
    BY <1>3, MaxOfType
  <1>8. matching' \in [Replay -> Nat]
    BY <1>1, <1>3, <1>7 DEF ExitStalemateWith
  <1>9. \A r \in Replay :
            /\ Discard(windowStart[r], MaxOf(p, matching[r])) \in Nat
            /\ Discard(windowStart[r], MatchStartOptimization(p)) \in Nat
            /\ DiscardAll(windowStart[r]) \in Nat
    BY <1>3, <1>7, DiscardType, MatchStartOptimizationType, ConstantsAssumption
       DEF DiscardAll
  <1>10. windowStart' = [r \in Replay |->
                IF r \in Q THEN Discard(windowStart[r], MaxOf(p, matching[r]))
                ELSE IF r \in rest
                THEN Discard(windowStart[r], MatchStartOptimization(p))
                ELSE IF r \in losers THEN DiscardAll(windowStart[r])
                ELSE windowStart[r]]
    BY <1>1 DEF ExitStalemateWith
  <1>11. windowStart' \in [Replay -> Nat]
    <2> HIDE DEF rest, losers
    <2>1. QED
      BY <1>3, <1>9, <1>10
  <1>12. started /\ mode' = "Quorum"
    BY DEF ExitStalemate, CanExitStalemate
  <1>13. good \subseteq AllCandidates
    BY DEF AllCandidates
  <1>14. /\ quorum' \in SUBSET Replay /\ quorum' \subseteq AllCandidates
         /\ reserve' \in SUBSET Replay /\ reserve' \subseteq reserve \cup AllCandidates
    BY <1>2, <1>3, <1>13
  <1>15. /\ started /\ mode' = "Quorum"
         /\ quorum' \in SUBSET Replay /\ quorum' \subseteq AllCandidates
         /\ reserve' \in SUBSET Replay /\ reserve' \subseteq reserve \cup AllCandidates
         /\ matching' \in [Replay -> Nat]
         /\ windowStart' \in [Replay -> Nat]
    BY <1>8, <1>11, <1>12, <1>14, Zenon
  <1>16. /\ canon' \in Seq(Byte) /\ Len(canon') >= Len(canon) + 1
         /\ canonDelayed' \in Nat /\ canonDelayed' <= Len(canon')
         /\ canonDelayed' >= canonDelayed
    <2>1. PICK k \in Nat : k = Len(canon')
      BY <1>3, <1>5
    <2>2. k = p /\ k >= Len(canon) + 1
      BY <1>2, <1>5, <2>1
    <2>3. QED
      BY <1>5, <1>6, <2>1, <2>2
  <1>17. /\ \A q \in quorum' : Len(canon') <= Len(data[q])
         /\ \E m \in quorum' : canonDelayed' >= MinOf(delayed[m], Len(canon'))
    BY <1>2, <1>5, <1>6
  <1>18. QED
    BY <1>15, <1>16, <1>17

\* Entering a stalemate offers the reserve and the old quorum as candidates, and
\* leaves every variable it touches well typed.
LEMMA EnterFacts ==
    ASSUME TypeOK, EnterStalemate
    PROVE  /\ TryMoveToCandidates(reserve \cup quorum, reserve \cup quorum,
                                  NoCandidates, Finished)
           /\ reserve' \in SUBSET Replay
           /\ candidates' \in [Byte -> SUBSET Replay]
           /\ matching' \in [Replay -> Nat]
           /\ windowStart' \in [Replay -> Nat]
  <1>1. TryMoveToCandidates(reserve \cup quorum, reserve \cup quorum,
                            NoCandidates, Finished)
    BY DEF EnterStalemate
  <1>2. /\ reserve \cup quorum \in SUBSET Replay
        /\ NoCandidates \in [Byte -> SUBSET Replay]
        /\ Finished \in SUBSET Replay
    BY DEF TypeOK, NoCandidates, Finished
  <1>3. QED
    BY <1>1, <1>2, TryMoveType

\* The types are inductive: each step of the merge keeps them.
LEMMA TypeStep == TypeOK /\ [Next]_vars => TypeOK'
  <1> SUFFICES ASSUME TypeOK, [Next]_vars PROVE TypeOK'
    OBVIOUS
  <1>1. CASE EnterStalemate
    <2>1. /\ reserve' \in SUBSET Replay
          /\ candidates' \in [Byte -> SUBSET Replay]
          /\ matching' \in [Replay -> Nat]
          /\ windowStart' \in [Replay -> Nat]
      BY <1>1, EnterFacts
    <2>2. /\ UNCHANGED <<writerVars, started, canonVars>>
          /\ mode' = "Stalemate" /\ quorum' = {}
      BY <1>1 DEF EnterStalemate
    <2>3. QED
      BY <2>1, <2>2 DEF TypeOK, writerVars, canonVars
  <1>2. CASE ExitStalemate
    <2>1. /\ UNCHANGED <<writerVars, started, canonHeader, canonFinished>>
          /\ mode' = "Quorum" /\ candidates' = NoCandidates
      BY <1>2 DEF ExitStalemate
    <2>2. candidates' \in [Byte -> SUBSET Replay]
      BY <2>1 DEF NoCandidates
    <2>3. /\ quorum' \in SUBSET Replay /\ reserve' \in SUBSET Replay
          /\ matching' \in [Replay -> Nat] /\ windowStart' \in [Replay -> Nat]
          /\ canon' \in Seq(Byte)
          /\ canonDelayed' \in Nat /\ canonDelayed' <= Len(canon')
      BY <1>2, ExitFacts
    <2>4. QED
      BY <2>1, <2>2, <2>3 DEF TypeOK, writerVars
  <1>3. CASE Finalize
    BY <1>3 DEF Finalize, TypeOK, writerVars, checkVars, stateVars
  <1>4. ASSUME NEW r \in Replay, Connect(r) PROVE TypeOK'
    BY <1>4 DEF Connect, TypeOK, checkVars, canonVars
  <1>5. ASSUME NEW r \in Replay, HeaderAdded(r) PROVE TypeOK'
    BY <1>5 DEF HeaderAdded, TypeOK, checkVars, stateVars
  <1>6. ASSUME NEW r \in Replay, NEW b \in Byte, ReadData(r, b) PROVE TypeOK'
    <2>1. /\ data' = [data EXCEPT ![r] = Append(data[r], b)]
          /\ UNCHANGED <<task, delayed, notified, checkVars, stateVars, canonVars>>
      BY <1>6 DEF ReadData
    <2>2. \A q \in Replay : data[q] \in Seq(Byte) /\ Len(data[q]) \in Nat
      BY DEF TypeOK
    <2>3. Append(data[r], b) \in Seq(Byte) /\ Len(Append(data[r], b)) = Len(data[r]) + 1
      BY <2>2, AppendFacts
    <2>4. data' \in [Replay -> Seq(Byte)]
      BY <2>1, <2>3 DEF TypeOK
    <2>5. \A q \in Replay : Len(data'[q]) >= Len(data[q])
      BY <2>1, <2>2, <2>3 DEF TypeOK
    <2>6. \A q \in Replay : Len(data'[q]) \in Nat
      BY <2>4
    <2>7. ASSUME NEW q \in Replay
          PROVE  delayed[q] <= Len(data'[q]) /\ notified[q] <= Len(data'[q])
      <3>1. /\ delayed[q] \in Nat /\ notified[q] \in Nat
            /\ delayed[q] <= Len(data[q]) /\ notified[q] <= Len(data[q])
        BY DEF TypeOK
      <3>2. PICK k \in Nat, l \in Nat : k = Len(data[q]) /\ l = Len(data'[q]) /\ k <= l
        BY <2>2, <2>5, <2>6
      <3>3. QED
        BY <3>1, <3>2
    <2>8. /\ UNCHANGED <<task, delayed, notified, matching, windowStart, mode, candidates>>
          /\ UNCHANGED <<quorum, reserve, started>>
          /\ UNCHANGED <<canonHeader, canon, canonDelayed, canonFinished>>
      BY <2>1 DEF checkVars, stateVars, canonVars
    <2>9. QED
      BY <2>4, <2>7, <2>8 DEF TypeOK
  <1>7. ASSUME NEW r \in Replay, NEW position \in 0 .. MaxData,
               UpdateTimestamp(r, position)
        PROVE  TypeOK'
    <2>1. /\ UNCHANGED <<task, data>>
          /\ position \in delayed[r] .. Len(data[r])
          /\ delayed' = [delayed EXCEPT ![r] = position]
          /\ notified' = [notified EXCEPT ![r] = Len(data[r])]
          /\ ReplayDataUpdated(r, delayed')
      BY <1>7 DEF UpdateTimestamp
    <2>2. \A q \in Replay : Len(data[q]) \in Nat
      BY DEF TypeOK
    <2>3. delayed' \in [Replay -> Nat] /\ notified' \in [Replay -> Nat]
      BY <2>1, <2>2 DEF TypeOK
    <2>4. \A q \in Replay : delayed'[q] <= Len(data[q]) /\ notified'[q] <= Len(data[q])
      BY <2>1, <2>2 DEF TypeOK
    <2>5. QED
      BY <2>1, <2>3, <2>4, DataUpdatedType DEF TypeOK
  <1>8. ASSUME NEW r \in Replay, CloseConnection(r) PROVE TypeOK'
    <2>1. /\ data' = data
          /\ task' = [task EXCEPT ![r] = "closing"]
          /\ delayed' = [delayed EXCEPT ![r] = Len(data[r])]
          /\ notified' = [notified EXCEPT ![r] = Len(data[r])]
          /\ ReplayDataUpdated(r, delayed')
      BY <1>8 DEF CloseConnection
    <2>2. \A q \in Replay : Len(data[q]) \in Nat
      BY DEF TypeOK
    <2>3. delayed' \in [Replay -> Nat] /\ notified' \in [Replay -> Nat]
      BY <2>1, <2>2 DEF TypeOK
    <2>4. \A q \in Replay : delayed'[q] <= Len(data[q]) /\ notified'[q] <= Len(data[q])
      BY <2>1, <2>2 DEF TypeOK
    <2>5. QED
      BY <2>1, <2>3, <2>4, DataUpdatedType DEF TypeOK
  <1>9. ASSUME NEW r \in Replay, FinishReplay(r) PROVE TypeOK'
    <2>1. /\ task' = [task EXCEPT ![r] = "ended"]
          /\ UNCHANGED <<data, delayed, notified, mode, quorum, started, canonVars>>
      BY <1>9 DEF FinishReplay
    <2>2. CASE mode = "Stalemate" /\ r \in reserve
      <3>1. TryMoveToCandidates({r}, reserve, candidates, Finished \cup {r})
        BY <1>9, <2>2 DEF FinishReplay
      <3>2. /\ {r} \in SUBSET Replay /\ Finished \cup {r} \in SUBSET Replay
            /\ reserve \in SUBSET Replay /\ candidates \in [Byte -> SUBSET Replay]
        BY DEF Finished, TypeOK
      <3>3. /\ reserve' \in SUBSET Replay
            /\ candidates' \in [Byte -> SUBSET Replay]
            /\ matching' \in [Replay -> Nat]
            /\ windowStart' \in [Replay -> Nat]
        BY <3>1, <3>2, TryMoveType
      <3>4. QED
        BY <2>1, <3>3 DEF TypeOK, canonVars
    <2>3. CASE ~(mode = "Stalemate" /\ r \in reserve)
      <3>1. UNCHANGED <<reserve, candidates, matching, windowStart>>
        BY <1>9, <2>3 DEF FinishReplay
      <3>2. QED
        BY <2>1, <3>1 DEF TypeOK, canonVars
    <2>4. QED
      BY <2>2, <2>3
  <1>10. CASE UNCHANGED vars
    BY <1>10 DEF TypeOK, vars, writerVars, checkVars, stateVars, canonVars
  <1>11. QED
    BY <1>1, <1>2, <1>3, <1>4, <1>5, <1>6, <1>7, <1>8, <1>9, <1>10
       DEF Next, Work, Terminated

\* Every variable keeps its type, and no position overtakes the data it is a
\* position in, however many writers there are and however much they send.
THEOREM TypeCorrect == Spec => []TypeOK
  BY InitTypeOK, TypeStep, PTL DEF Spec

-----------------------------------------------------------------------------
(* finish() finds the strategy in a stalemate with nothing left to merge.    *)

\* Only while its select runs does a replay hold data back.
Settled == \A r \in Replay : task[r] # "data" => delayed[r] = Len(data[r])

\* Data of a replay whose last callback has run has started the stalemate.
Announced ==
    \A r \in Replay : task[r] # "data" /\ Len(data[r]) > 0 => started

\* A replay is in a set of the strategy only after it was announced to it.
Registered ==
    \A r \in reserve \cup quorum \cup AllCandidates : task[r] # "new"

\* In a stalemate C is fully exposed, no ended replay waits in the reserve, and
\* every candidate has a byte beyond C.
StalemateShape ==
    mode = "Stalemate" =>
        /\ canonDelayed = Len(canon)
        /\ \A r \in reserve : task[r] # "ended"
        /\ \A b \in Byte : \A r \in candidates[b] : Len(data[r]) > Len(canon)

\* With a quorum, every member holds all of C, and the exposed position covers
\* what one member has had delayed.
QuorumShape ==
    mode = "Quorum" =>
        /\ started
        /\ \A q \in quorum : Len(data[q]) >= Len(canon)
        /\ \E m \in quorum : canonDelayed >= MinOf(delayed[m], Len(canon))

\* The inductive strengthening of the assertions made at the end of a merge.
FinishInv ==
    TypeOK /\ Settled /\ Announced /\ Registered /\ StalemateShape /\ QuorumShape

\* It holds before any replay arrives.
LEMMA InitFinishInv == Init => FinishInv
  <1> SUFFICES ASSUME Init PROVE FinishInv
    OBVIOUS
  <1>1. TypeOK
    BY InitTypeOK
  <1>2. Settled /\ Announced
    BY EmptyIsSeq DEF Init, Settled, Announced
  <1>3. AllCandidates = {}
    BY DEF Init, AllCandidates, NoCandidates
  <1>4. Registered
    BY <1>3 DEF Init, Registered
  <1>5. StalemateShape /\ QuorumShape
    BY EmptyIsSeq DEF Init, StalemateShape, QuorumShape, NoCandidates
  <1>6. QED
    BY <1>1, <1>2, <1>4, <1>5 DEF FinishInv

\* At the end of a merge it gives the assertions finish() makes.
LEMMA FinishInvSuffices == FinishInv => FinishAssertions
  <1> SUFFICES ASSUME FinishInv, AllWritersGone, Idle
               PROVE  /\ mode = "Stalemate"
                      /\ canonDelayed = Len(canon)
                      /\ reserve = {}
                      /\ AllCandidates = {}
    BY DEF FinishAssertions
  <1> USE DEF FinishInv
  <1>1. mode = "Stalemate"
    <2> SUFFICES ASSUME mode = "Quorum" PROVE FALSE
      BY DEF TypeOK
    <2>1. PICK m \in quorum : canonDelayed >= MinOf(delayed[m], Len(canon))
      BY DEF QuorumShape
    <2>2. m \in Replay /\ delayed[m] = Len(data[m])
      BY DEF TypeOK, AllWritersGone, Settled
    <2>3. Len(data[m]) >= Len(canon)
      BY DEF QuorumShape
    <2>4. canonDelayed >= Len(canon)
      BY <2>1, <2>2, <2>3 DEF MinOf, TypeOK
    <2>5. QED
      BY <2>4 DEF Idle, ShouldChangeState, HasToEnterStalemate
  <1>2. canonDelayed = Len(canon)
    BY <1>1 DEF StalemateShape
  <1>3. reserve = {}
    BY <1>1 DEF StalemateShape, Registered, AllWritersGone, TypeOK
  <1>4. AllCandidates = {}
    <2> SUFFICES ASSUME NEW b \in Byte, NEW r \in candidates[b] PROVE FALSE
      BY DEF AllCandidates
    <2>1. r \in Replay /\ Len(data[r]) \in Nat /\ Len(canon) \in Nat
      BY DEF TypeOK
    <2>2. Len(data[r]) > 0
      BY <1>1, <2>1 DEF StalemateShape
    <2>3. started
      BY <2>1, <2>2 DEF AllWritersGone, Announced
    <2>4. NonEmptyBytes # {}
      BY DEF NonEmptyBytes
    <2>5. CanExitStalemate
      BY <1>3, <2>3, <2>4 DEF CanExitStalemate
    <2>6. QED
      BY <1>1, <2>5 DEF Idle, ShouldChangeState
  <1>5. QED
    BY <1>1, <1>2, <1>3, <1>4

\* What moving replays to the candidates leaves in either set.
LEMMA TryMoveShape ==
    ASSUME TypeOK,
           NEW moving \in SUBSET Replay, NEW from \in SUBSET Replay,
           NEW cand \in [Byte -> SUBSET Replay], NEW finished \in SUBSET Replay,
           TryMoveToCandidates(moving, from, cand, finished)
    PROVE  /\ reserve' \subseteq from
           /\ \A r \in reserve' : r \in moving => r \notin finished
           /\ \A b \in Byte : \A r \in candidates'[b] :
                \/ r \in cand[b]
                \/ r \in moving /\ Len(data[r]) > Len(canon)
  BY DEF TryMoveToCandidates

\* The loop over stalemates and quorums keeps it.
LEMMA FinishInvWork == FinishInv /\ Work => FinishInv'
  <1> SUFFICES ASSUME FinishInv, Work PROVE FinishInv'
    OBVIOUS
  <1> USE DEF FinishInv
  <1>1. TypeOK'
    BY TypeStep DEF Next
  <1>2. CASE EnterStalemate
    <2>1. /\ UNCHANGED <<task, data, delayed, started, canon, canonDelayed>>
          /\ mode = "Quorum" /\ HasToEnterStalemate
          /\ mode' = "Stalemate" /\ quorum' = {}
      BY <1>2 DEF EnterStalemate, writerVars, canonVars
    <2>2. /\ reserve \cup quorum \in SUBSET Replay
          /\ NoCandidates \in [Byte -> SUBSET Replay]
          /\ Finished \in SUBSET Replay
      BY DEF TypeOK, NoCandidates, Finished
    <2>3. /\ reserve' \subseteq reserve \cup quorum
          /\ \A r \in reserve' : r \notin Finished
          /\ \A b \in Byte : \A r \in candidates'[b] :
                r \in reserve \cup quorum /\ Len(data[r]) > Len(canon)
      <3>1. TryMoveToCandidates(reserve \cup quorum, reserve \cup quorum,
                                NoCandidates, Finished)
        BY <1>2, EnterFacts
      <3>2. \A b \in Byte : NoCandidates[b] = {}
        BY DEF NoCandidates
      <3>3. /\ reserve' \subseteq reserve \cup quorum
            /\ \A r \in reserve' : r \in reserve \cup quorum => r \notin Finished
            /\ \A b \in Byte : \A r \in candidates'[b] :
                \/ r \in NoCandidates[b]
                \/ r \in reserve \cup quorum /\ Len(data[r]) > Len(canon)
        <4> DEFINE all == reserve \cup quorum
                   none == NoCandidates
                   gone == Finished
        <4>1. /\ all \in SUBSET Replay /\ none \in [Byte -> SUBSET Replay]
              /\ gone \in SUBSET Replay
              /\ TryMoveToCandidates(all, all, none, gone)
          BY <2>2, <3>1
        <4> HIDE DEF all, none, gone
        <4>2. /\ reserve' \subseteq all
              /\ \A r \in reserve' : r \in all => r \notin gone
              /\ \A b \in Byte : \A r \in candidates'[b] :
                    r \in none[b] \/ (r \in all /\ Len(data[r]) > Len(canon))
          BY <4>1, TryMoveShape
        <4>3. QED
          BY <4>2 DEF all, none, gone
      <3>4. QED
        BY <3>2, <3>3
    <2>4. Settled' /\ Announced'
      BY <2>1 DEF Settled, Announced
    <2>5. Registered'
      BY <2>1, <2>3 DEF Registered, AllCandidates
    <2>6. StalemateShape'
      <3>1. canonDelayed = Len(canon)
        BY <2>1 DEF HasToEnterStalemate, TypeOK
      <3>2. \A r \in reserve' : task[r] # "ended"
        BY <2>2, <2>3 DEF Finished
      <3>3. QED
        BY <2>1, <2>3, <3>1, <3>2 DEF StalemateShape
    <2>7. QuorumShape'
      BY <2>1 DEF QuorumShape
    <2>8. QED
      BY <1>1, <2>4, <2>5, <2>6, <2>7
  <1>3. CASE ExitStalemate
    <2>1. /\ UNCHANGED <<task, data, delayed, started>>
          /\ mode' = "Quorum" /\ candidates' = NoCandidates
      BY <1>3 DEF ExitStalemate, writerVars
    <2>2. /\ started
          /\ quorum' \subseteq AllCandidates
          /\ reserve' \subseteq reserve \cup AllCandidates
          /\ \A q \in quorum' : Len(data[q]) >= Len(canon')
          /\ \E m \in quorum' : canonDelayed' >= MinOf(delayed[m], Len(canon'))
      BY <1>3, ExitFacts
    <2>3. Settled' /\ Announced'
      BY <2>1 DEF Settled, Announced
    <2>4. AllCandidates' = {}
      BY <2>1 DEF AllCandidates, NoCandidates
    <2>5. Registered'
      BY <2>1, <2>2, <2>4 DEF Registered
    <2>6. StalemateShape' /\ QuorumShape'
      BY <2>1, <2>2 DEF StalemateShape, QuorumShape
    <2>7. QED
      BY <1>1, <2>3, <2>5, <2>6
  <1>4. QED
    BY <1>2, <1>3 DEF Work

\* replay_data_updated(r), once r's position and task have been set.
LEMMA FinishInvDataUpdated ==
    ASSUME FinishInv, TypeOK', NEW r \in Replay,
           data' = data,
           \A q \in Replay \ {r} : task'[q] = task[q] /\ delayed'[q] = delayed[q],
           task[r] # "new", task'[r] \in {"data", "closing"},
           task'[r] = "closing" => delayed'[r] = Len(data[r]),
           delayed'[r] >= delayed[r],
           ReplayDataUpdated(r, delayed')
    PROVE  FinishInv'
  <1> USE DEF FinishInv
  <1>1. Settled'
    BY DEF Settled
  <1>2. delayed' \in [Replay -> Nat]
    BY DEF TypeOK
  <1>3. CASE mode = "Stalemate"
    <2>1. /\ UNCHANGED <<mode, quorum, canon, canonDelayed>>
          /\ started' = (started \/ delayed'[r] > 0)
      BY <1>3 DEF ReplayDataUpdated, canonVars
    <2>2. /\ reserve' \subseteq reserve
          /\ \A b \in Byte : \A q \in candidates'[b] :
                q \in candidates[b] \/ (q \in reserve /\ Len(data[q]) > Len(canon))
      <3>1. CASE r \in reserve
        <4>1. TryMoveToCandidates({r}, reserve, candidates, Finished)
          BY <1>3, <3>1 DEF ReplayDataUpdated
        <4>2. /\ {r} \in SUBSET Replay /\ Finished \in SUBSET Replay
              /\ reserve \in SUBSET Replay /\ candidates \in [Byte -> SUBSET Replay]
          BY DEF Finished, TypeOK
        <4>3. QED
          BY <3>1, <4>1, <4>2, TryMoveShape
      <3>2. CASE r \notin reserve
        BY <1>3, <3>2 DEF ReplayDataUpdated
      <3>3. QED
        BY <3>1, <3>2
    <2>3. Announced'
      BY <2>1 DEF Announced, TypeOK
    <2>4. \A q \in Replay : (task'[q] = "new" <=> task[q] = "new")
                           /\ (task'[q] = "ended" => task[q] = "ended")
      BY DEF TypeOK
    <2>5. Registered'
      BY <2>1, <2>2, <2>4 DEF Registered, AllCandidates, TypeOK
    <2>6. StalemateShape'
      BY <1>3, <2>1, <2>2, <2>4 DEF StalemateShape, TypeOK
    <2>7. QuorumShape'
      BY <1>3, <2>1 DEF QuorumShape
    <2>8. QED
      BY <1>1, <2>3, <2>5, <2>6, <2>7
  <1>4. CASE mode = "Quorum"
    <2>1. UNCHANGED <<mode, candidates, quorum, reserve, started, canon>>
      BY <1>4 DEF ReplayDataUpdated, stateVars
    <2>2. Announced'
      BY <1>4, <2>1 DEF Announced, QuorumShape
    <2>3. \A q \in Replay : task'[q] = "new" <=> task[q] = "new"
      BY DEF TypeOK
    <2>4. Registered'
      BY <2>1, <2>3 DEF Registered, AllCandidates, TypeOK
    <2>5. \E m \in quorum : canonDelayed' >= MinOf(delayed'[m], Len(canon))
      <3>1. CASE r \in quorum
        <4>1. UpdateCanonDelayed(quorum, delayed', Len(canon))
          BY <1>4, <3>1 DEF ReplayDataUpdated
        <4>2. /\ canonDelayed \in Nat /\ Len(canon) \in Nat
              /\ canonDelayed <= Len(canon) /\ quorum \in SUBSET Replay
          BY CanonTypes
        <4>3. QED
          BY <1>2, <4>1, <4>2, UpdateCanonDelayedType
      <3>2. CASE r \notin quorum
        <4>1. canonDelayed' = canonDelayed
          BY <1>4, <3>2 DEF ReplayDataUpdated
        <4>2. \A m \in quorum : delayed'[m] = delayed[m]
          BY <3>2 DEF TypeOK
        <4>3. QED
          BY <1>4, <4>1, <4>2 DEF QuorumShape
      <3>3. QED
        BY <3>1, <3>2
    <2>6. StalemateShape' /\ QuorumShape'
      BY <1>4, <2>1, <2>5 DEF StalemateShape, QuorumShape
    <2>7. QED
      BY <1>1, <2>2, <2>4, <2>6
  <1>5. QED
    BY <1>3, <1>4 DEF TypeOK

\* The steps of single connections keep it.
LEMMA FinishInvConnections ==
    ASSUME FinishInv, NEW r \in Replay,
           \/ Connect(r)
           \/ HeaderAdded(r)
           \/ \E b \in Byte : ReadData(r, b)
           \/ \E position \in 0 .. MaxData : UpdateTimestamp(r, position)
           \/ CloseConnection(r)
           \/ FinishReplay(r)
    PROVE  FinishInv'
  <1> USE DEF FinishInv
  <1>1. TypeOK'
    BY TypeStep DEF Next
  <1>2. CASE Connect(r)
    <2>1. /\ task' = [task EXCEPT ![r] = "header"] /\ task[r] = "new"
          /\ reserve' = reserve \cup {r}
          /\ UNCHANGED <<data, delayed, mode, candidates, quorum, started, canon, canonDelayed>>
      BY <1>2 DEF Connect, canonVars
    <2>2. \A q \in Replay : /\ task'[q] # "new" <=> (q = r \/ task[q] # "new")
                            /\ task'[q] = "data" <=> task[q] = "data"
                            /\ task'[q] = "ended" <=> task[q] = "ended"
      BY <2>1 DEF TypeOK
    <2>3. Settled' /\ Announced'
      BY <2>1, <2>2 DEF Settled, Announced
    <2>4. Registered'
      BY <2>1, <2>2 DEF Registered, AllCandidates, TypeOK
    <2>5. StalemateShape' /\ QuorumShape'
      BY <2>1, <2>2 DEF StalemateShape, QuorumShape, TypeOK
    <2>6. QED
      BY <1>1, <2>3, <2>4, <2>5
  <1>3. CASE HeaderAdded(r)
    <2>1. /\ task' = [task EXCEPT ![r] = "data"] /\ task[r] = "header"
          /\ UNCHANGED <<data, delayed, mode, candidates, quorum, reserve,
                         started, canon, canonDelayed>>
      BY <1>3 DEF HeaderAdded, stateVars
    <2>2. \A q \in Replay : /\ task'[q] # "new" <=> task[q] # "new"
                            /\ task'[q] # "data" => task[q] # "data"
                            /\ task'[q] = "ended" <=> task[q] = "ended"
      BY <2>1 DEF TypeOK
    <2>3. Settled' /\ Announced'
      BY <2>1, <2>2 DEF Settled, Announced
    <2>4. Registered'
      BY <2>1, <2>2 DEF Registered, AllCandidates, TypeOK
    <2>5. StalemateShape' /\ QuorumShape'
      BY <2>1, <2>2 DEF StalemateShape, QuorumShape, TypeOK
    <2>6. QED
      BY <1>1, <2>3, <2>4, <2>5
  <1>4. ASSUME NEW b \in Byte, ReadData(r, b) PROVE FinishInv'
    <2>1. /\ data' = [data EXCEPT ![r] = Append(data[r], b)] /\ task[r] = "data"
          /\ UNCHANGED <<task, delayed, mode, candidates, quorum, reserve,
                         started, canon, canonDelayed>>
      BY <1>4 DEF ReadData, stateVars, canonVars
    <2>2. Len(Append(data[r], b)) = Len(data[r]) + 1
      BY AppendFacts DEF TypeOK
    <2>3. \A q \in Replay : /\ Len(data[q]) \in Nat /\ Len(data'[q]) \in Nat
                            /\ Len(data'[q]) >= Len(data[q])
                            /\ q # r => data'[q] = data[q]
      <3>1. data \in [Replay -> Seq(Byte)]
        BY DEF TypeOK
      <3>2. \A q \in Replay : data[q] \in Seq(Byte) /\ Len(data[q]) \in Nat
        BY <3>1
      <3>3. /\ data'[r] = Append(data[r], b)
            /\ \A q \in Replay : q # r => data'[q] = data[q]
        BY <2>1, <3>1
      <3>4. Len(data'[r]) = Len(data[r]) + 1
        BY <2>2, <3>3
      <3>5. QED
        BY <3>2, <3>3, <3>4
    <2>4. Settled' /\ Announced'
      BY <2>1, <2>3 DEF Settled, Announced
    <2>5. Registered'
      BY <2>1 DEF Registered, AllCandidates
    <2>6. Len(canon) \in Nat /\ quorum \in SUBSET Replay
          /\ candidates \in [Byte -> SUBSET Replay]
      BY DEF TypeOK
    <2>7. StalemateShape' /\ QuorumShape'
      BY <2>1, <2>3, <2>6 DEF StalemateShape, QuorumShape
    <2>8. QED
      BY <1>1, <2>4, <2>5, <2>7
  <1>5. ASSUME NEW position \in 0 .. MaxData, UpdateTimestamp(r, position)
        PROVE  FinishInv'
    <2>1. /\ task' = task /\ data' = data /\ task[r] = "data"
          /\ position \in delayed[r] .. Len(data[r])
          /\ delayed' = [delayed EXCEPT ![r] = position]
          /\ ReplayDataUpdated(r, delayed')
      BY <1>5 DEF UpdateTimestamp
    <2>2. /\ \A q \in Replay \ {r} : task'[q] = task[q] /\ delayed'[q] = delayed[q]
          /\ delayed'[r] >= delayed[r]
      BY <2>1 DEF TypeOK
    <2>3. QED
      BY <1>1, <2>1, <2>2, FinishInvDataUpdated
  <1>6. CASE CloseConnection(r)
    <2>1. /\ data' = data /\ task[r] \in {"header", "data"}
          /\ task' = [task EXCEPT ![r] = "closing"]
          /\ delayed' = [delayed EXCEPT ![r] = Len(data[r])]
          /\ ReplayDataUpdated(r, delayed')
      BY <1>6 DEF CloseConnection
    <2>2. /\ \A q \in Replay \ {r} : task'[q] = task[q] /\ delayed'[q] = delayed[q]
          /\ task'[r] = "closing"
          /\ delayed'[r] = Len(data[r])
          /\ delayed'[r] >= delayed[r]
      BY <2>1 DEF TypeOK
    <2>3. QED
      BY <1>1, <2>1, <2>2, FinishInvDataUpdated
  <1>7. CASE FinishReplay(r)
    <2>1. /\ task' = [task EXCEPT ![r] = "ended"] /\ task[r] = "closing"
          /\ UNCHANGED <<data, delayed, mode, quorum, started, canon, canonDelayed>>
      BY <1>7 DEF FinishReplay, canonVars
    <2>2. \A q \in Replay : /\ task'[q] # "new" <=> task[q] # "new"
                            /\ task'[q] # "data" <=> task[q] # "data"
                            /\ q # r => task'[q] = task[q]
      BY <2>1 DEF TypeOK
    <2>3. /\ reserve' \subseteq reserve
          /\ mode = "Stalemate" => r \notin reserve'
          /\ \A b \in Byte : \A q \in candidates'[b] :
                q \in candidates[b] \/ (q \in reserve /\ Len(data[q]) > Len(canon))
      <3>1. CASE mode = "Stalemate" /\ r \in reserve
        <4>1. TryMoveToCandidates({r}, reserve, candidates, Finished \cup {r})
          BY <1>7, <3>1 DEF FinishReplay
        <4> DEFINE gone == Finished \cup {r}
        <4>2. /\ {r} \in SUBSET Replay /\ gone \in SUBSET Replay /\ r \in gone
              /\ reserve \in SUBSET Replay /\ candidates \in [Byte -> SUBSET Replay]
          BY DEF Finished, TypeOK
        <4>3. TryMoveToCandidates({r}, reserve, candidates, gone)
          BY <4>1
        <4> HIDE DEF gone
        <4>4. QED
          BY <3>1, <4>2, <4>3, TryMoveShape
      <3>2. CASE ~(mode = "Stalemate" /\ r \in reserve)
        BY <1>7, <3>2 DEF FinishReplay
      <3>3. QED
        BY <3>1, <3>2
    <2>4. Settled' /\ Announced'
      BY <2>1, <2>2 DEF Settled, Announced
    <2>5. Registered'
      BY <2>1, <2>2, <2>3 DEF Registered, AllCandidates, TypeOK
    <2>6. StalemateShape'
      BY <2>1, <2>2, <2>3 DEF StalemateShape, TypeOK
    <2>7. QuorumShape'
      BY <2>1 DEF QuorumShape
    <2>8. QED
      BY <1>1, <2>4, <2>5, <2>6, <2>7
  <1>8. QED
    BY <1>2, <1>3, <1>4, <1>5, <1>6, <1>7

\* So it is inductive.
LEMMA FinishInvStep == FinishInv /\ [Next]_vars => FinishInv'
  <1> SUFFICES ASSUME FinishInv, [Next]_vars PROVE FinishInv'
    OBVIOUS
  <1>1. TypeOK'
    BY TypeStep DEF FinishInv
  <1>2. ASSUME UNCHANGED <<task, data, delayed, mode, candidates, quorum, reserve,
                           started, canon, canonDelayed>>
        PROVE  FinishInv'
    BY <1>1, <1>2 DEF FinishInv, Settled, Announced, Registered, AllCandidates,
                      StalemateShape, QuorumShape
  <1>3. CASE Finalize
    BY <1>2, <1>3 DEF Finalize, writerVars, stateVars
  <1>4. CASE UNCHANGED vars
    BY <1>2, <1>4 DEF vars, writerVars, stateVars, canonVars
  <1>5. QED
    BY <1>3, <1>4, FinishInvWork, FinishInvConnections DEF Next, Terminated

\* When ReplayMerger::finalize runs, however the callbacks of however many
\* writers were interleaved, finish() does not panic and none of its
\* debug_asserts fails: the strategy is in a stalemate, C is fully exposed,
\* and neither the reserve nor the candidates hold a replay.
THEOREM FinishIsSafe == Spec => []FinishAssertions
  BY InitFinishInv, FinishInvStep, FinishInvSuffices, PTL DEF Spec

-----------------------------------------------------------------------------
(* No byte the strategy may still look at has been discarded.                *)

\* Every replay the strategy knows is in one place: a stalemate has no quorum,
\* a quorum no candidates, and a candidate has left the reserve.
Placed ==
    /\ mode = "Stalemate" => quorum = {}
    /\ mode = "Quorum" => AllCandidates = {}
    /\ reserve \cap AllCandidates = {}

\* A replay is never believed to match more than there is of C, a candidate is
\* believed to match all of it, and only replays in the strategy are discarded.
MatchingIsWithin ==
    /\ \A r \in Replay : matching[r] <= Len(canon)
    /\ \A r \in AllCandidates : matching[r] = Len(canon)
    /\ \A r \in Replay : task[r] = "new" => windowStart[r] = 0

WindowInv == FinishInv /\ Placed /\ MatchingIsWithin /\ NoDiscardedRead

\* discard rounds down to a chunk, so it never discards past what it is told.
LEMMA DiscardWithin ==
    ASSUME NEW from \in Nat, NEW until \in Nat, NEW bound \in Nat,
           from <= bound, until <= bound
    PROVE  Discard(from, until) \in Nat /\ Discard(from, until) <= bound
  <1>1. (until \div ChunkSize) * ChunkSize <= until
    BY ConstantsAssumption
  <1>2. (until \div ChunkSize) * ChunkSize \in Nat
    BY ConstantsAssumption
  <1>3. QED
    BY <1>1, <1>2 DEF Discard, MaxOf

\* The types that matter for the windows.
LEMMA WindowTypes ==
    ASSUME TypeOK
    PROVE  /\ quorum \in SUBSET Replay /\ reserve \in SUBSET Replay
           /\ Len(canon) \in Nat
           /\ \A r \in Replay : matching[r] \in Nat /\ windowStart[r] \in Nat
  <1>1. canon \in Seq(Byte) /\ matching \in [Replay -> Nat] /\ windowStart \in [Replay -> Nat]
    BY DEF TypeOK
  <1>2. QED
    BY <1>1 DEF TypeOK

\* The known prefix that is skipped is part of C, and grows with it.
LEMMA MatchStartBounds ==
    ASSUME NEW n \in Nat, NEW m \in Nat, n <= m
    PROVE  /\ MatchStartOptimization(n) <= n
           /\ MatchStartOptimization(n) <= MatchStartOptimization(m)
  BY ConstantsAssumption DEF MatchStartOptimization, MaxOf

\* What becomes of each replay that is offered as a candidate: it stays where
\* it was, ended too short, diverged, or is filed under its next byte.
Offered(moving, from, cand, finished) ==
    /\ reserve' \subseteq from /\ from \ moving \subseteq reserve'
    /\ \A r \in Replay \ moving :
         matching'[r] = matching[r] /\ windowStart'[r] = windowStart[r]
    /\ \A b \in Byte : \A r \in cand[b] : r \in candidates'[b]
    /\ \A b \in Byte : \A r \in candidates'[b] :
         \/ r \in cand[b]
         \/ /\ r \in moving /\ r \notin reserve'
            /\ Len(data[r]) > Len(canon) /\ data[r][Len(canon) + 1] = b
            /\ ~DivergesAtStalemate(r)
            /\ matching'[r] = MaxOf(Len(canon), matching[r])
            /\ windowStart'[r] =
                 Discard(windowStart[r], MaxOf(Len(canon), matching[r]))
    /\ \A r \in moving :
         \/ r \in reserve' /\ r \notin finished
            /\ matching'[r] = matching[r] /\ windowStart'[r] = windowStart[r]
            /\ Len(data[r]) <= Len(canon)
         \/ r \notin reserve' /\ matching'[r] = matching[r]
            /\ r \in finished /\ Len(data[r]) <= Len(canon)
         \/ r \notin reserve' /\ matching'[r] = matching[r]
            /\ Len(data[r]) > Len(canon) /\ DivergesAtStalemate(r)
         \/ r \notin reserve' /\ \E b \in Byte : r \in candidates'[b]

\* try_move_replay_to_candidates does that.
LEMMA TryMoveOutcome ==
    ASSUME TypeOK,
           NEW moving \in SUBSET Replay, NEW from \in SUBSET Replay,
           NEW cand \in [Byte -> SUBSET Replay], NEW finished \in SUBSET Replay,
           moving \subseteq from,
           TryMoveToCandidates(moving, from, cand, finished)
    PROVE  Offered(moving, from, cand, finished)
  <1> DEFINE long    == {r \in moving : Len(data[r]) > Len(canon)}
             short   == (moving \ long) \cap finished
             diverge == {r \in long : DivergesAtStalemate(r)}
             match   == long \ diverge
  <1>1. /\ reserve' = from \ (long \cup short)
        /\ candidates' = [b \in Byte |-> cand[b] \cup
                            {r \in match : data[r][Len(canon) + 1] = b}]
        /\ matching' = [r \in Replay |->
                IF r \in match THEN MaxOf(Len(canon), matching[r])
                ELSE matching[r]]
        /\ windowStart' = [r \in Replay |->
                IF r \in short \cup diverge THEN DiscardAll(windowStart[r])
                ELSE IF r \in match
                THEN Discard(windowStart[r], MaxOf(Len(canon), matching[r]))
                ELSE windowStart[r]]
    BY DEF TryMoveToCandidates
  <1>2. \A r \in Replay : Len(data[r]) \in Nat /\ Len(canon) \in Nat /\ data[r] \in Seq(Byte)
    BY DEF TypeOK
  <1>3. \A r \in Replay : Len(data[r]) > Len(canon) => data[r][Len(canon) + 1] \in Byte
    BY <1>2
  <1>4. \A r \in match : r \notin short \cup diverge
    OBVIOUS
  <1>5. \A r \in Replay \ (short \cup diverge \cup match) :
            matching'[r] = matching[r] /\ windowStart'[r] = windowStart[r]
    <2> HIDE DEF short, diverge, match
    <2>1. QED
      BY <1>1
  <1>6. \A r \in match : /\ matching'[r] = MaxOf(Len(canon), matching[r])
                         /\ windowStart'[r] = Discard(windowStart[r], MaxOf(Len(canon), matching[r]))
    <2>1. match \subseteq Replay
      OBVIOUS
    <2> HIDE DEF short, diverge, match
    <2>2. QED
      BY <1>1, <1>4, <2>1
  <1>7. \A r \in Replay \ match : matching'[r] = matching[r]
    <2> HIDE DEF match
    <2>1. QED
      BY <1>1
  <1>8. \A r \in match : \E b \in Byte : r \in candidates'[b]
    <2> SUFFICES ASSUME NEW r \in match PROVE data[r][Len(canon) + 1] \in Byte
      BY <1>1
    <2>1. QED
      BY <1>3
  <1>9. \A b \in Byte : candidates'[b] = cand[b] \cup {r \in match : data[r][Len(canon) + 1] = b}
    BY <1>1
  <1>10. \A r \in moving :
                \/ r \in reserve' /\ r \notin finished
                   /\ matching'[r] = matching[r] /\ windowStart'[r] = windowStart[r]
                   /\ Len(data[r]) <= Len(canon)
                \/ r \notin reserve' /\ matching'[r] = matching[r]
                   /\ r \in finished /\ Len(data[r]) <= Len(canon)
                \/ r \notin reserve' /\ matching'[r] = matching[r]
                   /\ Len(data[r]) > Len(canon) /\ DivergesAtStalemate(r)
                \/ r \notin reserve' /\ \E b \in Byte : r \in candidates'[b]
    <2> SUFFICES ASSUME NEW r \in moving
                 PROVE  \/ r \in reserve' /\ r \notin finished
                           /\ matching'[r] = matching[r] /\ windowStart'[r] = windowStart[r]
                           /\ Len(data[r]) <= Len(canon)
                        \/ r \notin reserve' /\ matching'[r] = matching[r]
                           /\ r \in finished /\ Len(data[r]) <= Len(canon)
                        \/ r \notin reserve' /\ matching'[r] = matching[r]
                           /\ Len(data[r]) > Len(canon) /\ DivergesAtStalemate(r)
                        \/ r \notin reserve' /\ \E b \in Byte : r \in candidates'[b]
      OBVIOUS
    <2>1. CASE r \in match
      BY <1>1, <1>8, <2>1
    <2>2. CASE r \in diverge
      BY <1>1, <1>7, <2>2
    <2>3. CASE r \in short
      BY <1>1, <1>2, <1>7, <2>3
    <2>4. CASE r \notin match \cup diverge \cup short
      <3>1. matching'[r] = matching[r] /\ windowStart'[r] = windowStart[r]
        BY <1>5, <2>4
      <3>2. QED
        BY <1>1, <1>2, <2>4, <3>1
    <2>5. QED
      BY <2>1, <2>2, <2>3, <2>4
  <1>11. /\ reserve' \subseteq from /\ from \ moving \subseteq reserve'
         /\ \A r \in Replay \ moving :
                matching'[r] = matching[r] /\ windowStart'[r] = windowStart[r]
    BY <1>1, <1>5
  <1>12. \A b \in Byte : \A r \in candidates'[b] :
                \/ r \in cand[b]
                \/ /\ r \in moving /\ r \notin reserve'
                   /\ Len(data[r]) > Len(canon) /\ data[r][Len(canon) + 1] = b
                   /\ ~DivergesAtStalemate(r)
                   /\ matching'[r] = MaxOf(Len(canon), matching[r])
                   /\ windowStart'[r] =
                        Discard(windowStart[r], MaxOf(Len(canon), matching[r]))
    BY <1>1, <1>6, <1>9
  <1>13. QED
    BY <1>9, <1>10, <1>11, <1>12 DEF Offered

\* The bytes of what one resolved stalemate makes of C: C itself, the byte that
\* won, and the bytes of a member of the new quorum.
IsMerged(u, c, b, d, p) ==
    /\ Len(u) = p
    /\ \A i \in 1 .. Len(c) : u[i] = c[i]
    /\ u[Len(c) + 1] = b
    /\ \A i \in (Len(c) + 2) .. p : u[i] = d[i]

LEMMA MergedBytes ==
    ASSUME NEW c \in Seq(Byte), NEW b \in Byte, NEW d \in Seq(Byte),
           NEW p \in Nat, p >= Len(c) + 1, p <= Len(d)
    PROVE  IsMerged(Append(c, b) \o SubSeq(d, Len(c) + 2, p), c, b, d, p)
  <1> DEFINE s == Append(c, b)
             t == SubSeq(d, Len(c) + 2, p)
  <1>1. s \in Seq(Byte) /\ Len(s) = Len(c) + 1 /\ Len(c) \in Nat
    OBVIOUS
  <1>2. s[Len(c) + 1] = b /\ \A i \in 1 .. Len(c) : s[i] = c[i]
    OBVIOUS
  <1>3. t \in Seq(Byte) /\ Len(t) = p - (Len(c) + 1)
    OBVIOUS
  <1>4. \A i \in (Len(c) + 2) .. p : t[i - (Len(c) + 1)] = d[i]
    <2> SUFFICES ASSUME NEW i \in (Len(c) + 2) .. p PROVE t[i - (Len(c) + 1)] = d[i]
      OBVIOUS
    <2>1. i - (Len(c) + 1) \in 1 .. (p - (Len(c) + 2) + 1)
      BY <1>1
    <2>2. (Len(c) + 2) + (i - (Len(c) + 1)) - 1 = i
      BY <1>1
    <2>3. QED
      BY <1>1, <2>1, <2>2
  <1> HIDE DEF s, t
  <1>5. \A i \in 1 .. Len(s) : (s \o t)[i] = s[i]
    BY <1>1, <1>3
  <1>6. \A i \in (Len(s) + 1) .. (Len(s) + Len(t)) : (s \o t)[i] = t[i - Len(s)]
    BY <1>1, <1>3
  <1>7. \A i \in (Len(c) + 2) .. p : (s \o t)[i] = d[i]
    <2>1. Len(s) + 1 = Len(c) + 2 /\ Len(s) + Len(t) = p
      BY <1>1, <1>3
    <2>2. QED
      BY <1>1, <1>4, <1>6, <2>1
  <1>8. /\ \A i \in 1 .. Len(c) : (s \o t)[i] = c[i]
        /\ (s \o t)[Len(c) + 1] = b
    BY <1>1, <1>2, <1>5
  <1>9. Len(s \o t) = p
    BY MergedFacts DEF s, t
  <1>10. IsMerged(s \o t, c, b, d, p)
    BY <1>7, <1>8, <1>9 DEF IsMerged
  <1>11. QED
    BY <1>10, Zenon DEF s, t

\* What exit_stalemate does to C, to the replays it keeps and to the others.
LEMMA ExitOutcome ==
    ASSUME TypeOK, ExitStalemate
    PROVE  \E b \in Byte, p \in Nat :
             /\ p > Len(canon) /\ Len(canon') = p
             /\ \A i \in 1 .. Len(canon) : canon'[i] = canon[i]
             /\ canon'[Len(canon) + 1] = b
             /\ \E q \in quorum' : /\ \A i \in (Len(canon) + 2) .. p : canon'[i] = data[q][i]
                                   /\ p <= Len(data[q])
             /\ IsNewQuorum(quorum', candidates[b])
             /\ reserve' = reserve \cup (candidates[b] \ quorum')
             /\ \A r \in quorum' :
                    /\ matching'[r] = MaxOf(p, matching[r])
                    /\ windowStart'[r] = Discard(windowStart[r], MaxOf(p, matching[r]))
             /\ \A r \in Replay \ quorum' : matching'[r] = matching[r]
             /\ \A r \in reserve' \ quorum' :
                    windowStart'[r] = Discard(windowStart[r], MatchStartOptimization(p))
             /\ \A r \in Replay \ (quorum' \cup reserve' \cup AllCandidates) :
                    windowStart'[r] = windowStart[r]
             /\ UpdateCanonDelayed(quorum', delayed, p)
             /\ IsQuorumPrefix(quorum', Len(canon) + 1, p)
  <1>1. PICK b \in Byte, Q \in SUBSET Replay, p \in 0 .. MaxData :
            ExitStalemateWith(b, Q, p)
    BY DEF ExitStalemate
  <1> DEFINE losers == UNION {candidates[c] : c \in Byte \ {b}}
             rest == reserve \cup (candidates[b] \ Q)
  <1>2. /\ IsNewQuorum(Q, candidates[b])
        /\ p >= Len(canon) + 1
        /\ IsQuorumPrefix(Q, Len(canon) + 1, p)
        /\ quorum' = Q
        /\ reserve' = rest
        /\ \E q \in Q : canon' = Append(canon, b) \o SubSeq(data[q], (Len(canon) + 1) + 1, p)
        /\ matching' = [r \in Replay |->
                IF r \in Q THEN MaxOf(p, matching[r]) ELSE matching[r]]
        /\ windowStart' = [r \in Replay |->
                IF r \in Q THEN Discard(windowStart[r], MaxOf(p, matching[r]))
                ELSE IF r \in rest
                THEN Discard(windowStart[r], MatchStartOptimization(p))
                ELSE IF r \in losers THEN DiscardAll(windowStart[r])
                ELSE windowStart[r]]
        /\ UpdateCanonDelayed(Q, delayed, p)
    BY <1>1 DEF ExitStalemateWith
  <1>3. /\ p \in Nat /\ Len(canon) \in Nat /\ canon \in Seq(Byte)
        /\ data \in [Replay -> Seq(Byte)]
        /\ (Len(canon) + 1) + 1 = Len(canon) + 2
    BY DEF TypeOK
  <1>4. PICK q \in Q : canon' = Append(canon, b) \o SubSeq(data[q], Len(canon) + 2, p)
    BY <1>2, <1>3
  <1>5. data[q] \in Seq(Byte) /\ p <= Len(data[q])
    BY <1>2, <1>3, QuorumPrefixIsShort
  <1>6. /\ Len(canon') = p
        /\ \A i \in 1 .. Len(canon) : canon'[i] = canon[i]
        /\ canon'[Len(canon) + 1] = b
        /\ \A i \in (Len(canon) + 2) .. p : canon'[i] = data[q][i]
    <2>1. PICK d \in Seq(Byte) : d = data[q] /\ p <= Len(d)
      BY <1>5
    <2>2. canon \in Seq(Byte) /\ p >= Len(canon) + 1
      BY <1>2, <1>3
    <2>3. canon' = Append(canon, b) \o SubSeq(d, Len(canon) + 2, p)
      BY <1>4, <2>1, Zenon
    <2>4. IsMerged(canon', canon, b, d, p)
      BY <1>3, <2>1, <2>2, <2>3, MergedBytes, Zenon
    <2>5. QED
      BY <2>1, <2>4 DEF IsMerged
  <1>7. losers \subseteq AllCandidates /\ rest \in SUBSET Replay
    BY DEF AllCandidates, TypeOK
  <1>8. /\ \A r \in Q : /\ matching'[r] = MaxOf(p, matching[r])
                        /\ windowStart'[r] = Discard(windowStart[r], MaxOf(p, matching[r]))
        /\ \A r \in Replay \ Q : matching'[r] = matching[r]
        /\ \A r \in rest \ Q :
                windowStart'[r] = Discard(windowStart[r], MatchStartOptimization(p))
        /\ \A r \in Replay \ (Q \cup rest \cup AllCandidates) : windowStart'[r] = windowStart[r]
    <2> HIDE DEF losers, rest
    <2>1. QED
      BY <1>2, <1>7
  <1>9. p > Len(canon)
    BY <1>2, <1>3
  <1>10. \E m \in quorum' : /\ \A i \in (Len(canon) + 2) .. p : canon'[i] = data[m][i]
                            /\ p <= Len(data[m])
    BY <1>2, <1>5, <1>6
  <1>11. /\ reserve' = reserve \cup (candidates[b] \ quorum')
         /\ IsNewQuorum(quorum', candidates[b])
         /\ UpdateCanonDelayed(quorum', delayed, p)
         /\ IsQuorumPrefix(quorum', Len(canon) + 1, p)
    BY <1>2, Zenon
  <1>12. /\ \A r \in quorum' :
                /\ matching'[r] = MaxOf(p, matching[r])
                /\ windowStart'[r] = Discard(windowStart[r], MaxOf(p, matching[r]))
         /\ \A r \in Replay \ quorum' : matching'[r] = matching[r]
         /\ \A r \in reserve' \ quorum' :
                windowStart'[r] = Discard(windowStart[r], MatchStartOptimization(p))
         /\ \A r \in Replay \ (quorum' \cup reserve' \cup AllCandidates) :
                windowStart'[r] = windowStart[r]
    <2> HIDE DEF losers, rest
    <2>1. quorum' = Q /\ reserve' = rest
      BY <1>2
    <2>2. QED
      BY <1>8, <2>1, Zenon
  <1>13. p \in Nat
    BY <1>3
  <1>14. QED
    BY <1>6, <1>9, <1>10, <1>11, <1>12, <1>13, ZenonT(60)

\* Nothing is discarded of a new writer: nobody is in the strategy yet.
LEMMA InitWindowInv == Init => WindowInv
  <1> SUFFICES ASSUME Init PROVE WindowInv
    OBVIOUS
  <1>1. FinishInv
    BY InitFinishInv
  <1>2. AllCandidates = {} /\ Len(canon) = 0
    BY EmptyIsSeq DEF Init, AllCandidates, NoCandidates
  <1>3. Placed /\ MatchingIsWithin /\ NoDiscardedRead
    BY <1>2 DEF Init, Placed, MatchingIsWithin, NoDiscardedRead
  <1>4. QED
    BY <1>1, <1>3 DEF WindowInv

\* Offering replays as candidates discards what matches C, and everything of
\* the replays that are dropped; it leaves the rest alone.
LEMMA WindowTryMove ==
    ASSUME WindowInv, TypeOK',
           NEW moving \in SUBSET Replay, NEW from \in SUBSET (reserve \cup quorum),
           NEW cand \in [Byte -> SUBSET Replay], NEW finished \in SUBSET Replay,
           moving \subseteq from,
           \A b \in Byte : cand[b] \subseteq candidates[b] /\ cand[b] \cap from = {},
           TryMoveToCandidates(moving, from, cand, finished),
           mode' = "Stalemate", quorum' = {}, canon' = canon,
           \A r \in Replay : task'[r] = "new" => task[r] = "new"
    PROVE  Placed' /\ MatchingIsWithin' /\ NoDiscardedRead'
  <1> TypeOK
    BY DEF WindowInv, FinishInv
  <1>1. /\ from \in SUBSET Replay
        /\ Len(canon) \in Nat
        /\ \A r \in Replay : matching[r] \in Nat /\ windowStart[r] \in Nat
    BY WindowTypes
  <1>2. /\ reserve' \subseteq from
        /\ \A r \in Replay \ moving :
                matching'[r] = matching[r] /\ windowStart'[r] = windowStart[r]
        /\ \A b \in Byte : \A r \in candidates'[b] :
                \/ r \in cand[b]
                \/ /\ r \in moving /\ r \notin reserve'
                   /\ matching'[r] = MaxOf(Len(canon), matching[r])
                   /\ windowStart'[r] =
                        Discard(windowStart[r], MaxOf(Len(canon), matching[r]))
        /\ \A r \in moving :
                \/ r \in reserve'
                   /\ matching'[r] = matching[r] /\ windowStart'[r] = windowStart[r]
                \/ r \notin reserve' /\ matching'[r] = matching[r]
                \/ r \notin reserve' /\ \E b \in Byte : r \in candidates'[b]
    <2>1. Offered(moving, from, cand, finished)
      BY <1>1, TryMoveOutcome
    <2>2. QED
      BY <2>1 DEF Offered
  <1>3. MatchStartOptimization(Len(canon)) \in Nat
        /\ MatchStartOptimization(Len(canon)) <= Len(canon)
    BY <1>1, MatchStartBounds, MatchStartOptimizationType
  <1>4. \A r \in from : MaxOf(Len(canon), matching[r]) = Len(canon)
                        /\ windowStart[r] <= Len(canon)
                        /\ windowStart[r] <= MatchStart(r)
    BY <1>1, <1>3 DEF WindowInv, MatchingIsWithin, NoDiscardedRead, MatchStart, MaxOf
  <1>5. \A r \in from : Discard(windowStart[r], Len(canon)) <= Len(canon)
    <2> SUFFICES ASSUME NEW r \in from PROVE Discard(windowStart[r], Len(canon)) <= Len(canon)
      OBVIOUS
    <2>1. r \in Replay
      BY <1>1
    <2>2. windowStart[r] \in Nat /\ windowStart[r] <= Len(canon)
      BY <1>1, <1>4, <2>1
    <2> DEFINE w == windowStart[r]
               n == Len(canon)
    <2>3. w \in Nat /\ n \in Nat /\ w <= n /\ n <= n
      BY <1>1, <2>2
    <2> HIDE DEF w, n
    <2>4. Discard(w, n) <= n
      BY <2>3, DiscardWithin
    <2>5. QED
      BY <2>4 DEF w, n
  <1>6. \A r \in AllCandidates' :
            \/ r \in AllCandidates /\ r \notin from
               /\ matching'[r] = matching[r] /\ windowStart'[r] = windowStart[r]
            \/ r \in moving /\ r \notin reserve'
               /\ matching'[r] = Len(canon) /\ windowStart'[r] <= Len(canon)
    <2> SUFFICES ASSUME NEW b \in Byte, NEW r \in candidates'[b]
                 PROVE  \/ r \in AllCandidates /\ r \notin from
                           /\ matching'[r] = matching[r] /\ windowStart'[r] = windowStart[r]
                        \/ r \in moving /\ r \notin reserve'
                           /\ matching'[r] = Len(canon) /\ windowStart'[r] <= Len(canon)
      BY DEF AllCandidates
    <2>1. CASE r \in cand[b]
      <3>1. r \in AllCandidates /\ r \notin from /\ r \in Replay
        BY <2>1 DEF AllCandidates
      <3>2. QED
        BY <1>2, <3>1
    <2>2. CASE r \notin cand[b]
      <3>1. /\ r \in moving /\ r \notin reserve'
            /\ matching'[r] = MaxOf(Len(canon), matching[r])
            /\ windowStart'[r] =
                        Discard(windowStart[r], MaxOf(Len(canon), matching[r]))
        BY <1>2, <2>2
      <3>2. QED
        BY <1>4, <1>5, <3>1
    <2>3. QED
      BY <2>1, <2>2
  <1>7. Placed'
    BY <1>2, <1>6 DEF Placed
  <1>8. \A r \in reserve' : matching'[r] = matching[r] /\ windowStart'[r] = windowStart[r]
    BY <1>1, <1>2
  <1>9. \A r \in Replay : matching'[r] = matching[r] \/ r \in AllCandidates'
    BY <1>2 DEF AllCandidates
  <1>10. MatchingIsWithin'
    <2>1. \A r \in AllCandidates' : matching'[r] = Len(canon)
      BY <1>6 DEF WindowInv, MatchingIsWithin
    <2>2. \A r \in Replay : matching'[r] <= Len(canon)
      BY <1>1, <1>9, <2>1 DEF WindowInv, MatchingIsWithin
    <2>3. \A r \in moving : task'[r] # "new"
      BY DEF WindowInv, FinishInv, Registered
    <2>4. \A r \in Replay : task'[r] = "new" => windowStart'[r] = 0
      BY <1>2, <2>3 DEF WindowInv, MatchingIsWithin
    <2>5. QED
      BY <2>1, <2>2, <2>4 DEF MatchingIsWithin
  <1>11. \A r \in AllCandidates' : windowStart'[r] <= Len(canon)
    BY <1>6 DEF WindowInv, NoDiscardedRead
  <1>12. \A r \in reserve' : windowStart'[r] <= MatchStart(r)'
    BY <1>2, <1>4, <1>8 DEF MatchStart
  <1>13. NoDiscardedRead'
    BY <1>11, <1>12 DEF NoDiscardedRead
  <1>14. QED
    BY <1>7, <1>10, <1>13

\* exit_stalemate leaves in the windows of the reserve what a later comparison
\* starts at, and in those of the quorum what is not merged yet.
LEMMA WindowExit ==
    ASSUME WindowInv, ExitStalemate
    PROVE  Placed' /\ MatchingIsWithin' /\ NoDiscardedRead'
  <1> TypeOK
    BY DEF WindowInv, FinishInv
  <1>1. PICK b \in Byte, p \in Nat :
             /\ p > Len(canon) /\ Len(canon') = p
             /\ IsNewQuorum(quorum', candidates[b])
             /\ reserve' = reserve \cup (candidates[b] \ quorum')
             /\ \A r \in quorum' :
                    /\ matching'[r] = MaxOf(p, matching[r])
                    /\ windowStart'[r] = Discard(windowStart[r], MaxOf(p, matching[r]))
             /\ \A r \in Replay \ quorum' : matching'[r] = matching[r]
             /\ \A r \in reserve' \ quorum' :
                    windowStart'[r] = Discard(windowStart[r], MatchStartOptimization(p))
             /\ \A r \in Replay \ (quorum' \cup reserve' \cup AllCandidates) :
                    windowStart'[r] = windowStart[r]
    BY ExitOutcome
  <1>2. /\ mode' = "Quorum" /\ candidates' = NoCandidates /\ task' = task
        /\ mode = "Stalemate" /\ quorum = {}
    BY DEF ExitStalemate, writerVars, WindowInv, Placed
  <1>3. /\ reserve \in SUBSET Replay /\ AllCandidates \in SUBSET Replay
        /\ candidates[b] \subseteq AllCandidates /\ quorum' \subseteq candidates[b]
        /\ reserve' \in SUBSET Replay /\ Len(canon) \in Nat /\ Len(canon') \in Nat
        /\ \A r \in Replay : matching[r] \in Nat /\ windowStart[r] \in Nat
    BY <1>1, WindowTypes DEF AllCandidates, TypeOK, IsNewQuorum
  <1>4. AllCandidates' = {}
    BY <1>2 DEF AllCandidates, NoCandidates
  <1>5. Placed'
    BY <1>2, <1>4 DEF Placed
  <1>6. \A r \in Replay : matching[r] <= Len(canon)
    BY DEF WindowInv, MatchingIsWithin
  <1>7. \A r \in quorum' : matching'[r] = p
    BY <1>1, <1>3, <1>6 DEF MaxOf
  <1>8. MatchingIsWithin'
    <2>1. \A r \in Replay : matching'[r] <= Len(canon')
      BY <1>1, <1>3, <1>6, <1>7
    <2>2. \A r \in Replay : task[r] = "new" => r \notin quorum' \cup reserve' \cup AllCandidates
      BY <1>1, <1>3 DEF WindowInv, FinishInv, Registered
    <2>3. \A r \in Replay : task'[r] = "new" => windowStart'[r] = 0
      BY <1>1, <1>2, <2>2 DEF WindowInv, MatchingIsWithin
    <2>4. QED
      BY <1>4, <2>1, <2>3 DEF MatchingIsWithin
  <1>9. /\ MatchStartOptimization(Len(canon)) \in Nat /\ MatchStartOptimization(p) \in Nat
        /\ MatchStartOptimization(Len(canon)) <= MatchStartOptimization(p)
        /\ MatchStartOptimization(Len(canon)) <= Len(canon)
    BY <1>1, <1>3, MatchStartBounds, MatchStartOptimizationType
  <1>10. ASSUME NEW r \in quorum' PROVE windowStart'[r] <= MatchStart(r)'
    <2>1. r \in AllCandidates /\ r \in Replay
      BY <1>3
    <2> DEFINE w == windowStart[r]
    <2>2. w \in Nat /\ w <= p
      BY <1>1, <1>3, <2>1 DEF WindowInv, NoDiscardedRead
    <2>3. windowStart'[r] = Discard(w, p) /\ matching'[r] = p
      BY <1>1, <1>3, <1>7
    <2> HIDE DEF w
    <2>4. Discard(w, p) <= p /\ Discard(w, p) \in Nat
      BY <2>2, DiscardWithin
    <2>5. MatchStart(r)' >= p
      BY <1>1, <1>9, <2>3 DEF MatchStart, MaxOf
    <2>6. MatchStart(r)' \in Nat
      BY <1>1, <1>9, <2>3 DEF MatchStart, MaxOf
    <2>7. QED
      BY <2>3, <2>4, <2>5, <2>6
  <1>11. ASSUME NEW r \in reserve' \ quorum' PROVE windowStart'[r] <= MatchStart(r)'
    <2>1. r \in Replay
      BY <1>3
    <2> DEFINE w == windowStart[r]
               start == MatchStartOptimization(p)
               bound == MatchStart(r)'
    <2>2. matching'[r] = matching[r] /\ matching[r] \in Nat /\ w \in Nat /\ start \in Nat
      BY <1>1, <1>3, <1>9, <2>1
    <2>3. bound = MaxOf(matching[r], start)
      BY <1>1, <2>2 DEF MatchStart
    <2>4. bound \in Nat /\ start <= bound /\ matching[r] <= bound
      BY <2>2, <2>3, MaxOfType
    <2>5. w <= bound
      <3>1. CASE r \in reserve
        <4>1. w <= MatchStart(r)
          BY <3>1 DEF WindowInv, NoDiscardedRead
        <4>2. QED
          BY <1>9, <2>2, <2>4, <4>1 DEF MatchStart, MaxOf
      <3>2. CASE r \notin reserve
        <4>1. r \in AllCandidates
          BY <1>1, <1>3, <3>2
        <4>2. w <= Len(canon) /\ matching[r] = Len(canon)
          BY <4>1 DEF WindowInv, NoDiscardedRead, MatchingIsWithin
        <4>3. QED
          BY <2>2, <2>4, <4>2
      <3>3. QED
        BY <3>1, <3>2
    <2>6. windowStart'[r] = Discard(w, start)
      BY <1>1
    <2> HIDE DEF w, start, bound
    <2>7. Discard(w, start) <= bound
      BY <2>2, <2>4, <2>5, DiscardWithin
    <2>8. QED
      BY <2>6, <2>7 DEF bound
  <1>12. NoDiscardedRead'
    BY <1>4, <1>10, <1>11 DEF NoDiscardedRead
  <1>13. QED
    BY <1>5, <1>8, <1>12

\* A step that leaves the strategy and its windows alone keeps the invariant.
LEMMA WindowStays ==
    ASSUME WindowInv, FinishInv',
           UNCHANGED <<checkVars, mode, candidates, quorum, reserve, canon>>,
           \A r \in Replay : task'[r] = "new" => task[r] = "new"
    PROVE  WindowInv'
  BY DEF WindowInv, Placed, MatchingIsWithin, NoDiscardedRead, MatchStart, AllCandidates,
         checkVars

\* A callback of one replay keeps the windows.
LEMMA WindowDataUpdated ==
    ASSUME WindowInv, FinishInv', NEW r \in Replay, NEW positions,
           ReplayDataUpdated(r, positions),
           \A q \in Replay : task'[q] = "new" => task[q] = "new"
    PROVE  WindowInv'
  <1> TypeOK /\ TypeOK'
    BY DEF WindowInv, FinishInv
  <1>1. CASE mode = "Stalemate" /\ r \in reserve
    <2>1. /\ TryMoveToCandidates({r}, reserve, candidates, Finished)
          /\ UNCHANGED <<mode, quorum, canonVars>>
      BY <1>1 DEF ReplayDataUpdated
    <2>2. mode' = "Stalemate" /\ quorum' = {} /\ canon' = canon
      BY <1>1, <2>1 DEF WindowInv, Placed, canonVars
    <2>3. /\ {r} \in SUBSET Replay /\ {r} \subseteq reserve /\ Finished \in SUBSET Replay
          /\ candidates \in [Byte -> SUBSET Replay]
      BY <1>1 DEF Finished, TypeOK
    <2>4. \A b \in Byte : candidates[b] \subseteq candidates[b] /\ candidates[b] \cap reserve = {}
      BY DEF WindowInv, Placed, AllCandidates
    <2>5. Placed' /\ MatchingIsWithin' /\ NoDiscardedRead'
      BY <2>1, <2>2, <2>3, <2>4, WindowTryMove
    <2>6. QED
      BY <2>5 DEF WindowInv
  <1>2. CASE ~(mode = "Stalemate" /\ r \in reserve)
    <2>1. UNCHANGED <<checkVars, mode, candidates, quorum, reserve, canon>>
      BY <1>2 DEF ReplayDataUpdated, checkVars, stateVars, canonVars
    <2>2. QED
      BY <2>1, WindowStays
  <1>3. QED
    BY <1>1, <1>2

\* Neither the work loop nor any step of a connection discards what the
\* strategy may still look at.
LEMMA WindowStep == WindowInv /\ [Next]_vars => WindowInv'
  <1> SUFFICES ASSUME WindowInv, [Next]_vars PROVE WindowInv'
    OBVIOUS
  <1>0. FinishInv'
    BY FinishInvStep DEF WindowInv
  <1> TypeOK /\ TypeOK'
    BY <1>0 DEF WindowInv, FinishInv
  <1>1. CASE EnterStalemate
    <2> DEFINE all == reserve \cup quorum
               none == NoCandidates
               gone == Finished
    <2>1. /\ TryMoveToCandidates(all, all, none, gone)
          /\ mode' = "Stalemate" /\ quorum' = {} /\ canon' = canon /\ task' = task
      BY <1>1 DEF EnterStalemate, canonVars, writerVars
    <2>2. /\ all \in SUBSET Replay /\ none \in [Byte -> SUBSET Replay] /\ gone \in SUBSET Replay
          /\ \A b \in Byte : none[b] \subseteq candidates[b] /\ none[b] \cap all = {}
      BY WindowTypes DEF NoCandidates, Finished
    <2>3. all \in SUBSET (reserve \cup quorum)
      OBVIOUS
    <2> HIDE DEF all, none, gone
    <2>4. Placed' /\ MatchingIsWithin' /\ NoDiscardedRead'
      BY <2>1, <2>2, <2>3, WindowTryMove
    <2>5. QED
      BY <1>0, <2>4 DEF WindowInv
  <1>2. CASE ExitStalemate
    BY <1>0, <1>2, WindowExit DEF WindowInv
  <1>3. CASE Finalize \/ UNCHANGED vars
    <2>1. UNCHANGED <<task, checkVars, mode, candidates, quorum, reserve, canon>>
      BY <1>3 DEF Finalize, vars, stateVars, canonVars, writerVars
    <2>2. QED
      BY <1>0, <2>1, WindowStays
  <1>4. ASSUME NEW r \in Replay, Connect(r) PROVE WindowInv'
    <2>1. /\ task' = [task EXCEPT ![r] = "header"] /\ task[r] = "new"
          /\ reserve' = reserve \cup {r}
          /\ UNCHANGED <<checkVars, mode, candidates, quorum, canon>>
      BY <1>4 DEF Connect, canonVars
    <2>2. r \notin AllCandidates /\ windowStart[r] = 0
      BY <2>1 DEF WindowInv, FinishInv, Registered, MatchingIsWithin
    <2>3. \A q \in Replay : task'[q] = "new" => task[q] = "new"
      BY <2>1 DEF TypeOK
    <2>4. MatchStart(r)' >= 0
      BY WindowTypes, MatchStartOptimizationType DEF MatchStart, MaxOf, TypeOK
    <2>5. /\ AllCandidates' = AllCandidates
          /\ \A q \in Replay : MatchStart(q)' = MatchStart(q)
          /\ UNCHANGED <<windowStart, matching>>
      BY <2>1 DEF AllCandidates, MatchStart, checkVars
    <2>6. Placed' /\ MatchingIsWithin'
      BY <2>1, <2>2, <2>3, <2>5 DEF WindowInv, Placed, MatchingIsWithin
    <2>7. NoDiscardedRead'
      <3>1. \A q \in reserve \cup quorum : windowStart[q] <= MatchStart(q)' /\ q \in Replay
        BY <2>5, WindowTypes DEF WindowInv, NoDiscardedRead
      <3>2. QED
        BY <2>1, <2>2, <2>4, <2>5, <3>1 DEF WindowInv, NoDiscardedRead
    <2>8. QED
      BY <1>0, <2>6, <2>7 DEF WindowInv
  <1>5. ASSUME NEW r \in Replay,
               HeaderAdded(r) \/ \E b \in Byte : ReadData(r, b)
        PROVE  WindowInv'
    <2>1. UNCHANGED <<checkVars, mode, candidates, quorum, reserve, canon>>
      BY <1>5 DEF HeaderAdded, ReadData, stateVars, canonVars
    <2>2. \A q \in Replay : task'[q] = "new" => task[q] = "new"
      BY <1>5 DEF HeaderAdded, ReadData, TypeOK
    <2>3. QED
      BY <1>0, <2>1, <2>2, WindowStays
  <1>6. ASSUME NEW r \in Replay,
               \/ \E position \in 0 .. MaxData : UpdateTimestamp(r, position)
               \/ CloseConnection(r)
        PROVE  WindowInv'
    <2>1. ReplayDataUpdated(r, delayed')
      BY <1>6 DEF UpdateTimestamp, CloseConnection
    <2>2. \A q \in Replay : task'[q] = "new" => task[q] = "new"
      BY <1>6 DEF UpdateTimestamp, CloseConnection, TypeOK
    <2>3. QED
      BY <1>0, <2>1, <2>2, WindowDataUpdated
  <1>7. ASSUME NEW r \in Replay, FinishReplay(r) PROVE WindowInv'
    <2>1. /\ task' = [task EXCEPT ![r] = "ended"]
          /\ UNCHANGED <<mode, quorum, canon>>
      BY <1>7 DEF FinishReplay, canonVars
    <2>2. \A q \in Replay : task'[q] = "new" => task[q] = "new"
      BY <2>1 DEF TypeOK
    <2>3. CASE mode = "Stalemate" /\ r \in reserve
      <3> DEFINE gone == Finished \cup {r}
      <3>1. TryMoveToCandidates({r}, reserve, candidates, gone)
        BY <1>7, <2>3 DEF FinishReplay
      <3>2. mode' = "Stalemate" /\ quorum' = {} /\ canon' = canon
        BY <2>1, <2>3 DEF WindowInv, Placed
      <3>3. /\ {r} \in SUBSET Replay /\ {r} \subseteq reserve /\ gone \in SUBSET Replay
            /\ candidates \in [Byte -> SUBSET Replay]
        BY <2>3 DEF Finished, TypeOK
      <3>4. \A b \in Byte : candidates[b] \subseteq candidates[b] /\ candidates[b] \cap reserve = {}
        BY DEF WindowInv, Placed, AllCandidates
      <3> HIDE DEF gone
      <3>5. Placed' /\ MatchingIsWithin' /\ NoDiscardedRead'
        BY <2>2, <3>1, <3>2, <3>3, <3>4, WindowTryMove
      <3>6. QED
        BY <1>0, <3>5 DEF WindowInv
    <2>4. CASE ~(mode = "Stalemate" /\ r \in reserve)
      <3>1. UNCHANGED <<checkVars, mode, candidates, quorum, reserve, canon>>
        BY <1>7, <2>1, <2>4 DEF FinishReplay, checkVars
      <3>2. QED
        BY <1>0, <2>2, <3>1, WindowStays
    <2>5. QED
      BY <2>3, <2>4
  <1>8. QED
    BY <1>1, <1>2, <1>3, <1>4, <1>5, <1>6, <1>7 DEF Next, Work, Terminated

\* The asserts of BufDeque::get_chunk never fail: however whole chunks are
\* discarded, no byte the strategy may still compare or copy is among them.
THEOREM WindowsAreKept == Spec => []NoDiscardedRead
  <1>1. WindowInv => NoDiscardedRead
    BY DEF WindowInv
  <1>2. QED
    BY <1>1, InitWindowInv, WindowStep, PTL DEF Spec

-----------------------------------------------------------------------------
(* The strategy honours the contract of a merge strategy.                    *)

\* Data, and with it everything that is made of it, comes after a header.
HeaderFirst ==
    /\ \A r \in Replay : task[r] = "data" \/ Len(data[r]) > 0 => canonHeader # NoReplay
    /\ started \/ Len(canon) > 0 => canonHeader # NoReplay
    /\ \A r \in Replay : task[r] = "new" => Len(data[r]) = 0

\* A candidate was filed under the byte it continues C with.
FiledByNextByte ==
    \A b \in Byte : \A r \in candidates[b] : data[r][Len(canon) + 1] = b

\* A replay that was dropped can never extend C: it differs from C, or it has
\* ended and is no longer than C.
DroppedForGood ==
    \A r \in Present \ (reserve \cup quorum \cup AllCandidates) :
        \/ \E i \in 1 .. Len(canon) : i <= Len(data[r]) /\ data[r][i] # canon[i]
        \/ r \in Finished /\ Len(data[r]) <= Len(canon)

\* After finalize nobody is connected and the work loop has come to rest.
QuietOnceFinished == canonFinished => AllWritersGone /\ ~ShouldChangeState

ContractInv ==
    WindowInv /\ HeaderFirst /\ FiledByNextByte /\ DroppedForGood /\ QuietOnceFinished

\* The parts of the invariant that say which replays may still extend C.
Sorted == FiledByNextByte /\ DroppedForGood

\* Nothing is sent yet.
LEMMA InitContractInv == Init => ContractInv
  <1> SUFFICES ASSUME Init PROVE ContractInv
    OBVIOUS
  <1>1. WindowInv
    BY InitWindowInv
  <1>2. /\ \A b \in Byte : candidates[b] = {}
        /\ Len(canon) = 0 /\ Present = {}
        /\ \A r \in Replay : Len(data[r]) = 0 /\ task[r] = "new"
    BY EmptyIsSeq DEF Init, NoCandidates, Present
  <1>3. HeaderFirst
    BY <1>2 DEF Init, HeaderFirst
  <1>4. FiledByNextByte /\ DroppedForGood /\ QuietOnceFinished
    BY <1>2 DEF Init, FiledByNextByte, DroppedForGood, QuietOnceFinished
  <1>5. QED
    BY <1>1, <1>3, <1>4 DEF ContractInv

\* Once the merge is finished nothing happens to it any more.
LEMMA QuietIsFinal == ContractInv /\ canonFinished /\ [Next]_vars => UNCHANGED vars
  <1> SUFFICES ASSUME ContractInv, canonFinished, [Next]_vars PROVE UNCHANGED vars
    OBVIOUS
  <1>1. AllWritersGone /\ ~ShouldChangeState
    BY DEF ContractInv, QuietOnceFinished
  <1>2. ~Work
    BY <1>1 DEF Work, EnterStalemate, ExitStalemate, ShouldChangeState
  <1>3. \A r \in Replay :
            ~ \/ Connect(r) \/ HeaderAdded(r) \/ (\E b \in Byte : ReadData(r, b))
              \/ (\E position \in 0 .. MaxData : UpdateTimestamp(r, position))
              \/ CloseConnection(r) \/ FinishReplay(r)
    BY <1>1 DEF AllWritersGone, Connect, HeaderAdded, ReadData, UpdateTimestamp,
                CloseConnection, FinishReplay
  <1>4. QED
    BY <1>2, <1>3 DEF Next, Finalize, Terminated

\* Where the comparison of a replay starts is a position.
LEMMA MatchStartType ==
    ASSUME TypeOK, NEW r \in Replay
    PROVE  MatchStart(r) \in Nat /\ Len(data[r]) \in Nat /\ Len(canon) \in Nat
  <1>1. data[r] \in Seq(Byte) /\ canon \in Seq(Byte) /\ matching[r] \in Nat
    BY DEF TypeOK
  <1>2. Len(data[r]) \in Nat /\ Len(canon) \in Nat
    BY <1>1
  <1>3. MatchStartOptimization(Len(canon)) \in Nat
    BY <1>2, MatchStartOptimizationType
  <1>4. QED
    BY <1>1, <1>2, <1>3 DEF MatchStart, MaxOf

\* Offering replays as candidates files each under the byte it continues C
\* with, and drops none that could extend C.
LEMMA SortedTryMove ==
    ASSUME ContractInv, WindowInv',
           NEW moving \in SUBSET Replay, NEW cand \in [Byte -> SUBSET Replay],
           NEW finished \in SUBSET Replay,
           moving \subseteq reserve \cup quorum,
           \A b \in Byte : cand[b] = candidates[b],
           TryMoveToCandidates(moving, reserve \cup quorum, cand, finished),
           quorum' = {}, canon' = canon, data' = data, Present' = Present,
           Finished \subseteq Finished', finished \subseteq Finished'
    PROVE  Sorted'
  <1> TypeOK
    BY DEF ContractInv, WindowInv, FinishInv
  <1> DEFINE from == reserve \cup quorum
  <1>1. from \in SUBSET Replay
    BY WindowTypes
  <1>2. Offered(moving, from, cand, finished)
    <2> HIDE DEF from
    <2>1. TryMoveToCandidates(moving, from, cand, finished) /\ moving \subseteq from
      BY DEF from
    <2>2. QED
      BY <1>1, <2>1, TryMoveOutcome
  <1>3. /\ from \ moving \subseteq reserve'
        /\ \A b \in Byte : \A r \in candidates[b] : r \in candidates'[b]
        /\ \A b \in Byte : \A r \in candidates'[b] :
                r \in candidates[b] \/ data[r][Len(canon) + 1] = b
        /\ \A r \in moving :
                \/ r \in reserve'
                \/ r \in finished /\ Len(data[r]) <= Len(canon)
                \/ Len(data[r]) > Len(canon) /\ DivergesAtStalemate(r)
                \/ \E b \in Byte : r \in candidates'[b]
    BY <1>2 DEF Offered
  <1>4. FiledByNextByte'
    BY <1>3 DEF ContractInv, FiledByNextByte
  <1>5. ASSUME NEW r \in Replay, Len(data[r]) > Len(canon), DivergesAtStalemate(r)
        PROVE  \E i \in 1 .. Len(canon) : i <= Len(data[r]) /\ data[r][i] # canon[i]
    <2>1. PICK i \in (MatchStart(r) + 1) .. Len(canon) : data[r][i] # canon[i]
      BY <1>5 DEF DivergesAtStalemate
    <2>2. MatchStart(r) \in Nat /\ Len(canon) \in Nat /\ Len(data[r]) \in Nat
      BY MatchStartType
    <2>3. i \in 1 .. Len(canon) /\ i <= Len(data[r])
      BY <1>5, <2>1, <2>2
    <2>4. QED
      BY <2>1, <2>3
  <1>6. DroppedForGood'
    <2> SUFFICES ASSUME NEW r \in Present, r \notin reserve' \cup AllCandidates'
                 PROVE  \/ \E i \in 1 .. Len(canon) : i <= Len(data[r]) /\ data[r][i] # canon[i]
                        \/ r \in Finished' /\ Len(data[r]) <= Len(canon)
      BY DEF DroppedForGood
    <2>1. r \in Replay /\ r \notin AllCandidates
      BY <1>3 DEF Present, AllCandidates
    <2>2. CASE r \in moving
      BY <1>3, <1>5, <2>1, <2>2 DEF AllCandidates
    <2>3. CASE r \notin moving
      <3>1. r \notin reserve \cup quorum \cup AllCandidates
        BY <1>3, <2>1, <2>3
      <3>2. QED
        BY <3>1 DEF ContractInv, DroppedForGood
    <2>4. QED
      BY <2>2, <2>3
  <1>7. QED
    BY <1>4, <1>6 DEF Sorted

\* exit_stalemate drops the candidates of the other bytes, and they no longer
\* match C.
LEMMA SortedExit ==
    ASSUME ContractInv, ExitStalemate
    PROVE  Sorted'
  <1> TypeOK
    BY DEF ContractInv, WindowInv, FinishInv
  <1>1. PICK b \in Byte, p \in Nat :
             /\ p > Len(canon) /\ Len(canon') = p
             /\ \A i \in 1 .. Len(canon) : canon'[i] = canon[i]
             /\ canon'[Len(canon) + 1] = b
             /\ reserve' = reserve \cup (candidates[b] \ quorum')
    BY ExitOutcome
  <1>2. /\ mode = "Stalemate" /\ quorum = {} /\ candidates' = NoCandidates
        /\ UNCHANGED <<task, data>>
    BY DEF ExitStalemate, writerVars, ContractInv, WindowInv, Placed
  <1>3. AllCandidates' = {} /\ \A c \in Byte : candidates'[c] = {}
    BY <1>2 DEF AllCandidates, NoCandidates
  <1>4. Present' = Present /\ Finished' = Finished /\ Len(canon) \in Nat
    BY <1>2, WindowTypes DEF Present, Finished
  <1>5. DroppedForGood'
    <2> SUFFICES ASSUME NEW r \in Present, r \notin reserve' \cup quorum'
                 PROVE  \/ \E i \in 1 .. Len(canon') : i <= Len(data[r]) /\ data[r][i] # canon'[i]
                        \/ r \in Finished /\ Len(data[r]) <= Len(canon')
      BY <1>2, <1>4 DEF DroppedForGood
    <2>1. Len(data[r]) \in Nat
      BY DEF Present, TypeOK
    <2>2. ASSUME NEW c \in Byte, r \in candidates[c]
          PROVE  Len(canon) + 1 \in 1 .. Len(canon') /\ Len(canon) + 1 <= Len(data[r])
                 /\ data[r][Len(canon) + 1] # canon'[Len(canon) + 1]
      <3>1. c # b
        BY <1>1, <2>2
      <3>2. Len(data[r]) > Len(canon)
        BY <1>2, <2>2 DEF ContractInv, WindowInv, FinishInv, StalemateShape
      <3>3. data[r][Len(canon) + 1] = c
        BY <2>2 DEF ContractInv, FiledByNextByte
      <3>4. QED
        BY <1>1, <1>4, <2>1, <3>1, <3>2, <3>3
    <2>3. CASE r \notin AllCandidates
      <3>1. \/ \E i \in 1 .. Len(canon) : i <= Len(data[r]) /\ data[r][i] # canon[i]
            \/ r \in Finished /\ Len(data[r]) <= Len(canon)
        BY <1>1, <1>2, <2>3 DEF ContractInv, DroppedForGood
      <3>2. QED
        BY <1>1, <1>4, <2>1, <3>1
    <2>4. QED
      BY <2>2, <2>3 DEF AllCandidates
  <1>6. QED
    BY <1>3, <1>5 DEF Sorted, FiledByNextByte

\* A step that adds no byte and moves nobody keeps the replays sorted.
LEMMA SortedStays ==
    ASSUME ContractInv, UNCHANGED <<data, candidates, quorum, reserve, canon>>,
           \A r \in Replay : task[r] = "new" => task'[r] = "new",
           Finished \subseteq Finished'
    PROVE  Sorted'
  BY DEF ContractInv, FiledByNextByte, DroppedForGood, Sorted, Present, AllCandidates

\* A callback of one replay keeps them sorted.
LEMMA SortedDataUpdated ==
    ASSUME ContractInv, WindowInv', NEW r \in Replay, NEW positions,
           ReplayDataUpdated(r, positions), data' = data,
           Present' = Present, Finished' = Finished
    PROVE  Sorted'
  <1> TypeOK
    BY DEF ContractInv, WindowInv, FinishInv
  <1>1. CASE mode = "Stalemate" /\ r \in reserve
    <2>1. /\ TryMoveToCandidates({r}, reserve, candidates, Finished)
          /\ UNCHANGED <<quorum, canonVars>> /\ quorum = {}
      BY <1>1 DEF ReplayDataUpdated, ContractInv, WindowInv, Placed
    <2> DEFINE gone == Finished
    <2>2. /\ {r} \in SUBSET Replay /\ {r} \subseteq reserve \cup quorum
          /\ gone \in SUBSET Replay /\ gone \subseteq Finished'
          /\ candidates \in [Byte -> SUBSET Replay]
      BY <1>1 DEF Finished, TypeOK
    <2>3. reserve \cup quorum = reserve
      BY <2>1
    <2>4. TryMoveToCandidates({r}, reserve \cup quorum, candidates, gone)
      BY <2>1, <2>3
    <2>5. quorum' = {} /\ canon' = canon
      BY <2>1 DEF canonVars
    <2> HIDE DEF gone
    <2>6. QED
      BY <2>2, <2>4, <2>5, SortedTryMove
  <1>2. CASE ~(mode = "Stalemate" /\ r \in reserve)
    <2>1. UNCHANGED <<candidates, quorum, reserve, canon>>
      BY <1>2 DEF ReplayDataUpdated, stateVars, canonVars
    <2>2. \A q \in Replay : task[q] = "new" => task'[q] = "new"
      BY DEF Present
    <2>3. QED
      BY <2>1, <2>2, SortedStays
  <1>3. QED
    BY <1>1, <1>2

\* Data that arrives extends what was there, so it changes nobody's place.
LEMMA SortedReadData ==
    ASSUME ContractInv, NEW r \in Replay, NEW b \in Byte, ReadData(r, b)
    PROVE  Sorted'
  <1> TypeOK
    BY DEF ContractInv, WindowInv, FinishInv
  <1>1. /\ data' = [data EXCEPT ![r] = Append(data[r], b)] /\ task[r] = "data"
        /\ UNCHANGED <<task, mode, candidates, quorum, reserve, canon>>
    BY DEF ReadData, stateVars, canonVars
  <1>2. \A q \in Replay : /\ Len(data[q]) \in Nat /\ Len(data'[q]) \in Nat
                          /\ Len(data'[q]) >= Len(data[q])
                          /\ q # r => data'[q] = data[q]
                          /\ \A i \in 1 .. Len(data[q]) : data'[q][i] = data[q][i]
    <2>1. data \in [Replay -> Seq(Byte)]
      BY DEF TypeOK
    <2>2. \A q \in Replay : data[q] \in Seq(Byte) /\ Len(data[q]) \in Nat
      BY <2>1
    <2>3. /\ data'[r] = Append(data[r], b)
          /\ \A q \in Replay : q # r => data'[q] = data[q]
      BY <1>1, <2>1
    <2>4. /\ Len(Append(data[r], b)) = Len(data[r]) + 1
          /\ \A i \in 1 .. Len(data[r]) : Append(data[r], b)[i] = data[r][i]
      BY <2>2
    <2>5. QED
      BY <2>2, <2>3, <2>4
  <1>3. Len(canon) \in Nat /\ r \notin Finished
    BY <1>1, WindowTypes DEF Finished
  <1>4. Present' = Present /\ Finished' = Finished /\ AllCandidates' = AllCandidates
    BY <1>1 DEF Present, Finished, AllCandidates
  <1>5. FiledByNextByte'
    <2> SUFFICES ASSUME NEW c \in Byte, NEW q \in candidates[c]
                 PROVE  data'[q][Len(canon) + 1] = c
      BY <1>1 DEF FiledByNextByte
    <2>1. q \in Replay /\ mode = "Stalemate"
      BY DEF TypeOK, ContractInv, WindowInv, Placed, AllCandidates
    <2>2. Len(data[q]) > Len(canon)
      BY <2>1 DEF ContractInv, WindowInv, FinishInv, StalemateShape
    <2>3. data[q][Len(canon) + 1] = c
      BY DEF ContractInv, FiledByNextByte
    <2>4. Len(canon) + 1 \in 1 .. Len(data[q])
      BY <1>2, <1>3, <2>1, <2>2
    <2>5. QED
      BY <1>2, <2>1, <2>3, <2>4
  <1>6. DroppedForGood'
    <2> SUFFICES ASSUME NEW q \in Present \ (reserve \cup quorum \cup AllCandidates)
                 PROVE  \/ \E i \in 1 .. Len(canon) : i <= Len(data'[q]) /\ data'[q][i] # canon[i]
                        \/ q \in Finished /\ Len(data'[q]) <= Len(canon)
      BY <1>1, <1>4 DEF DroppedForGood
    <2>1. q \in Replay
      BY DEF Present
    <2>2. \/ \E i \in 1 .. Len(canon) : i <= Len(data[q]) /\ data[q][i] # canon[i]
          \/ q \in Finished /\ Len(data[q]) <= Len(canon)
      BY DEF ContractInv, DroppedForGood
    <2>3. CASE \E i \in 1 .. Len(canon) : i <= Len(data[q]) /\ data[q][i] # canon[i]
      <3>1. PICK i \in 1 .. Len(canon) : i <= Len(data[q]) /\ data[q][i] # canon[i]
        BY <2>3
      <3>2. i \in 1 .. Len(data[q])
        BY <1>2, <1>3, <2>1, <3>1
      <3>3. i <= Len(data'[q]) /\ data'[q][i] # canon[i]
        BY <1>2, <1>3, <2>1, <3>1, <3>2
      <3>4. QED
        BY <3>3
    <2>4. CASE q \in Finished /\ Len(data[q]) <= Len(canon)
      BY <1>2, <1>3, <2>1, <2>4
    <2>5. QED
      BY <2>2, <2>3, <2>4
  <1>7. QED
    BY <1>5, <1>6 DEF Sorted

\* Every step keeps the replays sorted.
LEMMA SortedStep ==
    ASSUME ContractInv, WindowInv', [Next]_vars
    PROVE  Sorted'
  <1> TypeOK
    BY DEF ContractInv, WindowInv, FinishInv
  <1>1. CASE EnterStalemate
    <2> DEFINE all == reserve \cup quorum
               none == NoCandidates
               gone == Finished
    <2>1. /\ TryMoveToCandidates(all, all, none, gone)
          /\ mode = "Quorum" /\ quorum' = {} /\ canon' = canon /\ task' = task /\ data' = data
      BY <1>1 DEF EnterStalemate, canonVars, writerVars
    <2>2. /\ all \in SUBSET Replay /\ none \in [Byte -> SUBSET Replay] /\ gone \in SUBSET Replay
          /\ Present' = Present /\ Finished' = Finished /\ gone \subseteq Finished'
      BY <2>1, WindowTypes DEF NoCandidates, Finished, Present
    <2>3. \A b \in Byte : none[b] = candidates[b]
      BY <2>1 DEF NoCandidates, ContractInv, WindowInv, Placed, AllCandidates
    <2>4. all \subseteq reserve \cup quorum /\ TryMoveToCandidates(all, reserve \cup quorum, none, gone)
      BY <2>1
    <2> HIDE DEF all, none, gone
    <2>5. QED
      BY <2>1, <2>2, <2>3, <2>4, SortedTryMove
  <1>2. CASE ExitStalemate
    BY <1>2, SortedExit
  <1>3. CASE Finalize \/ UNCHANGED vars
    <2>1. UNCHANGED <<task, data, candidates, quorum, reserve, canon>>
      BY <1>3 DEF Finalize, vars, stateVars, canonVars, writerVars
    <2>2. Finished' = Finished
      BY <2>1 DEF Finished
    <2>3. QED
      BY <2>1, <2>2, SortedStays
  <1>4. ASSUME NEW r \in Replay, Connect(r) PROVE Sorted'
    <2>1. /\ task' = [task EXCEPT ![r] = "header"] /\ task[r] = "new"
          /\ reserve' = reserve \cup {r}
          /\ UNCHANGED <<data, candidates, quorum, canon>>
      BY <1>4 DEF Connect, canonVars
    <2>2. Present' = Present \cup {r} /\ Finished' = Finished /\ AllCandidates' = AllCandidates
      BY <2>1 DEF Present, Finished, AllCandidates, TypeOK
    <2>3. QED
      BY <2>1, <2>2 DEF ContractInv, FiledByNextByte, DroppedForGood, Sorted
  <1>5. ASSUME NEW r \in Replay, HeaderAdded(r) PROVE Sorted'
    <2>1. /\ task' = [task EXCEPT ![r] = "data"] /\ task[r] = "header"
          /\ UNCHANGED <<data, candidates, quorum, reserve, canon>>
      BY <1>5 DEF HeaderAdded, stateVars
    <2>2. /\ \A q \in Replay : task[q] = "new" => task'[q] = "new"
          /\ Finished' = Finished
      BY <2>1 DEF Finished, TypeOK
    <2>3. QED
      BY <2>1, <2>2, SortedStays
  <1>6. ASSUME NEW r \in Replay, NEW b \in Byte, ReadData(r, b) PROVE Sorted'
    BY <1>6, SortedReadData
  <1>7. ASSUME NEW r \in Replay,
               \/ \E position \in 0 .. MaxData : UpdateTimestamp(r, position)
               \/ CloseConnection(r)
        PROVE  Sorted'
    <2>1. ReplayDataUpdated(r, delayed') /\ data' = data
      BY <1>7 DEF UpdateTimestamp, CloseConnection
    <2>2. Present' = Present /\ Finished' = Finished
      BY <1>7 DEF UpdateTimestamp, CloseConnection, TypeOK, Present, Finished
    <2>3. QED
      BY <2>1, <2>2, SortedDataUpdated
  <1>8. ASSUME NEW r \in Replay, FinishReplay(r) PROVE Sorted'
    <2>1. /\ task' = [task EXCEPT ![r] = "ended"] /\ task[r] = "closing"
          /\ UNCHANGED <<data, mode, quorum, canon>>
      BY <1>8 DEF FinishReplay, canonVars
    <2>2. Present' = Present /\ Finished' = Finished \cup {r}
      BY <2>1 DEF TypeOK, Present, Finished
    <2>3. CASE mode = "Stalemate" /\ r \in reserve
      <3> DEFINE gone == Finished \cup {r}
      <3>1. TryMoveToCandidates({r}, reserve, candidates, gone) /\ quorum = {}
        BY <1>8, <2>3 DEF FinishReplay, ContractInv, WindowInv, Placed
      <3>2. reserve \cup quorum = reserve
        BY <3>1
      <3>3. TryMoveToCandidates({r}, reserve \cup quorum, candidates, gone)
        BY <3>1, <3>2
      <3>4. /\ {r} \in SUBSET Replay /\ {r} \subseteq reserve \cup quorum
            /\ gone \in SUBSET Replay /\ gone \subseteq Finished' /\ Finished \subseteq Finished'
            /\ candidates \in [Byte -> SUBSET Replay]
        BY <2>2, <2>3 DEF Finished, TypeOK
      <3>5. quorum' = {} /\ canon' = canon /\ data' = data
        BY <2>1, <3>1
      <3> HIDE DEF gone
      <3>6. QED
        BY <2>2, <3>3, <3>4, <3>5, SortedTryMove
    <2>4. CASE ~(mode = "Stalemate" /\ r \in reserve)
      <3>1. UNCHANGED <<data, candidates, quorum, reserve, canon>>
        BY <1>8, <2>1, <2>4 DEF FinishReplay
      <3>2. \A q \in Replay : task[q] = "new" => task'[q] = "new"
        BY <2>1 DEF TypeOK
      <3>3. QED
        BY <2>2, <3>1, <3>2, SortedStays
    <2>5. QED
      BY <2>3, <2>4
  <1>9. QED
    BY <1>1, <1>2, <1>3, <1>4, <1>5, <1>6, <1>7, <1>8 DEF Next, Work, Terminated

\* replay_data_updated starts a stalemate only on data, which comes after a
\* header.
LEMMA HeaderFirstStep ==
    ASSUME ContractInv, TypeOK', [Next]_vars
    PROVE  HeaderFirst'
  <1> TypeOK /\ HeaderFirst
    BY DEF ContractInv, WindowInv, FinishInv
  <1>1. ASSUME NEW r \in Replay, HeaderAdded(r) PROVE HeaderFirst'
    <2>1. canonHeader' # NoReplay /\ data' = data
          /\ \A q \in Replay : task'[q] = "new" => task[q] = "new"
      BY <1>1, NoReplayAssumption DEF HeaderAdded, TypeOK
    <2>2. QED
      BY <2>1 DEF HeaderFirst
  <1>2. ASSUME NEW r \in Replay, NEW b \in Byte, ReadData(r, b) PROVE HeaderFirst'
    <2>1. canonHeader' = canonHeader /\ canonHeader # NoReplay
      BY <1>2 DEF ReadData, canonVars, HeaderFirst
    <2>2. \A q \in Replay : task'[q] = "new" => task[q] = "new" /\ data'[q] = data[q]
      BY <1>2 DEF ReadData, TypeOK
    <2>3. QED
      BY <2>1, <2>2 DEF HeaderFirst
  <1>3. ASSUME NEW r \in Replay,
               \/ \E position \in 0 .. MaxData : UpdateTimestamp(r, position)
               \/ CloseConnection(r)
        PROVE  HeaderFirst'
    <2>1. /\ data' = data /\ canonHeader' = canonHeader /\ canon' = canon
          /\ \A q \in Replay : /\ task'[q] = "data" => task[q] = "data"
                               /\ task'[q] = "new" => task[q] = "new"
          /\ started' => started \/ delayed'[r] > 0
      BY <1>3 DEF UpdateTimestamp, CloseConnection, ReplayDataUpdated, TypeOK, canonVars, stateVars
    <2>2. delayed'[r] > 0 => Len(data[r]) > 0
      <3>1. delayed'[r] \in Nat /\ Len(data'[r]) \in Nat /\ delayed'[r] <= Len(data'[r])
        BY DEF TypeOK
      <3>2. QED
        BY <2>1, <3>1
    <2>3. QED
      BY <2>1, <2>2 DEF HeaderFirst
  <1>4. CASE ExitStalemate
    <2>1. started /\ UNCHANGED <<task, data, started, canonHeader>>
      BY <1>4 DEF ExitStalemate, CanExitStalemate, writerVars
    <2>2. QED
      BY <2>1 DEF HeaderFirst
  <1>5. ASSUME \/ EnterStalemate \/ Finalize \/ UNCHANGED vars
               \/ \E r \in Replay : Connect(r) \/ FinishReplay(r)
        PROVE  HeaderFirst'
    <2>1. /\ UNCHANGED <<data, started, canonHeader, canon>>
          /\ \A q \in Replay : /\ task'[q] = "data" => task[q] = "data"
                               /\ task'[q] = "new" => task[q] = "new"
      BY <1>5 DEF EnterStalemate, Finalize, Connect, FinishReplay, TypeOK, vars, writerVars,
                  stateVars, canonVars
    <2>2. QED
      BY <2>1 DEF HeaderFirst
  <1>6. QED
    BY <1>1, <1>2, <1>3, <1>4, <1>5 DEF Next, Work, Terminated

\* finalize runs when the work loop rests, and from then on it rests.
LEMMA QuietStep ==
    ASSUME ContractInv, [Next]_vars
    PROVE  QuietOnceFinished'
  <1>1. CASE canonFinished
    <2>1. UNCHANGED vars
      BY <1>1, QuietIsFinal
    <2>2. QuietOnceFinished' = QuietOnceFinished
      BY <2>1 DEF QuietOnceFinished, AllWritersGone, ShouldChangeState, HasToEnterStalemate,
                  CanExitStalemate, NonEmptyBytes, vars, writerVars, stateVars, canonVars
    <2>3. QED
      BY <2>2 DEF ContractInv
  <1>2. CASE ~canonFinished /\ Finalize
    <2>1. AllWritersGone /\ ~ShouldChangeState /\ UNCHANGED <<writerVars, stateVars, canon, canonDelayed>>
      BY <1>2 DEF Finalize, Idle
    <2>2. AllWritersGone' /\ ~ShouldChangeState'
      BY <2>1 DEF AllWritersGone, ShouldChangeState, HasToEnterStalemate,
                  CanExitStalemate, NonEmptyBytes, writerVars, stateVars
    <2>3. QED
      BY <2>2 DEF QuietOnceFinished
  <1>3. CASE ~canonFinished /\ ~Finalize
    <2>1. canonFinished' = canonFinished
      BY <1>3 DEF Next, Work, EnterStalemate, ExitStalemate, Connect, HeaderAdded, ReadData,
                  UpdateTimestamp, CloseConnection, FinishReplay, ReplayDataUpdated, Terminated,
                  vars, canonVars
    <2>2. QED
      BY <1>3, <2>1 DEF QuietOnceFinished
  <1>4. QED
    BY <1>1, <1>2, <1>3

\* So the whole invariant is inductive.
LEMMA ContractInvStep == ContractInv /\ [Next]_vars => ContractInv'
  <1> SUFFICES ASSUME ContractInv, [Next]_vars PROVE ContractInv'
    OBVIOUS
  <1>1. WindowInv'
    BY WindowStep DEF ContractInv
  <1>2. TypeOK'
    BY <1>1 DEF WindowInv, FinishInv
  <1>3. Sorted' /\ HeaderFirst' /\ QuietOnceFinished'
    BY <1>1, <1>2, SortedStep, HeaderFirstStep, QuietStep
  <1>4. QED
    BY <1>1, <1>3 DEF ContractInv, Sorted

\* Every step of a connection is invisible in C, sends data, adds the first
\* header or shows readers more of what is merged.
LEMMA ConnectionHonoursContract ==
    ASSUME ContractInv, TypeOK', NEW r \in Replay,
           \/ Connect(r) \/ HeaderAdded(r) \/ \E b \in Byte : ReadData(r, b)
           \/ \E position \in 0 .. MaxData : UpdateTimestamp(r, position)
           \/ CloseConnection(r) \/ FinishReplay(r)
    PROVE  [Promise!ContractNext]_Promise!contractVars
  <1> TypeOK /\ HeaderFirst /\ QuietOnceFinished
    BY DEF ContractInv, WindowInv, FinishInv
  <1> canonFinished => task[r] \in {"new", "ended"}
    BY DEF QuietOnceFinished, AllWritersGone
  <1>1. CASE Connect(r) \/ FinishReplay(r)
    BY <1>1 DEF Connect, FinishReplay, canonVars, Promise!contractVars
  <1>2. CASE HeaderAdded(r)
    <2>1. /\ task[r] = "header" /\ ~canonFinished
          /\ UNCHANGED <<data, canon, canonDelayed, canonFinished>>
      BY <1>2 DEF HeaderAdded
    <2>2. CASE canonHeader = NoReplay
      <3>1. canon = <<>>
        BY <2>2 DEF HeaderFirst, TypeOK
      <3>2. Promise!AddHeader(r)
        BY <1>2, <2>1, <2>2, <3>1 DEF HeaderAdded, Promise!AddHeader
      <3>3. QED
        BY <2>1, <3>2 DEF Promise!ContractNext
    <2>3. CASE canonHeader # NoReplay
      BY <1>2, <2>1, <2>3 DEF HeaderAdded, Promise!contractVars
    <2>4. QED
      BY <2>2, <2>3
  <1>3. ASSUME NEW b \in Byte, ReadData(r, b)
        PROVE  [Promise!ContractNext]_Promise!contractVars
    <2>1. /\ data' = [data EXCEPT ![r] = Append(data[r], b)] /\ task[r] = "data"
          /\ UNCHANGED <<canonHeader, canon, canonDelayed, canonFinished>>
      BY <1>3 DEF ReadData, canonVars
    <2>2. data \in [Replay -> Seq(Byte)]
      BY DEF TypeOK
    <2>3. data[r] \in Seq(Byte) /\ data'[r] = Append(data[r], b)
          /\ \A q \in Replay \ {r} : data'[q] = data[q]
      BY <2>1, <2>2
    <2>4. Promise!Extends(data'[r], data[r])
      BY <2>3 DEF Promise!Extends
    <2>5. Promise!Send(r)
      BY <2>1, <2>3, <2>4 DEF Promise!Send
    <2>6. QED
      BY <2>1, <2>5 DEF Promise!ContractNext
  <1>4. CASE \/ \E position \in 0 .. MaxData : UpdateTimestamp(r, position)
             \/ CloseConnection(r)
    <2>1. /\ UNCHANGED <<data, canonHeader, canon, canonFinished>> /\ ~canonFinished
          /\ ReplayDataUpdated(r, delayed')
      BY <1>4 DEF UpdateTimestamp, CloseConnection, ReplayDataUpdated, canonVars
    <2>2. CASE canonDelayed' = canonDelayed
      BY <2>1, <2>2 DEF Promise!contractVars
    <2>3. CASE canonDelayed' # canonDelayed
      <3>1. mode = "Quorum" /\ UpdateCanonDelayed(quorum, delayed', Len(canon))
        BY <2>1, <2>3 DEF ReplayDataUpdated, canonVars
      <3>2. canonDelayed <= canonDelayed' /\ canonDelayed' <= Len(canon)
        <4>1. delayed' \in [Replay -> Nat]
          BY DEF TypeOK
        <4>2. QED
          BY <3>1, <4>1, CanonTypes, UpdateCanonDelayedType
      <3>3. canonHeader # NoReplay
        BY <3>1 DEF HeaderFirst, ContractInv, WindowInv, FinishInv, QuorumShape
      <3>4. Len(canon) \in Nat /\ canon' = canon
        BY <2>1, CanonTypes
      <3>5. Promise!Merge
        BY <2>1, <3>2, <3>3, <3>4 DEF Promise!Merge, Promise!Extends
      <3>6. QED
        BY <3>5 DEF Promise!ContractNext
    <2>4. QED
      BY <2>2, <2>3
  <1>5. QED
    BY <1>1, <1>2, <1>3, <1>4

\* Every turn of the work loop is invisible in C or merges bytes that some
\* writer sent at that place.
LEMMA WorkHonoursContract ==
    ASSUME ContractInv, TypeOK', Work
    PROVE  [Promise!ContractNext]_Promise!contractVars
  <1> TypeOK /\ HeaderFirst
    BY DEF ContractInv, WindowInv, FinishInv
  <1>1. CASE EnterStalemate
    BY <1>1 DEF EnterStalemate, writerVars, canonVars, Promise!contractVars
  <1>2. CASE ExitStalemate
    <2>1. /\ UNCHANGED <<data, canonHeader, canonFinished>>
          /\ mode = "Stalemate" /\ CanExitStalemate
      BY <1>2 DEF ExitStalemate, writerVars
    <2>2. ~canonFinished /\ canonHeader # NoReplay
      <3>1. ShouldChangeState /\ started
        BY <2>1 DEF ShouldChangeState, CanExitStalemate
      <3>2. QED
        BY <3>1 DEF HeaderFirst, ContractInv, QuietOnceFinished
    <2>3. PICK b \in Byte, p \in Nat :
             /\ p > Len(canon) /\ Len(canon') = p
             /\ \A i \in 1 .. Len(canon) : canon'[i] = canon[i]
             /\ canon'[Len(canon) + 1] = b
             /\ \E q \in quorum' : /\ \A i \in (Len(canon) + 2) .. p : canon'[i] = data[q][i]
                                   /\ p <= Len(data[q])
             /\ IsNewQuorum(quorum', candidates[b])
      BY <1>2, ExitOutcome
    <2>4. PICK q \in quorum' : /\ \A i \in (Len(canon) + 2) .. p : canon'[i] = data[q][i]
                               /\ p <= Len(data[q])
      BY <2>3
    <2>5. /\ q \in candidates[b] /\ q \in Replay /\ Len(data[q]) \in Nat
          /\ data[q][Len(canon) + 1] = b /\ Len(canon) \in Nat
      <3>1. q \in candidates[b] /\ data[q][Len(canon) + 1] = b
        BY <2>3, <2>4 DEF IsNewQuorum, ContractInv, FiledByNextByte
      <3>2. q \in Replay
        BY <3>1 DEF TypeOK
      <3>3. QED
        BY <3>1, <3>2, MatchStartType
    <2>6. \A i \in (Len(canon) + 1) .. Len(canon') : Promise!Sent(i, canon'[i])
      <3> SUFFICES ASSUME NEW i \in (Len(canon) + 1) .. p
                   PROVE  i <= Len(data[q]) /\ data[q][i] = canon'[i]
        BY <2>3, <2>5 DEF Promise!Sent
      <3>1. i <= Len(data[q])
        BY <2>4, <2>5
      <3>2. CASE i = Len(canon) + 1
        BY <2>3, <2>5, <3>1, <3>2
      <3>3. CASE i \in (Len(canon) + 2) .. p
        BY <2>4, <3>1, <3>3
      <3>4. QED
        BY <2>5, <3>2, <3>3
    <2>7. Promise!Extends(canon', canon)
      BY <2>3, <2>5 DEF Promise!Extends
    <2>8. canonDelayed <= canonDelayed' /\ canonDelayed' <= Len(canon')
      <3>1. canonDelayed' >= canonDelayed /\ canonDelayed' \in Nat
            /\ canonDelayed' <= Len(canon')
        BY <1>2, ExitFacts
      <3>2. QED
        BY <3>1, CanonTypes
    <2>9. Promise!Merge
      BY <2>1, <2>2, <2>6, <2>7, <2>8 DEF Promise!Merge
    <2>10. QED
      BY <2>9 DEF Promise!ContractNext
  <1>3. QED
    BY <1>1, <1>2 DEF Work

\* When it finishes C is exposed, and no writer sent more of it.
LEMMA FinalizeHonoursContract ==
    ASSUME ContractInv, Finalize
    PROVE  Promise!Finish
  <1> TypeOK /\ DroppedForGood /\ HeaderFirst
    BY DEF ContractInv, WindowInv, FinishInv
  <1>1. FinishAssertions /\ AllWritersGone /\ Idle
    BY FinishInvSuffices DEF ContractInv, WindowInv, Finalize
  <1>2. /\ mode = "Stalemate" /\ canonDelayed = Len(canon)
        /\ reserve = {} /\ AllCandidates = {} /\ quorum = {}
    BY <1>1 DEF FinishAssertions, ContractInv, WindowInv, Placed
  <1>3. UNCHANGED <<data, canonHeader, canon, canonDelayed>> /\ ~canonFinished /\ canonFinished'
    BY DEF Finalize, writerVars
  <1>4. ASSUME NEW w \in Replay, Promise!Extends(data[w], canon)
        PROVE  Len(data[w]) = Len(canon)
    <2>1. /\ Len(canon) <= Len(data[w]) /\ Len(canon) \in Nat /\ Len(data[w]) \in Nat
          /\ \A i \in 1 .. Len(canon) : canon[i] = data[w][i]
      BY <1>4, MatchStartType DEF Promise!Extends
    <2>2. CASE task[w] = "new"
      <3>1. Len(data[w]) = 0
        BY <2>2 DEF HeaderFirst
      <3>2. QED
        BY <2>1, <3>1
    <2>3. CASE task[w] # "new"
      <3>1. w \in Present \ (reserve \cup quorum \cup AllCandidates)
        BY <1>2, <2>3 DEF Present
      <3>2. \/ \E i \in 1 .. Len(canon) : i <= Len(data[w]) /\ data[w][i] # canon[i]
            \/ Len(data[w]) <= Len(canon)
        BY <3>1 DEF DroppedForGood
      <3>3. QED
        BY <2>1, <3>2
    <2>4. QED
      BY <2>2, <2>3
  <1>5. QED
    BY <1>2, <1>3, <1>4 DEF Promise!Finish

\* C starts empty, without a header.
LEMMA InitHonoursContract == Init => Promise!Start
  BY DEF Init, Promise!Start

\* For any number of writers that send anything, disagree, stall or hang up,
\* the strategy honours the contract of the MergeStrategy trait: the header
\* comes first, C is only appended to, each of its bytes was sent by some
\* writer at that place, readers see no more than is merged, and when it
\* finishes all is exposed and no writer has sent a continuation C lacks.
THEOREM MergeHonoursContract == Spec => ImplementsContract
  <1>1. ContractInv /\ [Next]_vars => [Promise!ContractNext]_Promise!contractVars
    <2> SUFFICES ASSUME ContractInv, [Next]_vars
                 PROVE  [Promise!ContractNext]_Promise!contractVars
      OBVIOUS
    <2>1. TypeOK'
      BY ContractInvStep DEF ContractInv, WindowInv, FinishInv
    <2>2. CASE UNCHANGED vars
      BY <2>2 DEF vars, writerVars, canonVars, Promise!contractVars
    <2>3. CASE Finalize
      BY <2>3, FinalizeHonoursContract DEF Promise!ContractNext
    <2>4. CASE Work
      BY <2>1, <2>4, WorkHonoursContract
    <2>5. QED
      BY <2>1, <2>2, <2>3, <2>4, ConnectionHonoursContract DEF Next, Terminated
  <1>2. QED
    BY <1>1, InitHonoursContract, InitContractInv, ContractInvStep, PTL
    DEF Spec, ImplementsContract, Promise!Contract
-----------------------------------------------------------------------------
(* The invariants written above the two states, and what they are for, hold  *)
(* when every comparison covers all of C and no quorum has a third member:   *)
(* the setting the source documents and the assumption it makes (line 63).   *)
Comparable == TargetQuorumSize <= 2 /\ MaxData <= StreamCmpDistance

\* What a replay is believed to match it does match; a member of the quorum
\* matches all of C.
MatchesHold ==
    /\ \A r \in reserve \cup quorum \cup AllCandidates :
         \A i \in 1 .. matching[r] : i <= Len(data[r]) /\ data[r][i] = canon[i]
    /\ \A r \in quorum : matching[r] = Len(canon)
    /\ \A r \in Replay : task[r] = "new" => matching[r] = 0

\* The bounds: of the quorum, of what is sent, and so of C.
BoundsHold ==
    /\ Cardinality(quorum) <= TargetQuorumSize
    /\ Len(canon) <= MaxData
    /\ \A r \in Replay : Len(data[r]) <= MaxData

\* Who waits in the reserve of a stalemate had nothing beyond C when last seen.
ReserveIsShort == mode = "Stalemate" => \A r \in reserve : notified[r] <= Len(canon)

\* A quorum has merged past the end of every replay that ended and was dropped.
DroppedIsShort ==
    mode = "Quorum" => \A r \in Present \ (reserve \cup quorum) :
        \/ \E i \in 1 .. Len(canon) : i <= Len(data[r]) /\ data[r][i] # canon[i]
        \/ r \in Finished /\ Len(data[r]) < Len(canon)

\* All of C is there in one replay.
SomebodyHoldsC == Len(canon) > 0 => \E r \in Present : IsPrefixOf(canon, data[r])

\* What is shown was released by the delay of a replay that holds it.
ReleasedFirst ==
    canonDelayed > 0 =>
        \E r \in Present : /\ canonDelayed <= delayed[r]
                           /\ \A i \in 1 .. canonDelayed : data[r][i] = canon[i]

Held == MatchesHold /\ BoundsHold
Kept == ReserveIsShort /\ DroppedIsShort /\ SomebodyHoldsC /\ ReleasedFirst

ClaimsInv == ContractInv /\ Held /\ Kept

\* Nothing is compared or shown yet.
LEMMA InitClaimsInv == Init => ClaimsInv
  <1> SUFFICES ASSUME Init PROVE ClaimsInv
    OBVIOUS
  <1>1. ContractInv
    BY InitContractInv
  <1>2. /\ Len(canon) = 0 /\ quorum = {} /\ reserve = {} /\ canonDelayed = 0
        /\ mode = "Stalemate"
        /\ \A r \in Replay : matching[r] = 0 /\ Len(data[r]) = 0
        /\ AllCandidates \in SUBSET Replay
    BY EmptyIsSeq DEF Init, AllCandidates, NoCandidates
  <1>3. Cardinality(quorum) = 0
    BY <1>2, FS_EmptySet
  <1>4. Held
    BY <1>2, <1>3, ConstantsAssumption DEF Held, MatchesHold, BoundsHold
  <1>5. Kept
    BY <1>2 DEF Kept, ReserveIsShort, DroppedIsShort, SomebodyHoldsC, ReleasedFirst
  <1>6. QED
    BY <1>1, <1>4, <1>5 DEF ClaimsInv

\* Data, delayed positions and C only grow, and nobody leaves for good.
LEMMA OnlyGrows ==
    ASSUME ContractInv, TypeOK', [Next]_vars
    PROVE  /\ \A q \in Replay : /\ Len(data[q]) <= Len(data'[q])
                                /\ \A i \in 1 .. Len(data[q]) : data'[q][i] = data[q][i]
                                /\ delayed[q] <= delayed'[q]
           /\ Present \subseteq Present'
           /\ Len(canon) <= Len(canon')
           /\ \A i \in 1 .. Len(canon) : canon'[i] = canon[i]
  <1> TypeOK
    BY DEF ContractInv, WindowInv, FinishInv
  <1>1. \A q \in Replay : /\ data[q] \in Seq(Byte) /\ Len(data[q]) \in Nat
                          /\ delayed[q] \in Nat /\ delayed[q] <= Len(data[q])
    BY DEF TypeOK
  <1>2. /\ \A q \in Replay : /\ Len(data[q]) <= Len(data'[q])
                             /\ \A i \in 1 .. Len(data[q]) : data'[q][i] = data[q][i]
    <2>1. ASSUME NEW r \in Replay, NEW b \in Byte, ReadData(r, b), NEW q \in Replay
          PROVE  /\ Len(data[q]) <= Len(data'[q])
                 /\ \A i \in 1 .. Len(data[q]) : data'[q][i] = data[q][i]
      <3>1. data'[q] = IF q = r THEN Append(data[r], b) ELSE data[q]
        BY <2>1 DEF ReadData, TypeOK
      <3>2. /\ Len(Append(data[r], b)) = Len(data[r]) + 1
            /\ \A i \in 1 .. Len(data[r]) : Append(data[r], b)[i] = data[r][i]
        BY <1>1
      <3>3. QED
        BY <1>1, <3>1, <3>2
    <2>2. CASE data' = data
      BY <1>1, <2>2
    <2>3. data' = data \/ \E r \in Replay, b \in Byte : ReadData(r, b)
      BY DEF Next, Work, EnterStalemate, ExitStalemate, Finalize, Terminated, Connect, HeaderAdded,
             UpdateTimestamp, CloseConnection, FinishReplay, vars, writerVars
    <2>4. QED
      BY <2>1, <2>2, <2>3
  <1>3. \A q \in Replay : delayed[q] <= delayed'[q]
    <2>1. ASSUME NEW r \in Replay,
                 \/ \E position \in 0 .. MaxData : UpdateTimestamp(r, position)
                 \/ CloseConnection(r)
          PROVE  \A q \in Replay : delayed[q] <= delayed'[q]
      <3>1. PICK position \in Nat : delayed' = [delayed EXCEPT ![r] = position] /\ delayed[r] <= position
        BY <1>1, <2>1, ConstantsAssumption DEF UpdateTimestamp, CloseConnection
      <3>2. delayed \in [Replay -> Nat]
        BY DEF TypeOK
      <3>3. \A q \in Replay : delayed'[q] = IF q = r THEN position ELSE delayed[q]
        BY <3>1, <3>2
      <3>4. QED
        BY <1>1, <3>1, <3>3
    <2>2. CASE delayed' = delayed
      BY <1>1, <2>2
    <2>3. \/ delayed' = delayed
          \/ \E r \in Replay : \/ \E position \in 0 .. MaxData : UpdateTimestamp(r, position)
                               \/ CloseConnection(r)
      BY DEF Next, Work, EnterStalemate, ExitStalemate, Finalize, Terminated, Connect, HeaderAdded,
             ReadData, FinishReplay, vars, writerVars
    <2>4. QED
      BY <2>1, <2>2, <2>3
  <1>4. Present \subseteq Present'
    <2>1. \/ task' = task
          \/ \E r \in Replay : \E t \in {"header", "data", "closing", "ended"} : task' = [task EXCEPT ![r] = t]
      BY DEF Next, Work, EnterStalemate, ExitStalemate, Finalize, Terminated, Connect, HeaderAdded,
             ReadData, UpdateTimestamp, CloseConnection, FinishReplay, vars, writerVars
    <2>2. QED
      BY <2>1 DEF Present, TypeOK
  <1>5. /\ Len(canon) <= Len(canon')
        /\ \A i \in 1 .. Len(canon) : canon'[i] = canon[i]
    <2>1. Len(canon) \in Nat
      BY WindowTypes
    <2>2. CASE ExitStalemate
      <3>1. PICK b \in Byte, p \in Nat : /\ p > Len(canon) /\ Len(canon') = p
                                         /\ \A i \in 1 .. Len(canon) : canon'[i] = canon[i]
        BY <2>2, ExitOutcome
      <3>2. QED
        BY <2>1, <3>1
    <2>3. canon' = canon \/ ExitStalemate
      BY DEF Next, Work, EnterStalemate, Finalize, Terminated, Connect, HeaderAdded,
             ReadData, UpdateTimestamp, CloseConnection, FinishReplay, ReplayDataUpdated, vars, canonVars
    <2>4. QED
      BY <2>1, <2>2, <2>3
  <1>6. QED
    BY <1>2, <1>3, <1>4, <1>5

\* A comparison that covers all of C starts where the last one ended.
LEMMA ComparesFromMatching ==
    ASSUME TypeOK, Comparable, Len(canon) <= MaxData, NEW r \in Replay
    PROVE  MatchStart(r) = matching[r]
  <1>1. Len(canon) \in Nat /\ matching[r] \in Nat
    BY WindowTypes
  <1>2. MatchStartOptimization(Len(canon)) = 0
    BY <1>1, ConstantsAssumption DEF Comparable, MatchStartOptimization, MaxOf
  <1>3. QED
    BY <1>1, <1>2 DEF MatchStart, MaxOf

\* Offering replays as candidates compares each with the rest of C, and leaves
\* no longer one in the reserve.
LEMMA ClaimsTryMove ==
    ASSUME ContractInv, Held, Comparable, WindowInv',
           NEW moving \in SUBSET Replay, NEW cand \in [Byte -> SUBSET Replay],
           NEW finished \in SUBSET Replay,
           moving \subseteq reserve \cup quorum,
           \A b \in Byte : cand[b] = candidates[b],
           TryMoveToCandidates(moving, reserve \cup quorum, cand, finished),
           quorum' = {}, canon' = canon, data' = data,
           \A r \in Replay : task'[r] = "new" => task[r] = "new"
    PROVE  /\ Held'
           /\ \A r \in reserve' : r \in reserve \ moving \/ r \in quorum \ moving
                                  \/ Len(data[r]) <= Len(canon)
  <1> TypeOK
    BY DEF ContractInv, WindowInv, FinishInv
  <1> DEFINE from == reserve \cup quorum
  <1>1. from \in SUBSET Replay
    BY WindowTypes
  <1>2. Offered(moving, from, cand, finished)
    <2> HIDE DEF from
    <2>1. TryMoveToCandidates(moving, from, cand, finished) /\ moving \subseteq from
      BY DEF from
    <2>2. QED
      BY <1>1, <2>1, TryMoveOutcome
  <1>3. /\ reserve' \subseteq from
        /\ \A r \in Replay \ moving : matching'[r] = matching[r]
        /\ \A b \in Byte : \A r \in candidates'[b] :
             \/ r \in candidates[b]
             \/ ~DivergesAtStalemate(r) /\ Len(data[r]) > Len(canon) /\ r \in moving
                /\ matching'[r] = MaxOf(Len(canon), matching[r])
        /\ \A r \in moving : r \in reserve' => matching'[r] = matching[r] /\ Len(data[r]) <= Len(canon)
    <2>1. \A r \in moving : r \in reserve' => matching'[r] = matching[r] /\ Len(data[r]) <= Len(canon)
      <3>1. reserve' \cap AllCandidates' = {}
        BY DEF WindowInv, Placed
      <3>2. QED
        BY <1>2, <3>1 DEF Offered, AllCandidates
    <2>2. QED
      BY <1>2, <2>1 DEF Offered
  <1>4. /\ moving \cap AllCandidates = {}
        /\ \A r \in moving : task[r] # "new"
    BY DEF ContractInv, WindowInv, Placed, FinishInv, Registered, TypeOK
  <1>5. /\ Len(canon) \in Nat /\ Len(canon) <= MaxData
        /\ \A r \in Replay : /\ matching[r] \in Nat /\ matching[r] <= Len(canon)
                             /\ Len(data[r]) \in Nat
    BY WindowTypes, MatchStartType DEF ContractInv, WindowInv, MatchingIsWithin, Held, BoundsHold
  <1>6. \A r \in reserve' : matching'[r] = matching[r]
    BY <1>1, <1>3
  <1>7. \A r \in from \cup AllCandidates :
            \A i \in 1 .. matching[r] : i <= Len(data[r]) /\ data[r][i] = canon[i]
    BY DEF Held, MatchesHold
  <1>8. ASSUME NEW r \in AllCandidates', NEW i \in 1 .. matching'[r]
        PROVE  i <= Len(data[r]) /\ data[r][i] = canon[i]
    <2>1. PICK b \in Byte : r \in candidates'[b]
      BY DEF AllCandidates
    <2>2. CASE r \in candidates[b]
      <3>1. r \in AllCandidates /\ r \in Replay /\ r \notin moving
        BY <1>4, <2>2, SMTT(30) DEF AllCandidates, TypeOK
      <3>2. matching'[r] = matching[r]
        BY <1>3, <3>1
      <3>3. QED
        BY <1>7, <1>8, <3>1, <3>2
    <2>3. CASE r \notin candidates[b]
      <3>1. /\ r \in moving /\ r \in Replay /\ r \in from
            /\ ~DivergesAtStalemate(r) /\ Len(data[r]) > Len(canon)
            /\ matching'[r] = MaxOf(Len(canon), matching[r])
        BY <1>3, <2>1, <2>3
      <3>2. matching'[r] = Len(canon) /\ MatchStart(r) = matching[r]
        BY <1>5, <3>1, ComparesFromMatching DEF MaxOf
      <3>3. \A k \in (matching[r] + 1) .. Len(canon) : data[r][k] = canon[k]
        BY <3>1, <3>2 DEF DivergesAtStalemate
      <3>4. i \in 1 .. Len(canon) /\ i <= Len(data[r])
        BY <1>5, <3>1, <3>2
      <3>5. i \in 1 .. matching[r] \/ i \in (matching[r] + 1) .. Len(canon)
        BY <1>5, <3>1, <3>4
      <3>6. QED
        BY <1>7, <3>1, <3>3, <3>4, <3>5
    <2>4. QED
      BY <2>2, <2>3
  <1>9. MatchesHold'
    <2>1. \A r \in reserve' : \A i \in 1 .. matching'[r] : i <= Len(data[r]) /\ data[r][i] = canon[i]
      BY <1>3, <1>6, <1>7
    <2>2. \A r \in Replay : task'[r] = "new" => matching'[r] = 0
      BY <1>3, <1>4 DEF Held, MatchesHold
    <2> HIDE DEF from
    <2>3. QED
      BY <1>8, <2>1, <2>2 DEF MatchesHold
  <1>10. BoundsHold'
    <2>1. Cardinality(quorum') = 0 /\ 0 <= TargetQuorumSize
      BY FS_EmptySet, ConstantsAssumption
    <2>2. QED
      BY <2>1 DEF Held, BoundsHold
  <1>11. QED
    BY <1>3, <1>9, <1>10 DEF Held

\* Two members are compared with each other exactly, so what they merge both
\* have.
LEMMA QuorumOfTwoAgrees ==
    ASSUME TypeOK, Comparable, NEW Q \in SUBSET Replay, NEW good \in SUBSET Replay,
           NEW from \in Nat, NEW p \in Nat,
           IsNewQuorum(Q, good), IsQuorumPrefix(Q, from, p)
    PROVE  /\ Cardinality(Q) <= TargetQuorumSize
           /\ \A q, r \in Q : \A i \in (from + 1) .. p : data[q][i] = data[r][i]
  <1>1. IsFiniteSet(Q) /\ IsFiniteSet(good)
    BY FS_Subset, ConstantsAssumption
  <1>2. Cardinality(Q) \in Nat /\ Cardinality(Q) <= TargetQuorumSize
    <2>1. Cardinality(Q) \in Nat /\ Cardinality(good) \in Nat
      BY <1>1, FS_CardinalityType
    <2>2. QED
      BY <2>1, ConstantsAssumption DEF IsNewQuorum, MinOf
  <1>3. PICK s \in Q :
            /\ \A q \in Q : Len(data[s]) <= Len(data[q])
            /\ \/ Q = {s} /\ p = Len(data[s])
               \/ \E last \in Q \ {s}, common \in [Q \ {s} -> from .. MaxData] :
                    /\ \A q \in Q \ {s} : IsCommonPrefix(s, q, from, common[q])
                    /\ LET ends == {common[last]} \cup
                                   {ChunkEnd(common[q]) : q \in Q \ {s, last}}
                       IN  IF \E q \in Q \ {s} : common[q] = from THEN p = from
                           ELSE p \in ends /\ \A e \in ends : p <= e
    BY DEF IsQuorumPrefix
  <1>4. CASE Q = {s}
    BY <1>2, <1>4
  <1>5. ASSUME NEW last \in Q \ {s}, NEW common \in [Q \ {s} -> from .. MaxData],
               \A q \in Q \ {s} : IsCommonPrefix(s, q, from, common[q]),
               LET ends == {common[last]} \cup
                           {ChunkEnd(common[q]) : q \in Q \ {s, last}}
               IN  IF \E q \in Q \ {s} : common[q] = from THEN p = from
                   ELSE p \in ends /\ \A e \in ends : p <= e
        PROVE  \A q, r \in Q : \A i \in (from + 1) .. p : data[q][i] = data[r][i]
    <2>1. Q \ {s, last} = {}
      <3> SUFFICES ASSUME NEW x \in Q, x # s, x # last PROVE FALSE
        OBVIOUS
      <3> DEFINE one == {s}
                 two == one \cup {last}
                 three == two \cup {x}
      <3>1. IsFiniteSet(one) /\ Cardinality(one) = 1
        BY FS_Singleton
      <3>2. last \notin one /\ x \notin two /\ three \subseteq Q
        OBVIOUS
      <3> HIDE DEF one, two, three
      <3>3. IsFiniteSet(two) /\ Cardinality(two) = 2
        BY <3>1, <3>2, FS_AddElement, SMTT(30) DEF two
      <3>4. Cardinality(three) = 3
        <4>1. x \notin two
          BY <3>2
        <4>2. Cardinality(two \cup {x}) = Cardinality(two) + 1
          BY <3>3, <4>1, FS_AddElement
        <4>3. QED
          BY <3>3, <4>2 DEF three
      <3>5. Cardinality(three) <= Cardinality(Q)
        BY <1>1, <3>2, FS_Subset
      <3>6. QED
        BY <1>2, <3>4, <3>5, ConstantsAssumption DEF Comparable
    <2>2. Q = {s, last}
      BY <2>1
    <2>3. \/ p = from
          \/ p = common[last]
      BY <1>5, <2>1
    <2>4. \A i \in (from + 1) .. p : data[s][i] = data[last][i]
      <3>1. CASE p = from
        BY <3>1
      <3>2. CASE p = common[last]
        BY <1>5, <3>2 DEF IsCommonPrefix
      <3>3. QED
        BY <2>3, <3>1, <3>2
    <2>5. QED
      BY <2>2, <2>4
  <1>6. QED
    BY <1>2, <1>3, <1>4, <1>5

\* What update_delayed_position shows was released by a member that holds it.
LEMMA UpdateShowsReleased ==
    ASSUME NEW Q, Q \subseteq Present', NEW positions, NEW n \in Nat,
           UpdateCanonDelayed(Q, positions, n),
           TypeOK', positions = delayed', n <= Len(canon'),
           \A q \in Q : \A i \in 1 .. Len(canon') : data'[q][i] = canon'[i],
           canonDelayed' # canonDelayed
    PROVE  ReleasedFirst'
  <1>1. PICK m \in Q : canonDelayed' = MaxOf(canonDelayed, MinOf(positions[m], n))
    BY DEF UpdateCanonDelayed, Slowest
  <1>2. canonDelayed' = MinOf(delayed'[m], n)
    BY <1>1 DEF MaxOf
  <1>3. m \in Replay /\ delayed'[m] \in Nat /\ Len(canon') \in Nat
    BY DEF TypeOK, Present
  <1>4. canonDelayed' <= delayed'[m] /\ canonDelayed' <= Len(canon') /\ canonDelayed' \in Nat
    BY <1>2, <1>3 DEF MinOf
  <1>5. \A i \in 1 .. canonDelayed' : data'[m][i] = canon'[i]
    BY <1>3, <1>4
  <1>6. QED
    BY <1>4, <1>5 DEF ReleasedFirst

\* Unless the exposed position moves, what is shown stays released.
LEMMA ReleasedStays ==
    ASSUME ContractInv, TypeOK', [Next]_vars, ReleasedFirst, canonDelayed' = canonDelayed
    PROVE  ReleasedFirst'
  <1> SUFFICES ASSUME canonDelayed' > 0
               PROVE  \E r \in Present' : /\ canonDelayed' <= delayed'[r]
                                          /\ \A i \in 1 .. canonDelayed' : data'[r][i] = canon'[i]
    BY DEF ReleasedFirst
  <1> TypeOK
    BY DEF ContractInv, WindowInv, FinishInv
  <1>1. PICK r \in Present : /\ canonDelayed <= delayed[r]
                             /\ \A i \in 1 .. canonDelayed : data[r][i] = canon[i]
    BY DEF ReleasedFirst
  <1>2. r \in Replay /\ r \in Present'
    BY OnlyGrows DEF Present
  <1>3. /\ delayed[r] \in Nat /\ delayed'[r] \in Nat /\ delayed[r] <= Len(data[r])
        /\ canonDelayed \in Nat /\ canonDelayed <= Len(canon) /\ Len(canon) \in Nat
        /\ Len(data[r]) \in Nat
    <2>1. data[r] \in Seq(Byte) /\ canon \in Seq(Byte)
      BY <1>2 DEF TypeOK
    <2>2. delayed[r] \in Nat /\ delayed'[r] \in Nat
      BY <1>2 DEF TypeOK
    <2>3. delayed[r] <= Len(data[r]) /\ canonDelayed \in Nat /\ canonDelayed <= Len(canon)
      BY <1>2 DEF TypeOK
    <2>4. QED
      BY <2>1, <2>2, <2>3
  <1>4. /\ delayed[r] <= delayed'[r]
        /\ \A i \in 1 .. Len(data[r]) : data'[r][i] = data[r][i]
        /\ \A i \in 1 .. Len(canon) : canon'[i] = canon[i]
    BY <1>2, OnlyGrows
  <1>5. canonDelayed' <= delayed'[r]
    BY <1>1, <1>3, <1>4
  <1>6. ASSUME NEW i \in 1 .. canonDelayed PROVE data'[r][i] = canon'[i]
    <2>1. i \in 1 .. Len(data[r]) /\ i \in 1 .. Len(canon)
      BY <1>1, <1>3
    <2>2. QED
      BY <1>1, <1>4, <2>1
  <1>7. QED
    BY <1>2, <1>5, <1>6

\* The same for the replay that holds all of C, while C stays.
LEMMA HolderStays ==
    ASSUME ContractInv, TypeOK', [Next]_vars, SomebodyHoldsC, canon' = canon
    PROVE  SomebodyHoldsC'
  <1> SUFFICES ASSUME Len(canon) > 0
               PROVE  \E r \in Present' : IsPrefixOf(canon, data'[r])
    BY DEF SomebodyHoldsC
  <1> TypeOK
    BY DEF ContractInv, WindowInv, FinishInv
  <1>1. PICK r \in Present : Len(canon) <= Len(data[r]) /\ \A i \in 1 .. Len(canon) : canon[i] = data[r][i]
    BY DEF SomebodyHoldsC, IsPrefixOf
  <1>2. r \in Replay /\ r \in Present' /\ Len(canon) \in Nat
    BY OnlyGrows, WindowTypes DEF Present
  <1>3. Len(data[r]) \in Nat /\ Len(data'[r]) \in Nat
    <2>1. data[r] \in Seq(Byte) /\ data'[r] \in Seq(Byte)
      BY <1>2 DEF TypeOK
    <2>2. QED
      BY <2>1
  <1>4. Len(data[r]) <= Len(data'[r]) /\ \A i \in 1 .. Len(data[r]) : data'[r][i] = data[r][i]
    BY <1>2, OnlyGrows
  <1>5. \A i \in 1 .. Len(canon) : canon[i] = data'[r][i]
    BY <1>1, <1>2, <1>3, <1>4
  <1>6. Len(canon) <= Len(data'[r])
    BY <1>1, <1>2, <1>3, <1>4
  <1>7. QED
    BY <1>2, <1>5, <1>6 DEF IsPrefixOf

\* The new quorum and what it merges: every member holds all of the new C.
LEMMA ClaimsExit ==
    ASSUME ContractInv, Held, Kept, Comparable, WindowInv', [Next]_vars, ExitStalemate
    PROVE  Held' /\ Kept'
  <1> TypeOK /\ TypeOK'
    BY DEF ContractInv, WindowInv, FinishInv
  <1>1. PICK b \in Byte, p \in Nat :
             /\ p > Len(canon) /\ Len(canon') = p
             /\ \A i \in 1 .. Len(canon) : canon'[i] = canon[i]
             /\ canon'[Len(canon) + 1] = b
             /\ \E q \in quorum' : /\ \A i \in (Len(canon) + 2) .. p : canon'[i] = data[q][i]
                                   /\ p <= Len(data[q])
             /\ IsNewQuorum(quorum', candidates[b])
             /\ reserve' = reserve \cup (candidates[b] \ quorum')
             /\ \A r \in quorum' : matching'[r] = MaxOf(p, matching[r])
             /\ \A r \in Replay \ quorum' : matching'[r] = matching[r]
             /\ UpdateCanonDelayed(quorum', delayed, p)
             /\ IsQuorumPrefix(quorum', Len(canon) + 1, p)
    BY ExitOutcome
  <1>2. /\ mode = "Stalemate" /\ mode' = "Quorum" /\ quorum = {}
        /\ task' = task /\ data' = data /\ delayed' = delayed
        /\ candidates' = NoCandidates
    BY DEF ExitStalemate, writerVars, ContractInv, WindowInv, Placed
  <1>3. /\ AllCandidates' = {} /\ Present' = Present /\ Finished' = Finished
        /\ candidates[b] \in SUBSET Replay /\ candidates[b] \subseteq AllCandidates
    BY <1>2 DEF AllCandidates, NoCandidates, Present, Finished, TypeOK
  <1>4. quorum' \subseteq candidates[b] /\ quorum' \in SUBSET Replay /\ Len(canon) \in Nat
    BY <1>1, <1>3, WindowTypes DEF IsNewQuorum
  <1>5. \A r \in candidates[b] : /\ matching[r] = Len(canon)
                                 /\ \A i \in 1 .. Len(canon) : data[r][i] = canon[i]
                                 /\ data[r][Len(canon) + 1] = b
                                 /\ Len(data[r]) > Len(canon)
    BY <1>2, <1>3 DEF ContractInv, FiledByNextByte, WindowInv, MatchingIsWithin, Held, MatchesHold,
                      FinishInv, StalemateShape
  <1>6. /\ Cardinality(quorum') <= TargetQuorumSize
        /\ \A q, r \in quorum' : \A i \in (Len(canon) + 2) .. p : data[q][i] = data[r][i]
    <2>1. Len(canon) + 1 \in Nat /\ (Len(canon) + 1) + 1 = Len(canon) + 2
      BY <1>4
    <2>2. QED
      BY <1>1, <1>3, <1>4, <2>1, QuorumOfTwoAgrees
  <1>7. ASSUME NEW r \in quorum', NEW i \in 1 .. p PROVE data[r][i] = canon'[i]
    <2>1. i \in 1 .. Len(canon) \/ i = Len(canon) + 1 \/ i \in (Len(canon) + 2) .. p
      BY <1>4
    <2>2. CASE i \in 1 .. Len(canon)
      BY <1>1, <1>4, <1>5, <2>2
    <2>3. CASE i = Len(canon) + 1
      BY <1>1, <1>4, <1>5, <2>3
    <2>4. CASE i \in (Len(canon) + 2) .. p
      BY <1>1, <1>6, <2>4
    <2>5. QED
      BY <2>1, <2>2, <2>3, <2>4
  <1>8. \A r \in quorum' : p <= Len(data[r]) /\ matching'[r] = p
    <2>1. \A r \in quorum' : p <= Len(data[r])
      BY <1>2, ExitFacts, <1>1
    <2>2. \A r \in quorum' : matching'[r] = p
      BY <1>1, <1>4, <1>5 DEF MaxOf
    <2>3. QED
      BY <2>1, <2>2
  <1>9. \A r \in Replay : Len(data[r]) \in Nat /\ matching[r] \in Nat /\ matching[r] <= Len(canon)
    BY MatchStartType, WindowTypes DEF ContractInv, WindowInv, MatchingIsWithin
  <1>10. MatchesHold'
    <2>1. ASSUME NEW r \in reserve', r \notin quorum', NEW i \in 1 .. matching'[r]
          PROVE  i <= Len(data[r]) /\ data[r][i] = canon'[i]
      <3>1. r \in reserve \cup AllCandidates /\ r \in Replay /\ matching'[r] = matching[r]
        BY <1>1, <1>3, <2>1 DEF TypeOK
      <3>2. i <= Len(data[r]) /\ data[r][i] = canon[i]
        BY <2>1, <3>1 DEF Held, MatchesHold
      <3>3. i \in 1 .. Len(canon)
        BY <1>4, <1>9, <2>1, <3>1
      <3>4. QED
        BY <1>1, <3>2, <3>3
    <2>2. ASSUME NEW r \in quorum', NEW i \in 1 .. matching'[r]
          PROVE  i <= Len(data[r]) /\ data[r][i] = canon'[i]
      <3>1. i \in 1 .. p /\ p <= Len(data[r]) /\ r \in Replay
        BY <1>4, <1>8, <2>2
      <3>2. i <= Len(data[r])
        BY <1>9, <3>1
      <3>3. QED
        BY <1>7, <3>1, <3>2
    <2>3. \A r \in Replay : task[r] = "new" => matching'[r] = 0
      <3>1. \A r \in quorum' : task[r] # "new"
        BY <1>3, <1>4 DEF ContractInv, WindowInv, FinishInv, Registered
      <3>2. QED
        BY <1>1, <3>1 DEF Held, MatchesHold
    <2>4. QED
      BY <1>1, <1>2, <1>3, <1>8, <2>1, <2>2, <2>3 DEF MatchesHold
  <1>11. BoundsHold'
    <2>1. PICK q \in quorum' : p <= Len(data[q])
      BY <1>1
    <2>2. q \in Replay /\ Len(data[q]) <= MaxData
      BY <1>4 DEF Held, BoundsHold
    <2>3. p <= MaxData
      BY <1>9, <2>1, <2>2, ConstantsAssumption
    <2>4. QED
      BY <1>1, <1>2, <1>6, <2>3 DEF Held, BoundsHold
  <1>12. DroppedIsShort'
    <2> SUFFICES ASSUME NEW r \in Present, r \notin reserve' \cup quorum'
                 PROVE  \/ \E i \in 1 .. p : i <= Len(data[r]) /\ data[r][i] # canon'[i]
                        \/ r \in Finished /\ Len(data[r]) < p
      BY <1>1, <1>2, <1>3 DEF DroppedIsShort
    <2>1. r \in Replay
      BY DEF Present
    <2>2. CASE r \in AllCandidates
      <3>1. PICK c \in Byte : r \in candidates[c]
        BY <2>2 DEF AllCandidates
      <3>2. c # b
        BY <1>1, <3>1
      <3>3. data[r][Len(canon) + 1] = c /\ Len(data[r]) > Len(canon)
        BY <1>2, <3>1 DEF ContractInv, FiledByNextByte, WindowInv, FinishInv, StalemateShape
      <3>4. Len(canon) + 1 \in 1 .. p /\ Len(canon) + 1 <= Len(data[r])
        BY <1>1, <1>4, <1>9, <2>1, <3>3
      <3>5. QED
        BY <1>1, <3>2, <3>3, <3>4
    <2>3. CASE r \notin AllCandidates
      <3>1. \/ \E i \in 1 .. Len(canon) : i <= Len(data[r]) /\ data[r][i] # canon[i]
            \/ r \in Finished /\ Len(data[r]) <= Len(canon)
        BY <1>1, <1>2, <2>3 DEF ContractInv, DroppedForGood
      <3>2. QED
        BY <1>1, <1>4, <1>9, <2>1, <3>1
    <2>4. QED
      BY <2>2, <2>3
  <1>13. quorum' \subseteq Present'
    BY <1>3, <1>4 DEF Present, ContractInv, WindowInv, FinishInv, Registered
  <1>14. SomebodyHoldsC'
    <2>1. PICK q \in quorum' : p <= Len(data[q])
      BY <1>1
    <2>2. Len(canon') <= Len(data'[q]) /\ \A i \in 1 .. Len(canon') : canon'[i] = data'[q][i]
      BY <1>1, <1>2, <1>7, <2>1
    <2>3. QED
      BY <1>13, <2>2 DEF SomebodyHoldsC, IsPrefixOf
  <1>15. ReleasedFirst'
    <2>1. CASE canonDelayed' = canonDelayed
      BY <2>1, ReleasedStays DEF Kept
    <2>2. CASE canonDelayed' # canonDelayed
      <3>1. \A q \in quorum' : \A i \in 1 .. Len(canon') : data'[q][i] = canon'[i]
        BY <1>1, <1>2, <1>7
      <3>2. p <= Len(canon') /\ UpdateCanonDelayed(quorum', delayed, p) /\ delayed = delayed'
        BY <1>1, <1>2, <1>4
      <3>3. QED
        BY <1>13, <2>2, <3>1, <3>2, UpdateShowsReleased
    <2>3. QED
      BY <2>1, <2>2
  <1>16. QED
    BY <1>2, <1>10, <1>11, <1>12, <1>14, <1>15 DEF Held, Kept, ReserveIsShort

\* Where nobody is compared and C stays, what is believed stays true: a replay
\* that joins the reserve is believed to match nothing.
LEMMA HeldStays ==
    ASSUME ContractInv, Held, TypeOK', [Next]_vars,
           UNCHANGED <<matching, candidates, quorum, canon>>,
           reserve' \ reserve \subseteq {r \in Replay : task[r] = "new"}
    PROVE  Held'
  <1> TypeOK
    BY DEF ContractInv, WindowInv, FinishInv
  <1>1. \A r \in Replay : /\ Len(data[r]) \in Nat /\ Len(data'[r]) \in Nat
                          /\ matching[r] \in Nat
                          /\ Len(data[r]) <= Len(data'[r])
                          /\ \A i \in 1 .. Len(data[r]) : data'[r][i] = data[r][i]
    <2>1. \A r \in Replay : data[r] \in Seq(Byte) /\ data'[r] \in Seq(Byte) /\ matching[r] \in Nat
      BY DEF TypeOK
    <2>2. \A r \in Replay : /\ Len(data[r]) <= Len(data'[r])
                            /\ \A i \in 1 .. Len(data[r]) : data'[r][i] = data[r][i]
      BY OnlyGrows, Zenon
    <2>3. \A r \in Replay : Len(data[r]) \in Nat /\ Len(data'[r]) \in Nat /\ matching[r] \in Nat
      BY <2>1
    <2> SUFFICES ASSUME NEW r \in Replay
                 PROVE  /\ Len(data[r]) \in Nat /\ Len(data'[r]) \in Nat
                        /\ matching[r] \in Nat
                        /\ Len(data[r]) <= Len(data'[r])
                        /\ \A i \in 1 .. Len(data[r]) : data'[r][i] = data[r][i]
      OBVIOUS
    <2>4. Len(data[r]) \in Nat /\ Len(data'[r]) \in Nat /\ matching[r] \in Nat
      BY <2>3
    <2>5. /\ Len(data[r]) <= Len(data'[r])
          /\ \A i \in 1 .. Len(data[r]) : data'[r][i] = data[r][i]
      BY <2>2, Zenon
    <2>6. QED
      BY <2>4, <2>5, Zenon
  <1>2. AllCandidates' = AllCandidates /\ AllCandidates \subseteq Replay /\ quorum \subseteq Replay
    <2>1. /\ candidates' = candidates /\ candidates \in [Byte -> SUBSET Replay]
          /\ quorum \in SUBSET Replay
      BY DEF TypeOK
    <2>2. QED
      BY <2>1 DEF AllCandidates
  <1>3. ASSUME NEW r \in reserve' \cup quorum \cup AllCandidates, NEW i \in 1 .. matching[r]
        PROVE  i <= Len(data'[r]) /\ data'[r][i] = canon[i]
    <2>1. CASE r \in reserve \cup quorum \cup AllCandidates
      <3>1. i <= Len(data[r]) /\ data[r][i] = canon[i] /\ r \in Replay
        <4>1. \A q \in reserve \cup quorum \cup AllCandidates :
                \A j \in 1 .. matching[q] : j <= Len(data[q]) /\ data[q][j] = canon[j]
          BY DEF Held, MatchesHold
        <4>2. reserve \subseteq Replay
          BY DEF TypeOK
        <4>3. QED
          BY <1>2, <1>3, <2>1, <4>1, <4>2, Zenon
      <3>2. i \in 1 .. Len(data[r])
        BY <1>1, <1>3, <3>1
      <3>3. QED
        BY <1>1, <3>1, <3>2
    <2>2. CASE r \in reserve' \ reserve
      BY <1>3, <2>2 DEF Held, MatchesHold
    <2>3. QED
      BY <1>3, <2>1, <2>2
  <1>4. MatchesHold'
    <2>1. \A r \in Replay : task'[r] = "new" => task[r] = "new"
      BY OnlyGrows DEF Present
    <2>2. QED
      BY <1>2, <1>3, <2>1 DEF Held, MatchesHold
  <1>5. \A r \in Replay : Len(data'[r]) <= MaxData
    <2>1. ASSUME NEW r \in Replay, NEW b \in Byte, ReadData(r, b), NEW q \in Replay
          PROVE  Len(data'[q]) <= MaxData
      <3>1. /\ data'[q] = IF q = r THEN Append(data[r], b) ELSE data[q]
            /\ Len(data[r]) < MaxData
        BY <2>1 DEF ReadData, TypeOK
      <3>2. data[r] \in Seq(Byte)
        BY DEF TypeOK
      <3>3. Len(Append(data[r], b)) = Len(data[r]) + 1
        BY <3>2
      <3>4. QED
        BY <1>1, <3>1, <3>3, ConstantsAssumption DEF Held, BoundsHold
    <2>2. data' = data \/ \E r \in Replay, b \in Byte : ReadData(r, b)
      BY DEF Next, Work, EnterStalemate, ExitStalemate, Finalize, Terminated, Connect, HeaderAdded,
             UpdateTimestamp, CloseConnection, FinishReplay, vars, writerVars
    <2>3. QED
      BY <2>1, <2>2 DEF Held, BoundsHold
  <1>6. QED
    BY <1>4, <1>5 DEF Held, BoundsHold

\* The beliefs, and that the reserve of a stalemate is short, through every
\* step but the end of a stalemate.
LEMMA HeldStep ==
    ASSUME ContractInv, Held, ReserveIsShort, Comparable, WindowInv', [Next]_vars, ~ExitStalemate
    PROVE  Held' /\ ReserveIsShort'
  <1> TypeOK /\ TypeOK'
    BY DEF ContractInv, WindowInv, FinishInv
  <1>1. \A r \in Replay : task'[r] = "new" => task[r] = "new"
    BY OnlyGrows DEF Present
  <1>2. \A r \in Replay : /\ notified'[r] \in Nat /\ notified'[r] <= Len(data'[r])
                          /\ Len(data'[r]) \in Nat /\ Len(canon) \in Nat
    <2>1. \A r \in Replay : data'[r] \in Seq(Byte) /\ canon \in Seq(Byte) /\ notified'[r] \in Nat
      BY DEF TypeOK
    <2>2. \A r \in Replay : notified'[r] <= Len(data'[r])
      BY DEF TypeOK
    <2>3. QED
      BY <2>1, <2>2
  <1>3. ASSUME NEW moving \in SUBSET Replay, NEW cand \in [Byte -> SUBSET Replay],
               NEW finished \in SUBSET Replay,
               moving \subseteq reserve \cup quorum,
               \A b \in Byte : cand[b] = candidates[b],
               TryMoveToCandidates(moving, reserve \cup quorum, cand, finished),
               quorum' = {}, canon' = canon, data' = data,
               \/ moving = reserve \cup quorum
               \/ mode = "Stalemate" /\ \A q \in Replay \ moving : notified'[q] = notified[q]
        PROVE  Held' /\ ReserveIsShort'
    <2>1. /\ Held'
          /\ \A r \in reserve' : r \in reserve \ moving \/ r \in quorum \ moving
                                 \/ Len(data[r]) <= Len(canon)
      <3> HIDE DEF Held, TypeOK, ContractInv, WindowInv
      <3>1. QED
        BY <1>1, <1>3, ClaimsTryMove
    <2>2. mode = "Stalemate" => quorum = {}
      BY DEF ContractInv, WindowInv, Placed
    <2>3. ASSUME NEW r \in reserve' PROVE notified'[r] <= Len(canon)
      <3>1. r \in Replay
        BY DEF TypeOK
      <3>2. CASE Len(data[r]) <= Len(canon)
        BY <1>2, <1>3, <3>1, <3>2
      <3>3. CASE mode = "Stalemate" /\ r \in reserve \ moving
        BY <1>3, <3>1, <3>3 DEF ReserveIsShort
      <3>4. QED
        BY <1>3, <2>1, <2>2, <3>2, <3>3
    <2>4. QED
      BY <1>3, <2>1, <2>3 DEF ReserveIsShort
  <1>4. CASE EnterStalemate
    <2> DEFINE all == reserve \cup quorum
               none == NoCandidates
               gone == Finished
    <2>1. /\ TryMoveToCandidates(all, all, none, gone)
          /\ mode = "Quorum" /\ quorum' = {} /\ canon' = canon /\ data' = data
      BY <1>4 DEF EnterStalemate, canonVars, writerVars
    <2>2. /\ all \in SUBSET Replay /\ none \in [Byte -> SUBSET Replay] /\ gone \in SUBSET Replay
      BY WindowTypes DEF NoCandidates, Finished
    <2>3. \A b \in Byte : none[b] = candidates[b]
      BY <2>1 DEF NoCandidates, ContractInv, WindowInv, Placed, AllCandidates
    <2>4. /\ all \subseteq reserve \cup quorum /\ all = reserve \cup quorum
          /\ TryMoveToCandidates(all, reserve \cup quorum, none, gone)
      BY <2>1
    <2> HIDE DEF all, none, gone
    <2>5. QED
      BY <1>3, <2>1, <2>2, <2>3, <2>4
  <1>5. ASSUME NEW r \in Replay, NEW finished \in SUBSET Replay,
               mode = "Stalemate", r \in reserve,
               TryMoveToCandidates({r}, reserve, candidates, finished),
               quorum' = quorum, canon' = canon, data' = data,
               \A q \in Replay \ {r} : notified'[q] = notified[q]
        PROVE  Held' /\ ReserveIsShort'
    <2>1. quorum = {} /\ reserve \cup quorum = reserve
      BY <1>5 DEF ContractInv, WindowInv, Placed
    <2>2. /\ {r} \in SUBSET Replay /\ {r} \subseteq reserve \cup quorum /\ quorum' = {}
          /\ candidates \in [Byte -> SUBSET Replay]
          /\ TryMoveToCandidates({r}, reserve \cup quorum, candidates, finished)
      BY <1>5, <2>1 DEF TypeOK
    <2>3. QED
      BY <1>3, <1>5, <2>2
  <1>6. ASSUME UNCHANGED <<matching, candidates, quorum, canon, mode>>,
               reserve' \ reserve \subseteq {r \in Replay : task[r] = "new"},
               mode = "Stalemate" => \A q \in reserve : notified'[q] = notified[q]
        PROVE  Held' /\ ReserveIsShort'
    <2>1. Held'
      BY <1>6, HeldStays
    <2>2. ASSUME mode = "Stalemate", NEW r \in reserve' PROVE notified'[r] <= Len(canon)
      <3>1. CASE r \in reserve
        BY <1>6, <2>2, <3>1 DEF ReserveIsShort
      <3>2. CASE r \notin reserve
        <4>1. r \in Replay /\ task[r] = "new"
          BY <1>6, <2>2, <3>2
        <4>2. Len(data[r]) = 0
          BY <4>1 DEF ContractInv, HeaderFirst
        <4>3. data'[r] = data[r]
          BY <4>1 DEF Next, Work, EnterStalemate, ExitStalemate, Finalize, Terminated, Connect,
                      HeaderAdded, ReadData, UpdateTimestamp, CloseConnection, FinishReplay,
                      vars, writerVars, TypeOK
        <4>4. QED
          BY <1>2, <4>1, <4>2, <4>3
      <3>3. QED
        BY <3>1, <3>2
    <2>3. QED
      BY <1>6, <2>1, <2>2 DEF ReserveIsShort
  <1>7. CASE Finalize \/ UNCHANGED vars
    <2>1. UNCHANGED <<matching, candidates, quorum, canon, mode, reserve, notified>>
      BY <1>7 DEF Finalize, vars, stateVars, canonVars, writerVars, checkVars
    <2>2. QED
      BY <1>6, <2>1
  <1>8. ASSUME NEW r \in Replay, Connect(r) PROVE Held' /\ ReserveIsShort'
    <2>1. UNCHANGED <<matching, candidates, quorum, canon, mode, notified>>
          /\ reserve' = reserve \cup {r} /\ task[r] = "new"
      BY <1>8 DEF Connect, canonVars, checkVars
    <2>2. QED
      BY <1>6, <2>1
  <1>9. ASSUME NEW r \in Replay, HeaderAdded(r) \/ \E b \in Byte : ReadData(r, b)
        PROVE  Held' /\ ReserveIsShort'
    <2>1. UNCHANGED <<matching, candidates, quorum, canon, mode, reserve, notified>>
      BY <1>9 DEF HeaderAdded, ReadData, canonVars, checkVars, stateVars
    <2>2. QED
      BY <1>6, <2>1
  <1>10. ASSUME NEW r \in Replay,
                \/ \E position \in 0 .. MaxData : UpdateTimestamp(r, position)
                \/ CloseConnection(r)
         PROVE  Held' /\ ReserveIsShort'
    <2>1. /\ ReplayDataUpdated(r, delayed') /\ data' = data
          /\ \A q \in Replay \ {r} : notified'[q] = notified[q]
      BY <1>10 DEF UpdateTimestamp, CloseConnection, TypeOK
    <2>2. CASE mode = "Stalemate" /\ r \in reserve
      <3> DEFINE gone == Finished
      <3>1. TryMoveToCandidates({r}, reserve, candidates, gone) /\ quorum' = quorum /\ canon' = canon
        BY <2>1, <2>2 DEF ReplayDataUpdated, canonVars
      <3>2. gone \in SUBSET Replay
        BY DEF Finished
      <3> HIDE DEF gone
      <3>3. QED
        BY <1>5, <2>1, <2>2, <3>1, <3>2
    <2>3. CASE ~(mode = "Stalemate" /\ r \in reserve)
      <3>1. UNCHANGED <<matching, candidates, quorum, canon, mode, reserve>>
        BY <2>1, <2>3 DEF ReplayDataUpdated, stateVars, canonVars, checkVars
      <3>2. mode = "Stalemate" => \A q \in reserve : notified'[q] = notified[q]
        BY <2>1, <2>3 DEF TypeOK
      <3>3. QED
        BY <1>6, <3>1, <3>2
    <2>4. QED
      BY <2>2, <2>3
  <1>11. ASSUME NEW r \in Replay, FinishReplay(r) PROVE Held' /\ ReserveIsShort'
    <2>1. UNCHANGED <<data, notified, mode, quorum, canon>>
      BY <1>11 DEF FinishReplay, canonVars
    <2>2. CASE mode = "Stalemate" /\ r \in reserve
      <3> DEFINE gone == Finished \cup {r}
      <3>1. TryMoveToCandidates({r}, reserve, candidates, gone)
        BY <1>11, <2>2 DEF FinishReplay
      <3>2. gone \in SUBSET Replay
        BY DEF Finished
      <3> HIDE DEF gone
      <3>3. QED
        BY <1>5, <2>1, <2>2, <3>1, <3>2
    <2>3. CASE ~(mode = "Stalemate" /\ r \in reserve)
      <3>1. UNCHANGED <<matching, candidates, quorum, canon, mode, reserve>>
        BY <1>11, <2>1, <2>3 DEF FinishReplay
      <3>2. QED
        BY <1>6, <2>1, <3>1
    <2>4. QED
      BY <2>2, <2>3
  <1>12. QED
    BY <1>4, <1>7, <1>8, <1>9, <1>10, <1>11 DEF Next, Work, Terminated

\* While a quorum goes on nobody is dropped, and who ended stays as short.
LEMMA DroppedIsShortStep ==
    ASSUME ContractInv, TypeOK', [Next]_vars, ~ExitStalemate, DroppedIsShort
    PROVE  DroppedIsShort'
  <1> TypeOK
    BY DEF ContractInv, WindowInv, FinishInv
  <1> SUFFICES ASSUME mode' = "Quorum", NEW r \in Present', r \notin reserve' \cup quorum'
               PROVE  \/ \E i \in 1 .. Len(canon') : i <= Len(data'[r]) /\ data'[r][i] # canon'[i]
                      \/ r \in Finished' /\ Len(data'[r]) < Len(canon')
    BY DEF DroppedIsShort
  <1>1. /\ mode = "Quorum" /\ quorum' = quorum /\ canon' = canon
        /\ reserve \subseteq reserve' /\ Present' \subseteq Present \cup reserve'
    <2>1. mode = "Quorum"
      <3>1. CASE EnterStalemate
        BY <3>1 DEF EnterStalemate
      <3>2. CASE UNCHANGED stateVars
        BY <3>2 DEF stateVars
      <3>3. EnterStalemate \/ UNCHANGED stateVars \/ mode' = mode
        BY DEF Next, Work, Finalize, Terminated, Connect, HeaderAdded, ReadData,
               UpdateTimestamp, CloseConnection, FinishReplay, ReplayDataUpdated, vars, stateVars
      <3>4. QED
        BY <3>1, <3>2, <3>3
    <2>2. quorum' = quorum /\ canon' = canon /\ reserve \subseteq reserve'
      BY <2>1 DEF Next, Work, EnterStalemate, Finalize, Terminated, Connect, HeaderAdded,
             ReadData, UpdateTimestamp, CloseConnection, FinishReplay, ReplayDataUpdated, vars,
             stateVars, canonVars
    <2>3. Present' \subseteq Present \cup reserve'
      <3>1. ASSUME NEW q \in Replay, Connect(q) PROVE Present' \subseteq Present \cup reserve'
        BY <3>1 DEF Connect, Present, TypeOK
      <3>2. ASSUME NEW q \in Replay, HeaderAdded(q) \/ CloseConnection(q) \/ FinishReplay(q)
            PROVE  Present' \subseteq Present
        BY <3>2 DEF HeaderAdded, CloseConnection, FinishReplay, Present, TypeOK
      <3>3. task' = task => Present' \subseteq Present
        BY DEF Present
      <3>4. QED
        BY <3>1, <3>2, <3>3 DEF Next, Work, EnterStalemate, ExitStalemate, Finalize, Terminated,
           ReadData, UpdateTimestamp, ReplayDataUpdated, vars, writerVars
    <2>4. QED
      BY <2>1, <2>2, <2>3
  <1>2. r \in Present \ (reserve \cup quorum) /\ r \in Replay
    BY <1>1 DEF Present
  <1>3. /\ data[r] \in Seq(Byte) /\ data'[r] \in Seq(Byte) /\ Len(canon) \in Nat
    BY <1>2, WindowTypes DEF TypeOK
  <1>4. \/ \E i \in 1 .. Len(canon) : i <= Len(data[r]) /\ data[r][i] # canon[i]
        \/ r \in Finished /\ Len(data[r]) < Len(canon)
    BY <1>1, <1>2 DEF DroppedIsShort
  <1>5. CASE \E i \in 1 .. Len(canon) : i <= Len(data[r]) /\ data[r][i] # canon[i]
    <2>1. PICK i \in 1 .. Len(canon) : i <= Len(data[r]) /\ data[r][i] # canon[i]
      BY <1>5
    <2>2. /\ Len(data[r]) <= Len(data'[r])
          /\ \A k \in 1 .. Len(data[r]) : data'[r][k] = data[r][k]
      BY <1>2, OnlyGrows
    <2>3. i <= Len(data'[r]) /\ data'[r][i] # canon[i]
      BY <1>3, <2>1, <2>2
    <2>4. QED
      BY <1>1, <2>1, <2>3
  <1>6. CASE r \in Finished /\ Len(data[r]) < Len(canon)
    <2>1. task[r] = "ended"
      BY <1>6 DEF Finished
    <2>2. task'[r] = "ended" /\ data'[r] = data[r]
      BY <1>2, <2>1, ZenonT(60)
         DEF Next, Work, EnterStalemate, ExitStalemate, Finalize, Terminated, Connect, HeaderAdded,
             ReadData, UpdateTimestamp, CloseConnection, FinishReplay, vars, writerVars, TypeOK
    <2>3. QED
      BY <1>1, <1>2, <1>6, <2>2 DEF Finished
  <1>7. QED
    BY <1>4, <1>5, <1>6

\* A callback shows what the delay of a member released, and the members hold
\* all of C.
LEMMA ReleasedFirstStep ==
    ASSUME ContractInv, Held, ReleasedFirst, TypeOK', Held', [Next]_vars, ~ExitStalemate
    PROVE  ReleasedFirst'
  <1> TypeOK
    BY DEF ContractInv, WindowInv, FinishInv
  <1>1. CASE canonDelayed' = canonDelayed
    BY <1>1, ReleasedStays
  <1>2. CASE canonDelayed' # canonDelayed
    <2>1. PICK r \in Replay : /\ ReplayDataUpdated(r, delayed') /\ mode = "Quorum" /\ r \in quorum
                              /\ UpdateCanonDelayed(quorum, delayed', Len(canon))
      <3>1. \E r \in Replay : /\ ReplayDataUpdated(r, delayed')
        BY <1>2 DEF Next, Work, EnterStalemate, Finalize, Terminated, Connect, HeaderAdded,
             ReadData, UpdateTimestamp, CloseConnection, FinishReplay, vars, canonVars
      <3>2. QED
        BY <1>2, <3>1 DEF ReplayDataUpdated, canonVars
    <2>2. canon' = canon /\ quorum' = quorum
      BY <2>1 DEF ReplayDataUpdated, stateVars
    <2>3. \A q \in quorum' : \A i \in 1 .. Len(canon') : data'[q][i] = canon'[i]
      BY DEF Held, MatchesHold
    <2>4. quorum \subseteq Present'
      <3>1. quorum \subseteq Present
        BY DEF Present, ContractInv, WindowInv, FinishInv, Registered, TypeOK
      <3>2. QED
        BY <3>1, OnlyGrows
    <2>5. Len(canon) \in Nat /\ Len(canon) <= Len(canon')
      BY <2>2, WindowTypes
    <2> DEFINE positions == delayed'
               n == Len(canon)
    <2>6. UpdateCanonDelayed(quorum, positions, n) /\ positions = delayed'
      BY <2>1
    <2> HIDE DEF positions, n
    <2>7. n \in Nat /\ n <= Len(canon')
      BY <2>5 DEF n
    <2>8. QED
      BY <1>2, <2>2, <2>3, <2>4, <2>6, <2>7, UpdateShowsReleased
  <1>3. QED
    BY <1>1, <1>2

\* So the claims are inductive.
LEMMA ClaimsInvStep == Comparable /\ ClaimsInv /\ [Next]_vars => ClaimsInv'
  <1> SUFFICES ASSUME Comparable, ClaimsInv, [Next]_vars PROVE ClaimsInv'
    OBVIOUS
  <1>1. ContractInv /\ Held /\ Kept
    BY DEF ClaimsInv
  <1>2. ContractInv'
    BY <1>1, ContractInvStep
  <1>3. WindowInv' /\ TypeOK'
    BY <1>2 DEF ContractInv, WindowInv, FinishInv
  <1>4. CASE ExitStalemate
    BY <1>1, <1>2, <1>3, <1>4, ClaimsExit DEF ClaimsInv
  <1>5. CASE ~ExitStalemate
    <2>1. Held' /\ ReserveIsShort'
      BY <1>1, <1>3, <1>5, HeldStep DEF Kept
    <2>2. DroppedIsShort' /\ ReleasedFirst'
      BY <1>1, <1>3, <1>5, <2>1, DroppedIsShortStep, ReleasedFirstStep DEF Kept
    <2>3. canon' = canon
      BY <1>5 DEF Next, Work, EnterStalemate, Finalize, Terminated, Connect, HeaderAdded, ReadData,
             UpdateTimestamp, CloseConnection, FinishReplay, ReplayDataUpdated, vars, canonVars
    <2>4. SomebodyHoldsC'
      BY <1>1, <1>3, <2>3, HolderStays DEF Kept
    <2>5. QED
      BY <1>2, <2>1, <2>2, <2>4 DEF ClaimsInv, Kept
  <1>6. QED
    BY <1>4, <1>5

\* In a stalemate the candidates match C and continue it, the reserve is short,
\* and what is in neither can never extend C.
LEMMA ClaimsOfStalemate == ClaimsInv => StalemateInvariant
  <1> SUFFICES ASSUME ClaimsInv, mode = "Stalemate"
               PROVE  /\ \A b \in Byte : \A r \in candidates[b] :
                            IsPrefixOf(Append(canon, b), data[r])
                      /\ \A r \in reserve : notified[r] <= Len(canon) /\ r \notin Finished
                      /\ \A r \in Present \ (AllCandidates \cup reserve) :
                            Diverged(r) \/ (r \in Finished /\ Len(data[r]) <= Len(canon))
    BY DEF StalemateInvariant
  <1> TypeOK
    BY DEF ClaimsInv, ContractInv, WindowInv, FinishInv
  <1>1. canon \in Seq(Byte) /\ Len(canon) \in Nat
    BY DEF TypeOK
  <1>2. ASSUME NEW b \in Byte, NEW r \in candidates[b]
        PROVE  IsPrefixOf(Append(canon, b), data[r])
    <2>1. r \in Replay /\ r \in AllCandidates
      BY DEF TypeOK, AllCandidates
    <2>2. /\ Len(data[r]) > Len(canon) /\ data[r][Len(canon) + 1] = b
          /\ \A i \in 1 .. Len(canon) : data[r][i] = canon[i]
      BY <2>1 DEF ClaimsInv, ContractInv, FiledByNextByte, WindowInv, MatchingIsWithin, FinishInv,
                  StalemateShape, Held, MatchesHold
    <2>3. Len(data[r]) \in Nat
      BY <2>1, MatchStartType
    <2> DEFINE s == Append(canon, b)
    <2>4. /\ Len(s) = Len(canon) + 1 /\ s[Len(canon) + 1] = b
          /\ \A i \in 1 .. Len(canon) : s[i] = canon[i]
      BY <1>1
    <2> HIDE DEF s
    <2>5. Len(s) <= Len(data[r]) /\ \A i \in 1 .. Len(s) : s[i] = data[r][i]
      BY <1>1, <2>2, <2>3, <2>4
    <2>6. QED
      BY <2>5 DEF IsPrefixOf, s
  <1>3. \A r \in reserve : notified[r] <= Len(canon) /\ r \notin Finished
    BY DEF ClaimsInv, Kept, ReserveIsShort, ContractInv, WindowInv, FinishInv, StalemateShape, Finished
  <1>4. ASSUME NEW r \in Present \ (AllCandidates \cup reserve)
        PROVE  Diverged(r) \/ (r \in Finished /\ Len(data[r]) <= Len(canon))
    <2>1. \/ \E i \in 1 .. Len(canon) : i <= Len(data[r]) /\ data[r][i] # canon[i]
          \/ r \in Finished /\ Len(data[r]) <= Len(canon)
      BY DEF ClaimsInv, ContractInv, DroppedForGood, WindowInv, Placed
    <2>2. ASSUME NEW i \in 1 .. Len(canon), i <= Len(data[r]), data[r][i] # canon[i]
          PROVE  Diverged(r)
      <3>1. Len(data[r]) \in Nat
        BY MatchStartType DEF Present
      <3>2. i \in 1 .. Len(data[r])
        BY <1>1, <2>2, <3>1
      <3>3. QED
        BY <2>2, <3>2 DEF Diverged, IsPrefixOf
    <2>3. QED
      BY <2>1, <2>2
  <1>5. QED
    BY <1>2, <1>3, <1>4

\* In a quorum the members match C, all that was dropped diverged, and the
\* slowest member's delayed position is exposed.
LEMMA ClaimsOfQuorum == ClaimsInv => QuorumInvariant
  <1> SUFFICES ASSUME ClaimsInv, mode = "Quorum", Idle
               PROVE  /\ quorum # {} /\ Cardinality(quorum) <= TargetQuorumSize
                      /\ \A q \in quorum : IsPrefixOf(canon, data[q])
                      /\ \A r \in Present \ (quorum \cup reserve) : Diverged(r)
                      /\ \A m \in Slowest(quorum, delayed) : canonDelayed >= delayed[m]
    BY DEF QuorumInvariant
  <1> TypeOK
    BY DEF ClaimsInv, ContractInv, WindowInv, FinishInv
  <1>1. Len(canon) \in Nat /\ \A r \in Replay : Len(data[r]) \in Nat
    BY WindowTypes, MatchStartType
  <1>2. PICK m \in quorum : canonDelayed >= MinOf(delayed[m], Len(canon))
    BY DEF ClaimsInv, ContractInv, WindowInv, FinishInv, QuorumShape
  <1>3. ASSUME NEW q \in quorum PROVE IsPrefixOf(canon, data[q])
    <2>1. /\ Len(data[q]) >= Len(canon)
          /\ \A i \in 1 .. Len(canon) : data[q][i] = canon[i]
      BY DEF ClaimsInv, ContractInv, WindowInv, FinishInv, QuorumShape, Held, MatchesHold
    <2>2. q \in Replay
      BY DEF TypeOK
    <2>3. QED
      BY <1>1, <2>1, <2>2 DEF IsPrefixOf
  <1>4. ASSUME NEW r \in Present \ (quorum \cup reserve) PROVE Diverged(r)
    <2>1. r \in Replay
      BY DEF Present
    <2>2. \/ \E i \in 1 .. Len(canon) : i <= Len(data[r]) /\ data[r][i] # canon[i]
          \/ r \in Finished /\ Len(data[r]) < Len(canon)
      BY DEF ClaimsInv, Kept, DroppedIsShort
    <2>3. ASSUME NEW i \in 1 .. Len(canon), i <= Len(data[r]), data[r][i] # canon[i]
          PROVE  Diverged(r)
      <3>1. i \in 1 .. Len(data[r])
        BY <1>1, <2>1, <2>3
      <3>2. QED
        BY <2>3, <3>1 DEF Diverged, IsPrefixOf
    <2>4. QED
      BY <2>2, <2>3 DEF Diverged
  <1>5. ASSUME NEW s \in Slowest(quorum, delayed) PROVE canonDelayed >= delayed[s]
    <2>1. canonDelayed < Len(canon)
      <3>1. canonDelayed \in Nat
        BY DEF TypeOK
      <3>2. QED
        BY <1>1, <3>1 DEF Idle, ShouldChangeState, HasToEnterStalemate
    <2>2. s \in quorum /\ delayed[s] <= delayed[m]
      BY DEF Slowest
    <2>3. delayed[s] \in Nat /\ delayed[m] \in Nat /\ canonDelayed \in Nat
      BY <2>2 DEF TypeOK
    <2>4. QED
      BY <1>1, <1>2, <2>1, <2>2, <2>3 DEF MinOf
  <1>6. Cardinality(quorum) <= TargetQuorumSize
    BY DEF ClaimsInv, Held, BoundsHold
  <1>7. QED
    BY <1>2, <1>3, <1>4, <1>5, <1>6

\* What is shown is a prefix of C, so it is one of the data of the replay that
\* released it.
LEMMA ClaimsOfReaders == ClaimsInv => ExposedDataWasReleased
  <1> SUFFICES ASSUME ClaimsInv, canonDelayed > 0
               PROVE  \E r \in Present :
                        /\ canonDelayed <= delayed[r]
                        /\ IsPrefixOf(SubSeq(canon, 1, canonDelayed), data[r])
    BY DEF ExposedDataWasReleased
  <1> TypeOK
    BY DEF ClaimsInv, ContractInv, WindowInv, FinishInv
  <1>1. PICK r \in Present : /\ canonDelayed <= delayed[r]
                             /\ \A i \in 1 .. canonDelayed : data[r][i] = canon[i]
    BY DEF ClaimsInv, Kept, ReleasedFirst
  <1>2. /\ canon \in Seq(Byte) /\ canonDelayed \in Nat /\ canonDelayed <= Len(canon)
        /\ delayed[r] \in Nat /\ Len(data[r]) \in Nat /\ delayed[r] <= Len(data[r])
    <2>1. r \in Replay
      BY DEF Present
    <2>2. Len(data[r]) \in Nat
      BY <2>1, MatchStartType
    <2>3. QED
      BY <2>1, <2>2 DEF TypeOK
  <1> DEFINE s == SubSeq(canon, 1, canonDelayed)
  <1>3. Len(s) = canonDelayed /\ \A i \in 1 .. canonDelayed : s[i] = canon[i]
    BY <1>2
  <1> HIDE DEF s
  <1>4. Len(s) <= Len(data[r]) /\ \A i \in 1 .. Len(s) : s[i] = data[r][i]
    BY <1>1, <1>2, <1>3
  <1>5. QED
    BY <1>1, <1>4 DEF IsPrefixOf, s

\* At the end everybody was dropped for good: nobody that matches C is longer.
LEMMA NobodyHasMore ==
    ASSUME ClaimsInv, canonFinished
    PROVE  \A r \in Present :
             \/ \E i \in 1 .. Len(canon) : i <= Len(data[r]) /\ data[r][i] # canon[i]
             \/ Len(data[r]) <= Len(canon)
  <1>1. FinishInv /\ AllWritersGone /\ ~ShouldChangeState
    BY DEF ClaimsInv, ContractInv, WindowInv, QuietOnceFinished
  <1> TypeOK
    BY <1>1 DEF FinishInv
  <1>2. Idle
    BY <1>1 DEF Idle, AllWritersGone
  <1>3. mode = "Stalemate" /\ reserve = {} /\ AllCandidates = {}
    BY <1>1, <1>2, FinishInvSuffices DEF FinishAssertions
  <1>4. quorum = {}
    BY <1>3 DEF ClaimsInv, ContractInv, WindowInv, Placed
  <1>5. QED
    BY <1>3, <1>4 DEF ClaimsInv, ContractInv, DroppedForGood

\* That holds of the replay that has all of C: it has no byte beyond it.
LEMMA ClaimsAtTheEnd == ClaimsInv => FinalIsSentReplay
  <1> SUFFICES ASSUME ClaimsInv, canonFinished, Present # {}
               PROVE  \E r \in Present : canon = data[r]
    BY DEF FinalIsSentReplay
  <1> TypeOK
    BY DEF ClaimsInv, ContractInv, WindowInv, FinishInv
  <1>1. \A r \in Present :
            \/ \E i \in 1 .. Len(canon) : i <= Len(data[r]) /\ data[r][i] # canon[i]
            \/ Len(data[r]) <= Len(canon)
    BY NobodyHasMore
  <1>2. canon \in Seq(Byte) /\ \A r \in Present : data[r] \in Seq(Byte)
    BY DEF TypeOK, Present
  <1>3. ASSUME NEW r \in Present, Len(canon) <= Len(data[r]),
               \A i \in 1 .. Len(canon) : canon[i] = data[r][i]
        PROVE  canon = data[r]
    <2>1. data[r] \in Seq(Byte)
      BY <1>2
    <2>2. Len(data[r]) \in Nat /\ Len(canon) \in Nat
      BY <1>2, <2>1
    <2>3. Len(data[r]) <= Len(canon)
      BY <1>1, <1>3
    <2>4. Len(data[r]) = Len(canon)
      BY <1>3, <2>2, <2>3
    <2>5. QED
      BY <1>2, <1>3, <2>1, <2>4, SeqEqual
  <1>4. CASE Len(canon) > 0
    <2>1. PICK r \in Present : IsPrefixOf(canon, data[r])
      BY <1>4 DEF ClaimsInv, Kept, SomebodyHoldsC
    <2>2. QED
      BY <1>3, <2>1 DEF IsPrefixOf
  <1>5. CASE ~(Len(canon) > 0)
    <2>1. Len(canon) = 0
      BY <1>2, <1>5
    <2>2. PICK r \in Present : TRUE
      OBVIOUS
    <2>3. Len(data[r]) \in Nat
      BY <1>2
    <2>4. QED
      BY <1>3, <2>1, <2>3
  <1>6. QED
    BY <1>4, <1>5

\* While a stalemate is open, and comparisons cover all of C, every candidate
\* matches C and continues it with the byte it is filed under, the reserve was
\* no longer than C when last looked at, and nothing else can extend C.
THEOREM StalematesAreTrue ==
    ASSUME Comparable
    PROVE  Spec => []StalemateInvariant
  <1>1. ClaimsInv /\ [Next]_vars => ClaimsInv'
    BY ClaimsInvStep
  <1>2. QED
    BY <1>1, InitClaimsInv, ClaimsOfStalemate, PTL DEF Spec

\* A quorum of the documented size matches C throughout, and what is exposed
\* has reached its slowest member (the comment on MergeQuorumState).
THEOREM QuorumsAreTrue ==
    ASSUME Comparable
    PROVE  Spec => []QuorumInvariant
  <1>1. ClaimsInv /\ [Next]_vars => ClaimsInv'
    BY ClaimsInvStep
  <1>2. QED
    BY <1>1, InitClaimsInv, ClaimsOfQuorum, PTL DEF Spec

\* Readers never see a byte before the delay of some writer that sent it, and
\* everything before it, has passed.
THEOREM NothingIsShownEarly ==
    ASSUME Comparable
    PROVE  Spec => []ExposedDataWasReleased
  <1>1. ClaimsInv /\ [Next]_vars => ClaimsInv'
    BY ClaimsInvStep
  <1>2. QED
    BY <1>1, InitClaimsInv, ClaimsOfReaders, PTL DEF Spec

\* The second claim of the source's justification: the canonical replay that
\* finalize leaves is one that a writer sent, byte for byte.
THEOREM CanonIsASentReplay ==
    ASSUME Comparable
    PROVE  Spec => []FinalIsSentReplay
  <1>1. ClaimsInv /\ [Next]_vars => ClaimsInv'
    BY ClaimsInvStep
  <1>2. QED
    BY <1>1, InitClaimsInv, ClaimsAtTheEnd, PTL DEF Spec
-----------------------------------------------------------------------------
(* The first claim: the work loop ends                                     *)

\* C never passes the longest replay, whatever is compared.
SomebodyIsAsLong == Len(canon) > 0 => \E r \in Replay : Len(canon) <= Len(data[r])

LoopInv == ContractInv /\ SomebodyIsAsLong

LEMMA LoopStep == LoopInv /\ [Next]_vars => LoopInv'
  <1> SUFFICES ASSUME LoopInv, [Next]_vars PROVE LoopInv'
    OBVIOUS
  <1>1. ContractInv /\ ContractInv'
    BY ContractInvStep DEF LoopInv
  <1>2. TypeOK /\ TypeOK'
    BY <1>1 DEF ContractInv, WindowInv, FinishInv
  <1>3. CASE ExitStalemate
    <2>1. PICK b \in Byte, p \in Nat : Len(canon') = p /\ \E q \in quorum' : p <= Len(data[q])
      BY <1>2, <1>3, ExitOutcome
    <2>2. data' = data /\ quorum' \subseteq Replay
      BY <1>2, <1>3 DEF ExitStalemate, writerVars, TypeOK
    <2>3. QED
      BY <1>1, <2>1, <2>2 DEF LoopInv, SomebodyIsAsLong
  <1>4. CASE ~ExitStalemate
    <2>1. canon' = canon
      BY <1>4 DEF Next, Work, EnterStalemate, Finalize, Terminated, Connect, HeaderAdded, ReadData,
             UpdateTimestamp, CloseConnection, FinishReplay, ReplayDataUpdated, vars, canonVars
    <2> SUFFICES ASSUME Len(canon) > 0
                 PROVE  \E r \in Replay : Len(canon) <= Len(data'[r])
      BY <1>1, <2>1 DEF LoopInv, SomebodyIsAsLong
    <2>2. PICK r \in Replay : Len(canon) <= Len(data[r])
      BY DEF LoopInv, SomebodyIsAsLong
    <2>3. data[r] \in Seq(Byte) /\ data'[r] \in Seq(Byte) /\ canon \in Seq(Byte)
      BY <1>2 DEF TypeOK
    <2>4. Len(data[r]) \in Nat /\ Len(data'[r]) \in Nat /\ Len(canon) \in Nat
      BY <2>3
    <2>5. Len(data[r]) <= Len(data'[r])
      BY <1>1, <1>2, OnlyGrows
    <2>6. QED
      BY <2>2, <2>4, <2>5
  <1>5. QED
    BY <1>3, <1>4

\* The first claim of the source's justification: an iteration of
\* work_state_until_stable enters a stalemate or resolves one, and the latter
\* advances C, which is never longer than the longest replay.
THEOREM WorkLoopEnds == Spec => WorkEnds
  <1> DEFINE WorkStep ==
                \A l \in 0 .. MaxData :
                    Work /\ (\A r \in Replay : Len(data[r]) <= l) =>
                        WorkLeft(l)' \in Nat /\ WorkLeft(l)' < WorkLeft(l)
  <1>1. LoopInv /\ LoopInv' /\ [Next]_vars => [WorkStep]_vars
    <2> SUFFICES ASSUME LoopInv, LoopInv', NEW l \in 0 .. MaxData, Work,
                        \A r \in Replay : Len(data[r]) <= l
                 PROVE  WorkLeft(l)' \in Nat /\ WorkLeft(l)' < WorkLeft(l)
      OBVIOUS
    <2>1. TypeOK /\ TypeOK'
      BY DEF LoopInv, ContractInv, WindowInv, FinishInv
    <2>2. Len(canon) \in Nat /\ Len(canon') \in Nat /\ l \in Nat
      <3>1. canon \in Seq(Byte) /\ canon' \in Seq(Byte)
        BY <2>1 DEF TypeOK
      <3>2. QED
        BY <3>1, ConstantsAssumption
    <2>3. data' = data
      BY DEF Work, EnterStalemate, ExitStalemate, writerVars
    <2>4. Len(canon') <= l
      <3>1. CASE Len(canon') = 0
        BY <2>2, <3>1
      <3>2. CASE Len(canon') # 0
        <4>1. PICK r \in Replay : Len(canon') <= Len(data[r])
          BY <2>2, <2>3, <3>2 DEF LoopInv, SomebodyIsAsLong
        <4>2. Len(data[r]) <= l /\ Len(data[r]) \in Nat
          BY <2>1, WindowTypes
        <4>3. QED
          BY <2>2, <4>1, <4>2
      <3>3. QED
        BY <3>1, <3>2
    <2>5. CASE EnterStalemate
      <3>1. canon' = canon /\ mode = "Quorum" /\ mode' = "Stalemate"
        BY <2>5 DEF EnterStalemate, canonVars
      <3>2. QED
        BY <2>2, <2>4, <3>1 DEF WorkLeft
    <2>6. CASE ExitStalemate
      <3>1. mode = "Stalemate" /\ mode' = "Quorum" /\ Len(canon') > Len(canon)
        BY <2>1, <2>6, ExitFacts DEF ExitStalemate
      <3>2. QED
        BY <2>2, <2>4, <3>1 DEF WorkLeft
    <2>7. QED
      BY <2>5, <2>6 DEF Work
  <1>2. Init => LoopInv
    BY InitContractInv, EmptyIsSeq DEF Init, LoopInv, SomebodyIsAsLong
  <1> HIDE DEF WorkStep
  <1>3. Spec => [][WorkStep]_vars
    BY <1>1, <1>2, LoopStep, PTL DEF Spec
  <1>4. QED
    BY <1>3 DEF WorkEnds, WorkStep
-----------------------------------------------------------------------------
(* The third claim: C never follows one writer away from two that agree    *)

\* Byte n of C was sent by two writers that sent all of C before it ...
TwoSent(n) == \E q, r \in Present : q # r /\ SentFirst(q, n) /\ SentFirst(r, n)

\* ... or it was taken when no two such writers agreed on byte n, and every other
\* writer had left C, or ended, before it.
NoTwoAgree(n) ==
    \A q, r \in Present :
        /\ q # r
        /\ SentFirst(q, n - 1) /\ n <= Len(data[q])
        /\ SentFirst(r, n - 1) /\ n <= Len(data[r])
        => data[q][n] # data[r][n]

AllHadTheirSay(n) ==
    \A r \in Present :
        \/ n <= Len(data[r])
        \/ r \in Finished
        \/ \E i \in 1 .. Len(data[r]) : i < n /\ data[r][i] # canon[i]

Decided(n) == TwoSent(n) \/ (NoTwoAgree(n) /\ AllHadTheirSay(n))

LoneInv == ClaimsInv /\ \A n \in 1 .. Len(canon) : Decided(n)

\* A replay that has ended has sent all its data.
LEMMA FinishedIsFinal ==
    ASSUME TypeOK, [Next]_vars
    PROVE  \A r \in Finished : r \in Finished' /\ data'[r] = data[r]
  <1> SUFFICES ASSUME NEW r \in Replay, task[r] = "ended"
               PROVE  task'[r] = "ended" /\ data'[r] = data[r]
    BY DEF Finished
  <1>1. \/ task' = task
        \/ \E q \in Replay : task[q] # "ended" /\ \E t : task' = [task EXCEPT ![q] = t]
    BY DEF Next, Work, EnterStalemate, ExitStalemate, Finalize, Terminated, Connect, HeaderAdded,
           ReadData, UpdateTimestamp, CloseConnection, FinishReplay, vars, writerVars
  <1>2. \/ data' = data
        \/ \E q \in Replay : task[q] # "ended" /\ \E d : data' = [data EXCEPT ![q] = d]
    BY DEF Next, Work, EnterStalemate, ExitStalemate, Finalize, Terminated, Connect, HeaderAdded,
           ReadData, UpdateTimestamp, CloseConnection, FinishReplay, vars, writerVars
  <1>3. QED
    BY <1>1, <1>2 DEF TypeOK

\* What was decided stays so, as long as nobody joins: a writer that can still
\* send has left C before.
LEMMA DecidedStays ==
    ASSUME ContractInv, TypeOK', [Next]_vars, Present' = Present,
           NEW n \in 1 .. Len(canon), Decided(n)
    PROVE  Decided(n)'
  <1> TypeOK
    BY DEF ContractInv, WindowInv, FinishInv
  <1>1. \A r \in Present : /\ Len(data[r]) \in Nat /\ Len(data'[r]) \in Nat
                           /\ Len(data[r]) <= Len(data'[r])
                           /\ \A i \in 1 .. Len(data[r]) : data'[r][i] = data[r][i]
    <2> SUFFICES ASSUME NEW r \in Replay
                 PROVE  /\ Len(data[r]) \in Nat /\ Len(data'[r]) \in Nat
                        /\ Len(data[r]) <= Len(data'[r])
                        /\ \A i \in 1 .. Len(data[r]) : data'[r][i] = data[r][i]
      BY DEF Present
    <2>1. data[r] \in Seq(Byte) /\ data'[r] \in Seq(Byte)
      BY DEF TypeOK
    <2>2. Len(data[r]) \in Nat /\ Len(data'[r]) \in Nat
      BY <2>1
    <2>3. QED
      BY <2>2, OnlyGrows
  <1>2. Len(canon) \in Nat /\ n \in Nat /\ n >= 1 /\ n <= Len(canon)
    BY WindowTypes
  <1>3. \A i \in 1 .. Len(canon) : canon'[i] = canon[i]
    BY OnlyGrows
  <1>4. \A i \in 1 .. n : canon'[i] = canon[i]
    BY <1>2, <1>3
  <1>5. ASSUME TwoSent(n) PROVE TwoSent(n)'
    <2>1. ASSUME NEW r \in Present, SentFirst(r, n) PROVE SentFirst(r, n)'
      BY <1>1, <1>2, <1>4, <2>1, SMTT(30) DEF SentFirst
    <2>2. QED
      BY <1>5, <2>1 DEF TwoSent
  <1>6. ASSUME NoTwoAgree(n), AllHadTheirSay(n) PROVE NoTwoAgree(n)' /\ AllHadTheirSay(n)'
    <2>1. AllHadTheirSay(n)'
      <3> SUFFICES ASSUME NEW r \in Present
                   PROVE  \/ n <= Len(data'[r])
                          \/ r \in Finished'
                          \/ \E i \in 1 .. Len(data'[r]) : i < n /\ data'[r][i] # canon'[i]
        BY DEF AllHadTheirSay
      <3>1. CASE n <= Len(data[r])
        BY <1>1, <1>2, <3>1
      <3>2. CASE r \in Finished
        BY <3>2, FinishedIsFinal
      <3>3. CASE \E i \in 1 .. Len(data[r]) : i < n /\ data[r][i] # canon[i]
        <4>1. PICK i \in 1 .. Len(data[r]) : i < n /\ data[r][i] # canon[i]
          BY <3>3
        <4>2. i \in 1 .. Len(data'[r]) /\ i \in 1 .. n /\ i < n
          BY <1>1, <1>2, <4>1
        <4>3. data'[r][i] # canon'[i]
          BY <1>1, <1>4, <4>1, <4>2
        <4>4. QED
          BY <4>2, <4>3
      <3>4. QED
        BY <1>6, <3>1, <3>2, <3>3 DEF AllHadTheirSay
    <2>2. ASSUME NEW r \in Present, SentFirst(r, n - 1)', n <= Len(data'[r])
          PROVE  /\ SentFirst(r, n - 1) /\ n <= Len(data[r]) /\ data'[r][n] = data[r][n]
      <3>1. n <= Len(data[r])
        <4> SUFFICES ASSUME ~(n <= Len(data[r])) PROVE FALSE
          OBVIOUS
        <4>1. CASE r \in Finished
          <5>1. data'[r] = data[r]
            BY <4>1, FinishedIsFinal
          <5>2. QED
            BY <2>2, <5>1
        <4>2. CASE \E i \in 1 .. Len(data[r]) : i < n /\ data[r][i] # canon[i]
          <5>1. PICK i \in 1 .. Len(data[r]) : i < n /\ data[r][i] # canon[i]
            BY <4>2
          <5>2. i \in 1 .. (n - 1) /\ i \in 1 .. n
            BY <1>1, <1>2, <5>1
          <5>3. data'[r][i] = canon'[i]
            BY <2>2, <5>2 DEF SentFirst
          <5>4. QED
            BY <1>1, <1>4, <5>1, <5>2, <5>3
        <4>3. QED
          BY <1>6, <4>1, <4>2 DEF AllHadTheirSay
      <3>2. \A i \in 1 .. n : i \in 1 .. Len(data[r]) /\ data'[r][i] = data[r][i]
        BY <1>1, <1>2, <3>1
      <3>3. \A i \in 1 .. (n - 1) : i \in 1 .. n
        BY <1>2
      <3>4. \A i \in 1 .. (n - 1) : data[r][i] = canon[i]
        BY <1>4, <2>2, <3>2, <3>3 DEF SentFirst
      <3>5. n - 1 <= Len(data[r]) /\ n \in 1 .. n
        BY <1>1, <1>2, <3>1
      <3>6. QED
        BY <3>1, <3>2, <3>4, <3>5 DEF SentFirst
    <2>3. NoTwoAgree(n)'
      BY <1>6, <2>2 DEF NoTwoAgree
    <2>4. QED
      BY <2>1, <2>3
  <1>7. QED
    BY <1>5, <1>6 DEF Decided

\* A set of at most one has no second element.
LEMMA AtMostOne ==
    ASSUME NEW S, IsFiniteSet(S), Cardinality(S) <= 1, NEW x \in S, NEW y \in S
    PROVE  x = y
  <1>1. Cardinality(S) \in Nat /\ (Cardinality(S) = 0 <=> S = {})
    BY FS_CardinalityType, FS_EmptySet
  <1>2. Cardinality(S) = 1
    BY <1>1
  <1>3. QED
    BY <1>2, FS_Singleton

\* A stalemate that is resolved in favour of one writer has no two candidates
\* that agree, and nobody left to wait for.
LEMMA LoneExit ==
    ASSUME TypeOK, FiledByNextByte, TargetQuorumSize > 1, ExitStalemate,
           NEW q, quorum' = {q}
    PROVE  /\ reserve = {}
           /\ \A b \in Byte : \A r, s \in candidates[b] : r = s
           /\ \E b \in Byte : q \in candidates[b] /\ canon'[Len(canon) + 1] = b
  <1>1. PICK b \in Byte, Q \in SUBSET Replay, p \in 0 .. MaxData :
            BestByte(b) /\ ExitStalemateWith(b, Q, p)
    BY DEF ExitStalemate
  <1>2. quorum' = Q /\ IsNewQuorum(Q, candidates[b])
    BY <1>1 DEF ExitStalemateWith
  <1>3. \A c \in Byte : IsFiniteSet(candidates[c]) /\ Cardinality(candidates[c]) \in Nat
    <2> SUFFICES ASSUME NEW c \in Byte
                 PROVE  IsFiniteSet(candidates[c]) /\ Cardinality(candidates[c]) \in Nat
      OBVIOUS
    <2>1. candidates[c] \in SUBSET Replay
      BY DEF TypeOK
    <2>2. IsFiniteSet(candidates[c])
      BY <2>1, FS_Subset, ConstantsAssumption
    <2>3. QED
      BY <2>2, FS_CardinalityType
  <1>4. Cardinality(candidates[b]) <= 1
    <2>1. Cardinality(Q) = 1
      BY <1>2, FS_Singleton
    <2>2. Cardinality(Q) = MinOf(Cardinality(candidates[b]), TargetQuorumSize)
      BY <1>2 DEF IsNewQuorum
    <2>3. QED
      BY <1>3, <2>1, <2>2, ConstantsAssumption DEF MinOf
  <1>5. \A c \in Byte : Cardinality(candidates[c]) <= 1
    <2> SUFFICES ASSUME NEW c \in Byte PROVE Cardinality(candidates[c]) <= 1
      OBVIOUS
    <2>1. CASE candidates[c] = {}
      BY <2>1, FS_EmptySet
    <2>2. CASE candidates[c] # {}
      <3>1. c \in NonEmptyBytes
        BY <2>2 DEF NonEmptyBytes
      <3>2. \/ Cardinality(candidates[b]) > Cardinality(candidates[c])
            \/ Cardinality(candidates[b]) = Cardinality(candidates[c])
        BY <1>1, <3>1 DEF BestByte, Preferred
      <3>3. QED
        BY <1>3, <1>4, <3>2
    <2>3. QED
      BY <2>1, <2>2
  <1>6. reserve = {}
    <2>1. reserve = {} \/ \E c \in Byte : Cardinality(candidates[c]) >= TargetQuorumSize
      BY DEF ExitStalemate, CanExitStalemate
    <2>2. \A c \in Byte : ~(Cardinality(candidates[c]) >= TargetQuorumSize)
      BY <1>3, <1>5, ConstantsAssumption
    <2>3. QED
      BY <2>1, <2>2
  <1>7. \A c \in Byte : \A r, s \in candidates[c] : r = s
    BY <1>3, <1>5, AtMostOne
  <1>8. q \in candidates[b] /\ canon'[Len(canon) + 1] = b
    <2>1. PICK c \in Byte, n \in Nat :
            IsNewQuorum(quorum', candidates[c]) /\ canon'[Len(canon) + 1] = c
      BY ExitOutcome
    <2>2. q \in candidates[b] /\ q \in candidates[c]
      BY <1>2, <2>1 DEF IsNewQuorum
    <2>3. b = c
      BY <2>2 DEF FiledByNextByte
    <2>4. QED
      BY <2>1, <2>2, <2>3
  <1>9. QED
    BY <1>6, <1>7, <1>8

\* The bytes a quorum of one adds to C: whoever might agree on another byte has
\* been heard, and differs.
LEMMA LoneMerge ==
    ASSUME ContractInv, TargetQuorumSize > 1, ExitStalemate, NEW q, quorum' = {q},
           NEW n \in (Len(canon) + 1) .. Len(canon')
    PROVE  NoTwoAgree(n)' /\ AllHadTheirSay(n)'
  <1> TypeOK
    BY DEF ContractInv, WindowInv, FinishInv
  <1> DEFINE l == Len(canon)
  <1>1. PICK b \in Byte : q \in candidates[b] /\ canon'[l + 1] = b
    BY LoneExit DEF ContractInv
  <1>2. reserve = {} /\ quorum = {} /\ \A c \in Byte : \A r, s \in candidates[c] : r = s
    BY LoneExit DEF ContractInv, WindowInv, Placed, ExitStalemate
  <1>3. /\ task' = task /\ data' = data /\ Present' = Present /\ Finished' = Finished
        /\ mode = "Stalemate"
    BY DEF ExitStalemate, writerVars, Present, Finished
  <1>4. PICK p \in Nat : /\ p > l /\ Len(canon') = p
                         /\ \A i \in 1 .. l : canon'[i] = canon[i]
                         /\ p <= Len(data[q])
    <2>1. PICK c \in Byte, p \in Nat : /\ p > l /\ Len(canon') = p
                                       /\ \A i \in 1 .. l : canon'[i] = canon[i]
                                       /\ \E r \in quorum' : p <= Len(data[r])
      BY ExitOutcome
    <2>2. QED
      BY <2>1
  <1>5. l \in Nat /\ n \in Nat /\ n >= l + 1 /\ n <= p
    BY <1>4, WindowTypes
  <1> HIDE DEF l
  <1>6. \A r \in Present : Len(data[r]) \in Nat
    BY WindowTypes DEF Present
  <1>7. \A r \in Present :
            \/ \E c \in Byte : r \in candidates[c] /\ data[r][l + 1] = c /\ l < Len(data[r])
            \/ \E i \in 1 .. l : i <= Len(data[r]) /\ data[r][i] # canon'[i]
            \/ r \in Finished /\ Len(data[r]) <= l
    <2> SUFFICES ASSUME NEW r \in Present
                 PROVE  \/ \E c \in Byte : r \in candidates[c] /\ data[r][l + 1] = c
                                           /\ l < Len(data[r])
                        \/ \E i \in 1 .. l : i <= Len(data[r]) /\ data[r][i] # canon'[i]
                        \/ r \in Finished /\ Len(data[r]) <= l
      OBVIOUS
    <2>1. ASSUME NEW c \in Byte, r \in candidates[c]
          PROVE  data[r][l + 1] = c /\ l < Len(data[r])
      BY <1>3, <2>1 DEF ContractInv, FiledByNextByte, WindowInv, FinishInv, StalemateShape, l
    <2>2. CASE r \in AllCandidates
      BY <2>1, <2>2 DEF AllCandidates
    <2>3. CASE r \notin AllCandidates
      <3>1. \/ \E i \in 1 .. l : i <= Len(data[r]) /\ data[r][i] # canon[i]
            \/ r \in Finished /\ Len(data[r]) <= l
        BY <1>2, <2>3 DEF ContractInv, DroppedForGood, l
      <3>2. QED
        BY <1>4, <3>1
    <2>4. QED
      BY <2>2, <2>3
  <1>8. AllHadTheirSay(n)'
    <2> SUFFICES ASSUME NEW r \in Present
                 PROVE  \/ n <= Len(data[r])
                        \/ r \in Finished
                        \/ \E i \in 1 .. Len(data[r]) : i < n /\ data[r][i] # canon'[i]
      BY <1>3 DEF AllHadTheirSay
    <2>1. ASSUME NEW c \in Byte, r \in candidates[c], data[r][l + 1] = c, l < Len(data[r])
          PROVE  \/ n <= Len(data[r])
                 \/ \E i \in 1 .. Len(data[r]) : i < n /\ data[r][i] # canon'[i]
      <3>1. CASE n = l + 1
        BY <1>5, <1>6, <2>1, <3>1
      <3>2. CASE c = b
        <4>1. r = q
          BY <1>1, <1>2, <2>1, <3>2
        <4>2. QED
          BY <1>4, <1>5, <1>6, <4>1
      <3>3. CASE n # l + 1 /\ c # b
        <4>1. l + 1 \in 1 .. Len(data[r]) /\ l + 1 < n
          BY <1>5, <1>6, <2>1, <3>3
        <4>2. QED
          BY <1>1, <2>1, <3>3, <4>1
      <3>4. QED
        BY <3>1, <3>2, <3>3
    <2>2. ASSUME NEW i \in 1 .. l, i <= Len(data[r]), data[r][i] # canon'[i]
          PROVE  \E j \in 1 .. Len(data[r]) : j < n /\ data[r][j] # canon'[j]
      <3>1. i \in 1 .. Len(data[r]) /\ i < n
        BY <1>5, <1>6, <2>2
      <3>2. QED
        BY <2>2, <3>1
    <2>3. QED
      BY <1>7, <2>1, <2>2
  <1>9. NoTwoAgree(n)'
    <2>1. ASSUME NEW r \in Present, SentFirst(r, n - 1)', n <= Len(data[r])
          PROVE  \E c \in Byte : /\ r \in candidates[c] /\ data[r][l + 1] = c
                                 /\ n = l + 1 \/ c = b
      <3>1. \A i \in 1 .. (n - 1) : data[r][i] = canon'[i]
        BY <1>3, <2>1 DEF SentFirst
      <3>2. ~\E i \in 1 .. l : i <= Len(data[r]) /\ data[r][i] # canon'[i]
        <4>1. \A i \in 1 .. l : i \in 1 .. (n - 1)
          BY <1>5
        <4>2. QED
          BY <3>1, <4>1
      <3>3. ~(Len(data[r]) <= l)
        BY <1>5, <1>6, <2>1
      <3>4. PICK c \in Byte : r \in candidates[c] /\ data[r][l + 1] = c
        BY <1>7, <3>2, <3>3
      <3>5. n = l + 1 \/ c = b
        <4>1. n # l + 1 => l + 1 \in 1 .. (n - 1)
          BY <1>5
        <4>2. QED
          BY <1>1, <3>1, <3>4, <4>1
      <3>6. QED
        BY <3>4, <3>5
    <2> SUFFICES ASSUME NEW r \in Present, NEW s \in Present, r # s,
                        SentFirst(r, n - 1)', n <= Len(data[r]),
                        SentFirst(s, n - 1)', n <= Len(data[s])
                 PROVE  data[r][n] # data[s][n]
      BY <1>3 DEF NoTwoAgree
    <2>2. PICK c \in Byte : r \in candidates[c] /\ data[r][l + 1] = c /\ (n = l + 1 \/ c = b)
      BY <2>1
    <2>3. PICK d \in Byte : s \in candidates[d] /\ data[s][l + 1] = d /\ (n = l + 1 \/ d = b)
      BY <2>1
    <2>4. c # d
      BY <1>2, <2>2, <2>3
    <2>5. n = l + 1
      BY <2>2, <2>3, <2>4
    <2>6. QED
      BY <2>2, <2>3, <2>4, <2>5
  <1>10. QED
    BY <1>8, <1>9

\* What a resolved stalemate merges is decided.
LEMMA DecidedExit ==
    ASSUME ContractInv, ClaimsInv', TargetQuorumSize > 1, ExitStalemate,
           NEW n \in (Len(canon) + 1) .. Len(canon')
    PROVE  Decided(n)'
  <1> TypeOK /\ TypeOK'
    BY DEF ClaimsInv, ContractInv, WindowInv, FinishInv
  <1>1. PICK q \in quorum' : TRUE
    BY ExitOutcome
  <1>2. CASE quorum' = {q}
    BY <1>2, LoneMerge DEF Decided
  <1>3. CASE quorum' # {q}
    <2>1. PICK r \in quorum' : r # q
      BY <1>1, <1>3
    <2>2. n \in 1 .. Len(canon')
      BY WindowTypes
    <2>3. ASSUME NEW w \in quorum' PROVE w \in Present' /\ SentFirst(w, n)'
      <3>1. matching'[w] = Len(canon')
        BY DEF ClaimsInv, Held, MatchesHold
      <3>2. \A i \in 1 .. Len(canon') : i <= Len(data'[w]) /\ data'[w][i] = canon'[i]
        BY <3>1 DEF ClaimsInv, Held, MatchesHold
      <3>3. \A i \in 1 .. n : i \in 1 .. Len(canon')
        <4>1. Len(canon') \in Nat
          BY DEF TypeOK
        <4>2. QED
          BY <2>2, <4>1
      <3>4. w \in Present'
        BY DEF ClaimsInv, ContractInv, WindowInv, FinishInv, Registered, TypeOK, Present
      <3>5. QED
        BY <2>2, <3>2, <3>3, <3>4 DEF SentFirst
    <2>4. QED
      BY <1>1, <2>1, <2>3 DEF Decided, TwoSent
  <1>4. QED
    BY <1>2, <1>3

\* Once C has a byte, somebody has sent one, and who joins on time is there.
LEMMA NobodyJoinsLater ==
    ASSUME ClaimsInv, ClaimsInv', [Next]_vars, JoinsOnTime, Len(canon) > 0
    PROVE  Present' = Present
  <1>1. ContractInv /\ TypeOK /\ TypeOK'
    BY DEF ClaimsInv, ContractInv, WindowInv, FinishInv
  <1>2. PICK r \in Present : Len(canon) <= Len(data[r])
    BY DEF ClaimsInv, Kept, SomebodyHoldsC, IsPrefixOf
  <1>3. data[r] # <<>>
    <2>1. Len(canon) \in Nat
      BY <1>1, WindowTypes
    <2>2. QED
      BY <1>2, <2>1, EmptyIsSeq
  <1>4. r \in Replay
    BY DEF Present
  <1>5. \A q \in Replay : ~Joins(q)
    BY <1>3, <1>4 DEF JoinsOnTime
  <1>6. Present \subseteq Present'
    BY <1>1, OnlyGrows
  <1>7. QED
    BY <1>5, <1>6 DEF Present, Joins

LEMMA LoneStep ==
    ASSUME Comparable, TargetQuorumSize > 1, LoneInv, [Next]_vars, JoinsOnTime
    PROVE  LoneInv'
  <1>1. ClaimsInv /\ ClaimsInv' /\ ContractInv
    BY ClaimsInvStep DEF LoneInv, ClaimsInv
  <1>2. TypeOK /\ TypeOK'
    BY <1>1 DEF ClaimsInv, ContractInv, WindowInv, FinishInv
  <1>3. Len(canon) \in Nat /\ Len(canon') \in Nat
    BY <1>2, WindowTypes DEF TypeOK
  <1>4. ASSUME NEW n \in 1 .. Len(canon') PROVE Decided(n)'
    <2>1. CASE n <= Len(canon)
      <3>1. n \in 1 .. Len(canon) /\ Len(canon) > 0
        BY <1>3, <2>1
      <3>2. Present' = Present
        BY <1>1, <3>1, NobodyJoinsLater
      <3>3. QED
        BY <1>1, <1>2, <3>1, <3>2, DecidedStays DEF LoneInv
    <2>2. CASE n > Len(canon)
      <3>1. canon' # canon
        BY <1>3, <2>2
      <3>2. ExitStalemate
        BY <3>1 DEF Next, Work, EnterStalemate, Finalize, Terminated, Connect, HeaderAdded, ReadData,
             UpdateTimestamp, CloseConnection, FinishReplay, ReplayDataUpdated, vars, canonVars
      <3>3. n \in (Len(canon) + 1) .. Len(canon')
        BY <1>3, <2>2
      <3>4. QED
        BY <1>1, <3>2, <3>3, DecidedExit
    <2>3. QED
      BY <1>3, <2>1, <2>2
  <1>5. QED
    BY <1>1, <1>4 DEF LoneInv

\* The third claim of the source's justification, for quorums of the documented
\* size and writers that all join before there is data: as the comment argues, a
\* stalemate picks a lone replay only when no two others agree, and a quorum of
\* two stops where they differ.
THEOREM NobodyWinsAgainstTwo ==
    ASSUME Comparable, TargetQuorumSize > 1
    PROVE  Spec /\ OnTime => []NobodyWinsAlone
  <1>1. LoneInv /\ [Next]_vars /\ [JoinsOnTime]_vars => LoneInv'
    <2>1. UNCHANGED vars => JoinsOnTime
      BY DEF vars, writerVars, JoinsOnTime, Joins
    <2>2. QED
      BY <2>1, LoneStep
  <1>2. Init => LoneInv
    BY InitClaimsInv, EmptyIsSeq DEF Init, LoneInv
  <1>3. LoneInv => NobodyWinsAlone
    BY DEF LoneInv, Decided, TwoSent, NoTwoAgree, NobodyWinsAlone
  <1>4. QED
    BY <1>1, <1>2, <1>3, PTL DEF Spec, OnTime
-----------------------------------------------------------------------------
(* The third claim as the fuzz test checks it: at the end, C is among what its *)
(* oracle leaves.  The oracle is recursive in the position; induction is by    *)
(* the least number, taken of a set.                                           *)

LEMMA LeastNumber ==
    ASSUME NEW T \in SUBSET Nat, T # {}
    PROVE  \E m \in T : \A k \in T : m <= k
  <1>1. PICK m \in T : \A k \in T : ~ (<<k, m>> \in OpToRel(<, Nat))
    BY NatLessThanWellFounded, WFMin
  <1>2. \A k \in T : ~ (k < m)
    BY <1>1 DEF OpToRel
  <1>3. QED
    BY <1>2

\* A set of numbers up to n that has 0, and with each number the next, has n.
LEMMA CountTo ==
    ASSUME NEW n \in Nat, NEW S, 0 \in S, \A k \in 0 .. n : k # n /\ k \in S => k + 1 \in S
    PROVE  \A k \in 0 .. n : k \in S
  <1> DEFINE T == {k \in 0 .. n : k \notin S}
  <1> SUFFICES ASSUME T # {} PROVE FALSE
    OBVIOUS
  <1>1. PICK m \in T : \A k \in T : m <= k
    <2>1. T \in SUBSET Nat
      OBVIOUS
    <2> HIDE DEF T
    <2>2. QED
      BY <2>1, LeastNumber
  <1>2. m \in 0 .. n /\ m \notin S /\ m # 0
    OBVIOUS
  <1>3. m - 1 \in 0 .. n /\ m - 1 # n /\ (m - 1) + 1 = m /\ ~(m <= m - 1)
    BY <1>2
  <1>4. m - 1 \in S
    BY <1>1, <1>3
  <1>5. QED
    BY <1>2, <1>3, <1>4

\* Each round of the oracle is defined by the rounds after it, the last by itself.
LEMMA RoundsAreDefined ==
    \A i \in 0 .. MaxData : Rounds[i] = Round(Rounds[i + 1], i)
  <1> DEFINE Holds(f, j) == \A i \in j .. MaxData : f[i] = Round(f[i + 1], i)
             S == {k \in 0 .. MaxData : \E f : Holds(f, MaxData - k)}
  <1>1. MaxData \in Nat
    BY ConstantsAssumption
  <1>2. \A x, y : Round(x, MaxData) = Round(y, MaxData)
    BY DEF Round
  <1>3. 0 \in S
    <2> DEFINE f == [i \in {MaxData} |-> Round(0, MaxData)]
    <2>1. f[MaxData] = Round(f[MaxData + 1], MaxData)
      <3>1. f[MaxData] = Round(0, MaxData)
        OBVIOUS
      <3> HIDE DEF f
      <3>2. QED
        BY <1>2, <3>1
    <2> HIDE DEF f
    <2>2. \A i \in (MaxData - 0) .. MaxData : i = MaxData
      BY <1>1
    <2>3. Holds(f, MaxData - 0)
      BY <2>1, <2>2, Zenon
    <2>4. QED
      BY <1>1, <2>3
  <1>4. ASSUME NEW k \in 0 .. MaxData, k # MaxData, k \in S PROVE k + 1 \in S
    <2>1. PICK f : Holds(f, MaxData - k)
      BY <1>4
    <2>2. PICK j \in 0 .. MaxData : j = MaxData - (k + 1) /\ j + 1 = MaxData - k /\ j # MaxData
      BY <1>1, <1>4
    <2> DEFINE g == [i \in 0 .. MaxData |-> IF i = j THEN Round(f[j + 1], j) ELSE f[i]]
    <2>3. /\ g[j] = Round(f[j + 1], j)
          /\ \A i \in (j + 1) .. MaxData : g[i] = f[i]
      BY <1>1, <2>2
    <2> HIDE DEF g
    <2>4. ASSUME NEW i \in j .. MaxData PROVE g[i] = Round(g[i + 1], i)
      <3>1. CASE i = j
        <4>1. j + 1 \in (j + 1) .. MaxData
          BY <1>1, <2>2
        <4>2. g[j + 1] = f[j + 1]
          BY <2>3, <4>1
        <4>3. QED
          BY <2>3, <3>1, <4>2
      <3>2. CASE i # j /\ i # MaxData
        <4>1. i \in (j + 1) .. MaxData /\ i + 1 \in (j + 1) .. MaxData
          BY <1>1, <2>2, <3>2
        <4>2. g[i] = f[i] /\ g[i + 1] = f[i + 1]
          BY <2>3, <4>1
        <4>3. f[i] = Round(f[i + 1], i)
          BY <2>1, <2>2, <4>1
        <4>4. QED
          BY <4>2, <4>3
      <3>3. CASE i = MaxData
        <4>1. MaxData \in (j + 1) .. MaxData
          BY <1>1, <2>2
        <4>2. g[MaxData] = f[MaxData]
          BY <2>3, <4>1
        <4>3. f[MaxData] = Round(f[MaxData + 1], MaxData)
          BY <2>1, <2>2, <4>1
        <4>4. QED
          BY <1>2, <3>3, <4>2, <4>3
      <3>4. QED
        BY <3>1, <3>2, <3>3
    <2>5. Holds(g, MaxData - (k + 1))
      BY <2>2, <2>4
    <2>6. k + 1 \in 0 .. MaxData
      BY <1>1, <1>4
    <2>7. QED
      BY <2>5, <2>6
  <1>5. MaxData \in S
    <2> HIDE DEF S
    <2>1. \A k \in 0 .. MaxData : k \in S
      BY <1>1, <1>3, <1>4, CountTo
    <2>2. QED
      BY <1>1, <2>1
  <1>6. PICK f : \A i \in 0 .. MaxData : f[i] = Round(f[i + 1], i)
    <2>1. PICK f : Holds(f, MaxData - MaxData)
      BY <1>5
    <2>2. MaxData - MaxData = 0
      BY <1>1
    <2>3. QED
      BY <2>1, <2>2
  <1> DEFINE h == [i \in 0 .. MaxData |-> f[i]]
  <1>7. \A i \in 0 .. MaxData : f[i] = Round(h[i + 1], i)
    <2> SUFFICES ASSUME NEW i \in 0 .. MaxData PROVE f[i] = Round(h[i + 1], i)
      OBVIOUS
    <2>1. CASE i = MaxData
      <3> HIDE DEF h
      <3>1. QED
        BY <1>2, <1>6, <2>1
    <2>2. CASE i # MaxData
      <3>1. i + 1 \in 0 .. MaxData
        BY <1>1, <2>2
      <3>2. h[i + 1] = f[i + 1]
        BY <3>1
      <3> HIDE DEF h
      <3>3. QED
        BY <1>6, <3>2
    <2>3. QED
      BY <2>1, <2>2
  <1>8. h = [i \in 0 .. MaxData |-> Round(h[i + 1], i)]
    BY <1>7
  <1> HIDE DEF h
  <1>9. Rounds = [i \in 0 .. MaxData |-> Round(Rounds[i + 1], i)]
    BY <1>8 DEF Rounds
  <1>10. QED
    BY <1>9

\* The replays that sent the first i bytes of C, and the way through the
\* oracle's bundles that follows C.
Senders(i) == {r \in Present : SentFirst(r, i)}

LEMMA SendersGoOn ==
    ASSUME TypeOK, NEW i \in Nat, i < Len(canon)
    PROVE  Part(Senders(i), i, canon[i + 1]) = Senders(i + 1)
  <1>1. \A r \in Present : Len(data[r]) \in Nat
    BY WindowTypes DEF Present
  <1>2. ASSUME NEW r \in Present, SentFirst(r, i + 1)
        PROVE  SentFirst(r, i) /\ i < Len(data[r]) /\ data[r][i + 1] = canon[i + 1]
    BY <1>1, <1>2 DEF SentFirst
  <1>3. ASSUME NEW r \in Present, SentFirst(r, i), i < Len(data[r]),
               data[r][i + 1] = canon[i + 1]
        PROVE  SentFirst(r, i + 1)
    <2>1. \A j \in 1 .. (i + 1) : j \in 1 .. i \/ j = i + 1
      OBVIOUS
    <2>2. i + 1 <= Len(data[r])
      BY <1>1, <1>3
    <2>3. QED
      BY <1>3, <2>1, <2>2 DEF SentFirst
  <1>4. QED
    BY <1>2, <1>3 DEF Part, GoOn, Senders

\* A finite set whose members are all the same has fewer than two.
LEMMA FewerThanTwo ==
    ASSUME NEW S, IsFiniteSet(S), \A x, y \in S : x = y
    PROVE  Cardinality(S) < 2
  <1>1. CASE S = {}
    <2>1. Cardinality(S) = 0
      BY <1>1, FS_EmptySet
    <2>2. QED
      BY <2>1
  <1>2. CASE S # {}
    <2>1. PICK x \in S : S = {x}
      BY <1>2
    <2>2. Cardinality({x}) = 1
      BY FS_Singleton
    <2>3. QED
      BY <2>1, <2>2
  <1>3. QED
    BY <1>1, <1>2

\* The oracle keeps the part that follows C: one writer that is left alone
\* there is left by writers that do not agree with each other.
LEMMA CanonIsKept ==
    ASSUME TypeOK, NobodyWinsAlone, NEW i \in Nat, i < Len(canon), Senders(i + 1) # {}
    PROVE  IsKept(Senders(i), i, canon[i + 1])
  <1>1. Part(Senders(i), i, canon[i + 1]) = Senders(i + 1)
    BY SendersGoOn
  <1>2. /\ IsFiniteSet(Present) /\ Len(canon) \in Nat
        /\ \A r \in Present : Len(data[r]) \in Nat
    <2>1. IsFiniteSet(Replay) /\ Present \subseteq Replay
      BY ConstantsAssumption DEF Present
    <2>2. QED
      BY <2>1, FS_Subset, WindowTypes DEF Present
  <1>3. i + 1 \in 1 .. Len(canon) /\ (i + 1) - 1 = i
    BY <1>2
  <1>4. ASSUME NEW c \in Byte, Cardinality(Senders(i + 1)) = 1
        PROVE  Cardinality(Part(Senders(i), i, c)) < 2
    <2>1. ~ \E q, r \in Present : q # r /\ SentFirst(q, i + 1) /\ SentFirst(r, i + 1)
      <3>1. PICK x : Senders(i + 1) = {x}
        <4>1. IsFiniteSet(Senders(i + 1))
          BY <1>2, FS_Subset DEF Senders
        <4>2. QED
          BY <1>4, <4>1, FS_Singleton
      <3>2. \A q \in Present : SentFirst(q, i + 1) => q = x
        BY <3>1 DEF Senders
      <3>3. QED
        BY <3>2
    <2>2. \A q, r \in Present :
              /\ q # r
              /\ SentFirst(q, i) /\ i + 1 <= Len(data[q])
              /\ SentFirst(r, i) /\ i + 1 <= Len(data[r])
              => data[q][i + 1] # data[r][i + 1]
      <3>1. \A q, r \in Present :
                /\ q # r
                /\ SentFirst(q, (i + 1) - 1) /\ i + 1 <= Len(data[q])
                /\ SentFirst(r, (i + 1) - 1) /\ i + 1 <= Len(data[r])
                => data[q][i + 1] # data[r][i + 1]
        BY <1>3, <2>1 DEF NobodyWinsAlone
      <3>2. QED
        BY <1>3, <3>1
    <2>3. \A q, r \in Part(Senders(i), i, c) : q = r
      <3>1. \A q \in Part(Senders(i), i, c) :
                q \in Present /\ SentFirst(q, i) /\ i < Len(data[q]) /\ data[q][i + 1] = c
        BY DEF Part, GoOn, Senders
      <3>2. \A q \in Present : i < Len(data[q]) => i + 1 <= Len(data[q])
        BY <1>2
      <3>3. QED
        BY <2>2, <3>1, <3>2
    <2>4. IsFiniteSet(Part(Senders(i), i, c))
      BY <1>2, FS_Subset DEF Part, GoOn, Senders
    <2>5. QED
      BY <2>3, <2>4, FewerThanTwo
  <1>5. QED
    BY <1>1, <1>4 DEF IsKept

\* Counting up to n, as the rounds before one are counted.
LEMMA RoundBefore ==
    ASSUME NEW n \in Nat, NEW k \in 0 .. n, k # n
    PROVE  /\ k + 1 \in 0 .. n
           /\ \E i \in 0 .. n : i = n - (k + 1) /\ i + 1 = n - k /\ i < n /\ i + 1 \in 0 .. n
  <1>1. k \in Nat /\ k + 1 <= n
    OBVIOUS
  <1>2. n - (k + 1) \in 0 .. n /\ (n - (k + 1)) + 1 = n - k /\ n - (k + 1) < n
    BY <1>1
  <1>3. n - k \in 0 .. n
    BY <1>1
  <1>4. QED
    BY <1>1, <1>2, <1>3

\* So a replay that is all of C is among what the oracle leaves, if no other
\* goes on from C.
LEMMA OracleLeavesC ==
    ASSUME TypeOK, NobodyWinsAlone, NEW h \in Present, canon = data[h],
           Len(canon) <= MaxData,
           \A r \in Present : SentFirst(r, Len(canon)) => Len(data[r]) <= Len(canon)
    PROVE  h \in Survivors
  <1>1. PICK n \in 0 .. MaxData : n = Len(canon)
    BY WindowTypes, ConstantsAssumption
  <1>2. \A r \in Present : Len(data[r]) \in Nat
    BY WindowTypes DEF Present
  <1>3. \A i \in 0 .. n : h \in Senders(i) /\ Senders(i) \in SUBSET Replay
    BY <1>1 DEF Senders, SentFirst, Present
  <1> DEFINE S == {k \in 0 .. n : h \in Rounds[n - k][Senders(n - k)]}
  <1>4. 0 \in S
    <2>1. GoOn(Senders(n), n) = {}
      BY <1>1, <1>2 DEF GoOn, Senders
    <2>2. Rounds[n] = Round(Rounds[n + 1], n)
      BY RoundsAreDefined
    <2>3. Rounds[n][Senders(n)] = Senders(n)
      BY <1>1, <1>3, <2>1, <2>2 DEF Round
    <2>4. n - 0 = n /\ 0 \in 0 .. n /\ n \in 0 .. n
      BY <1>1
    <2>5. QED
      BY <1>3, <2>3, <2>4
  <1>5. n \in Nat /\ MaxData \in Nat /\ n <= MaxData
    BY <1>1, ConstantsAssumption
  <1>6. \A k \in 0 .. n : k # n /\ k \in S => k + 1 \in S
    <2> SUFFICES ASSUME NEW k \in 0 .. n, k # n, h \in Rounds[n - k][Senders(n - k)]
                 PROVE  k + 1 \in S
      OBVIOUS
    <2>1. PICK i \in 0 .. n : i = n - (k + 1) /\ i + 1 = n - k /\ i < n /\ i + 1 \in 0 .. n
      BY <1>5, RoundBefore
    <2>2. i \in Nat /\ i < Len(canon) /\ i # MaxData /\ i \in 0 .. MaxData /\ i + 1 \in 0 .. n
      <3>1. i \in Nat /\ i <= n
        OBVIOUS
      <3>2. i # MaxData /\ i \in 0 .. MaxData
        BY <1>5, <2>1, <3>1
      <3>3. QED
        BY <1>1, <2>1, <3>1, <3>2
    <2>3. h \in Rounds[i + 1][Senders(i + 1)]
      BY <2>1
    <2>4. /\ Part(Senders(i), i, canon[i + 1]) = Senders(i + 1)
          /\ IsKept(Senders(i), i, canon[i + 1])
      BY <1>3, <2>2, SendersGoOn, CanonIsKept
    <2>5. canon[i + 1] \in Byte
      <3>1. i + 1 \in 1 .. Len(canon)
        BY <1>1, <2>1
      <3>2. canon \in Seq(Byte)
        BY DEF TypeOK
      <3>3. QED
        BY <3>1, <3>2, ElementOfSeq
    <2>6. GoOn(Senders(i), i) # {}
      BY <1>3, <2>2, <2>4 DEF IsKept, Part
    <2>7. Rounds[i] = Round(Rounds[i + 1], i)
      BY <2>2, RoundsAreDefined
    <2>8. PICK next : next = Rounds[i + 1]
      OBVIOUS
    <2>9. Rounds[i][Senders(i)] =
              UNION {next[Part(Senders(i), i, b)] : b \in {c \in Byte : IsKept(Senders(i), i, c)}}
      BY <1>3, <2>1, <2>2, <2>6, <2>7, <2>8 DEF Round
    <2>10. next[Senders(i + 1)] \subseteq Rounds[i][Senders(i)]
      BY <2>4, <2>5, <2>9
    <2>11. k + 1 \in 0 .. n
      BY <1>5, RoundBefore
    <2>12. QED
      BY <2>1, <2>3, <2>8, <2>10, <2>11
  <1>7. n \in S
    <2> HIDE DEF S
    <2>1. \A k \in 0 .. n : k \in S
      BY <1>4, <1>5, <1>6, CountTo
    <2>2. QED
      BY <1>5, <2>1
  <1>8. Senders(0) = Present
    BY <1>2 DEF Senders, SentFirst
  <1>9. n - n = 0
    BY <1>5
  <1>10. QED
    BY <1>7, <1>8, <1>9 DEF Survivors

\* What the oracle is asked at the end.
LEMMA LoneAtTheEnd ==
    ASSUME LoneInv, canonFinished, Present # {}
    PROVE  \E r \in Survivors : canon = data[r]
  <1>1. ClaimsInv /\ NobodyWinsAlone
    BY DEF LoneInv, Decided, TwoSent, NoTwoAgree, NobodyWinsAlone
  <1> TypeOK
    BY <1>1 DEF ClaimsInv, ContractInv, WindowInv, FinishInv
  <1>2. PICK h \in Present : canon = data[h]
    BY <1>1, ClaimsAtTheEnd DEF FinalIsSentReplay
  <1>3. Len(canon) <= MaxData
    BY <1>1, <1>2 DEF ClaimsInv, Held, BoundsHold, Present
  <1>4. ASSUME NEW r \in Present, SentFirst(r, Len(canon)) PROVE Len(data[r]) <= Len(canon)
    BY <1>1, <1>4, NobodyHasMore DEF SentFirst
  <1>5. QED
    BY <1>1, <1>2, <1>3, <1>4, OracleLeavesC

\* The third claim as simple_fuzzing_round asserts it: with every writer there
\* before any data, and quorums of the documented size, the final C is among the
\* replays that the test's oracle leaves.
THEOREM LoneReplaysLose ==
    ASSUME Comparable, TargetQuorumSize > 1
    PROVE  HSpec => []LoneReplayNeverWins
  <1> DEFINE HInv == ClaimsInv /\ (~late => LoneInv)
  <1>1. HInit => HInv
    BY InitClaimsInv, EmptyIsSeq DEF HInit, Init, LoneInv
  <1>2. HInv /\ [HNext]_<<vars, late>> => HInv'
    <2> SUFFICES ASSUME HInv, [HNext]_<<vars, late>> PROVE HInv'
      OBVIOUS
    <2>1. [Next]_vars
      BY DEF HNext
    <2>2. ClaimsInv'
      BY <2>1, ClaimsInvStep
    <2>3. ASSUME ~late' PROVE LoneInv'
      <3>1. ~late
        BY <2>3 DEF HNext
      <3>2. JoinsOnTime
        BY <2>3 DEF HNext, vars, writerVars, JoinsOnTime, Joins
      <3>3. QED
        BY <2>1, <3>1, <3>2, LoneStep
    <2>4. QED
      BY <2>2, <2>3
  <1>3. HInv => LoneReplayNeverWins
    <2>1. LoneInv => NobodyWinsAlone
      BY DEF LoneInv, Decided, TwoSent, NoTwoAgree, NobodyWinsAlone
    <2>2. QED
      BY <2>1, LoneAtTheEnd DEF LoneReplayNeverWins
  <1>4. QED
    BY <1>1, <1>2, <1>3, PTL DEF HSpec
=============================================================================
