----------------------- MODULE ReplayLifecycleProofs -----------------------
(***************************************************************************)
(* Proofs about ReplayLifecycle, for any number of connections and any     *)
(* time without writers: the counters count, nothing is merged after       *)
(* finalize, and the replay keeps the phases of ReplayPhases.              *)
(***************************************************************************)
EXTENDS ReplayLifecycle, FiniteSetTheorems, TLAPS

\* Where regular_lifetime stands decides what the flags say, and a wait that
\* it has left behind has emptied what it waited on.
StagesInOrder ==
    /\ shouldStop <=> life \notin {"new", "waiting"}
    /\ finished <=> life \in {"saving", "readers", "over"}
    /\ finished => Running(Writer) = {}
    /\ life = "over" => Running(Reader) = {}

HandlingState == {"none", "assigned", "running", "done", "rejected"}

LifeInv == CountersAreExact /\ StagesInOrder

-----------------------------------------------------------------------------
(* Counting connections                                                    *)

\* There are finitely many connections of either kind, so their number is one.
LEMMA RunningIsFinite ==
    /\ IsFiniteSet(Running(Writer)) /\ Cardinality(Running(Writer)) \in Nat
    /\ IsFiniteSet(Running(Reader)) /\ Cardinality(Running(Reader)) \in Nat
  <1>1. Running(Writer) \in SUBSET Writer /\ Running(Reader) \in SUBSET Reader
    BY DEF Running
  <1>2. IsFiniteSet(Running(Writer)) /\ IsFiniteSet(Running(Reader))
    BY <1>1, FS_Subset, LifecycleAssumption
  <1>3. QED
    BY <1>2, FS_CardinalityType

\* A counter that is exact and zero has nobody left to wait for.
LEMMA ZeroIsEmpty ==
    ASSUME CountersAreExact
    PROVE  /\ writers.count = 0 <=> Running(Writer) = {}
           /\ readers.count = 0 <=> Running(Reader) = {}
  BY RunningIsFinite, FS_EmptySet DEF CountersAreExact

\* handle_connection has got to its inc.
LEMMA OneMoreRunning ==
    ASSUME NEW C \in SUBSET Connection, NEW c \in C, IsFiniteSet(Running(C)),
           conn \in [Connection -> HandlingState], conn[c] # "running",
           conn' = [conn EXCEPT ![c] = "running"]
    PROVE  Cardinality(Running(C)') = Cardinality(Running(C)) + 1
  <1>1. Running(C)' = Running(C) \cup {c} /\ c \notin Running(C)
    BY DEF Running
  <1>2. PICK S : S = Running(C)
    OBVIOUS
  <1>3. IsFiniteSet(S) /\ c \notin S /\ Running(C)' = S \cup {c}
    BY <1>1, <1>2
  <1>4. Cardinality(S \cup {c}) = Cardinality(S) + 1
    BY <1>3, FS_AddElement
  <1>5. QED
    BY <1>2, <1>3, <1>4, Zenon

\* handle_connection has got to its dec.
LEMMA OneLessRunning ==
    ASSUME NEW C \in SUBSET Connection, NEW c \in C, IsFiniteSet(Running(C)),
           conn \in [Connection -> HandlingState], conn[c] = "running",
           conn' = [conn EXCEPT ![c] = "done"]
    PROVE  /\ Cardinality(Running(C)') = Cardinality(Running(C)) - 1
           /\ Cardinality(Running(C)) > 0
           /\ Running(C)' \subseteq Running(C)
  <1>1. Running(C)' = Running(C) \ {c} /\ c \in Running(C)
    BY DEF Running
  <1>2. Cardinality(Running(C)) \in Nat /\ Cardinality(Running(C)) # 0
    BY <1>1, FS_CardinalityType, FS_EmptySet
  <1>3. PICK S : S = Running(C)
    OBVIOUS
  <1>4. IsFiniteSet(S) /\ c \in S /\ Running(C)' = S \ {c}
    BY <1>1, <1>3
  <1>5. Cardinality(S \ {c}) = Cardinality(S) - 1
    BY <1>4, FS_RemoveElement
  <1>6. Cardinality(Running(C)) > 0
    BY <1>2
  <1>7. QED
    BY <1>1, <1>3, <1>4, <1>5, <1>6, Zenon

\* A step of a connection that is not of C leaves C alone.
LEMMA OthersRun ==
    ASSUME NEW C \in SUBSET Connection, NEW c \in Connection \ C,
           conn \in [Connection -> HandlingState], NEW to,
           conn' = [conn EXCEPT ![c] = to]
    PROVE  Running(C)' = Running(C)
  BY DEF Running

\* So does a step from and to a state in which it is not being handled.
LEMMA NobodyRuns ==
    ASSUME NEW C \in SUBSET Connection, NEW c \in Connection,
           conn \in [Connection -> HandlingState], conn[c] # "running",
           NEW to, to # "running", conn' = [conn EXCEPT ![c] = to]
    PROVE  Running(C)' = Running(C)
  BY DEF Running

\* Removing a writer or a reader: the two kinds are apart.
LEMMA KindsAreApart ==
    /\ Writer \in SUBSET Connection /\ Reader \in SUBSET Connection
    /\ \A c \in Writer : c \in Connection \ Reader
    /\ \A c \in Reader : c \in Connection \ Writer
  BY LifecycleAssumption DEF Connection

\* What the steps below need of the types.
LEMMA Types ==
    ASSUME LifeInv
    PROVE  /\ conn \in [Connection -> HandlingState]
           /\ writers.count \in Nat /\ readers.count \in Nat
           /\ wait \in [last : Nat, unseen : BOOLEAN, slept : 0 .. EmptyTime]
           /\ Notify(wait) \in [last : Nat, unseen : BOOLEAN, slept : 0 .. EmptyTime]
  <1>1. TypeOK
    BY DEF LifeInv, CountersAreExact
  <1>2. writers.count \in Nat /\ readers.count \in Nat
    BY <1>1 DEF TypeOK
  <1>4. conn \in [Connection -> HandlingState]
    BY <1>1 DEF TypeOK, HandlingState
  <1>3. wait \in [last : Nat, unseen : BOOLEAN, slept : 0 .. EmptyTime]
    BY <1>1 DEF TypeOK
  <1>5. QED
    BY <1>2, <1>3, <1>4 DEF Notify

-----------------------------------------------------------------------------
(* The steps                                                               *)

\* Only a connection's own step changes its state, so a step that leaves
\* conn and the counters alone leaves them exact.
LEMMA CountersStay ==
    ASSUME CountersAreExact, UNCHANGED <<conn, counters>>, TypeOK'
    PROVE  /\ CountersAreExact'
           /\ Running(Writer)' = Running(Writer) /\ Running(Reader)' = Running(Reader)
  <1>1. Running(Writer)' = Running(Writer) /\ Running(Reader)' = Running(Reader)
    BY DEF Running
  <1>2. QED
    BY <1>1 DEF CountersAreExact, counters

\* Assigning or rejecting a connection counts nothing.
LEMMA AssignReject ==
    ASSUME LifeInv, NEW c \in Connection, Assign(c) \/ Reject(c)
    PROVE  LifeInv'
  <1>1. /\ conn \in [Connection -> HandlingState]
        /\ conn[c] # "running"
        /\ \E to \in {"assigned", "rejected"} : conn' = [conn EXCEPT ![c] = to]
        /\ UNCHANGED <<counters, life, wait, timeoutTask, cancelled, shouldStop, finished>>
    BY Types DEF Assign, Reject
  <1>2. Running(Writer)' = Running(Writer) /\ Running(Reader)' = Running(Reader)
    BY <1>1, KindsAreApart, NobodyRuns
  <1>3. conn' \in [Connection -> HandlingState]
    BY <1>1 DEF HandlingState
  <1>4. TypeOK'
    BY <1>1, <1>3 DEF LifeInv, CountersAreExact, TypeOK, HandlingState, counters
  <1>5. QED
    BY <1>1, <1>2, <1>4 DEF LifeInv, CountersAreExact, StagesInOrder, counters

\* A writer or a reader is let in and counted before the write phase is over,
\* so not after finalize.
LEMMA HandleStep ==
    ASSUME LifeInv, NEW c \in Connection,
           \/ c \in Writer /\ HandleWriter(c)
           \/ c \in Reader /\ HandleReader(c)
    PROVE  LifeInv'
  <1>1. /\ conn \in [Connection -> HandlingState] /\ conn[c] # "running"
        /\ conn' = [conn EXCEPT ![c] = "running"]
        /\ ~shouldStop
        /\ wait' \in {wait, Notify(wait)}
        /\ UNCHANGED <<life, timeoutTask, cancelled, shouldStop, finished>>
    BY Types DEF HandleWriter, HandleReader
  <1>2. ~finished /\ life # "over"
    BY <1>1 DEF LifeInv, StagesInOrder
  <1>3. writers.count \in Nat /\ readers.count \in Nat
    BY Types
  <1>4. wait' \in [last : Nat, unseen : BOOLEAN, slept : 0 .. EmptyTime]
    BY <1>1, Types
  <1>5. CASE c \in Writer /\ HandleWriter(c)
    <2>1. writers' = Inc(writers) /\ readers' = readers
      BY <1>5 DEF HandleWriter
    <2>2. writers' \in [count : Nat, touched : BOOLEAN] /\ writers'.count = writers.count + 1
      BY <2>1, <1>3 DEF Inc
    <2>3. TypeOK'
      BY <1>1, <1>4, <2>1, <2>2 DEF LifeInv, CountersAreExact, TypeOK
    <2>4. Cardinality(Running(Writer)') = Cardinality(Running(Writer)) + 1
      BY <1>1, <1>5, KindsAreApart, RunningIsFinite, OneMoreRunning
    <2>5. Running(Reader)' = Running(Reader)
      BY <1>1, <1>5, KindsAreApart, OthersRun
    <2>6. QED
      BY <1>1, <1>2, <2>1, <2>2, <2>3, <2>4, <2>5 DEF LifeInv, CountersAreExact, StagesInOrder
  <1>6. CASE c \in Reader /\ HandleReader(c)
    <2>1. readers' = Inc(readers) /\ writers' = writers
      BY <1>6 DEF HandleReader
    <2>2. readers' \in [count : Nat, touched : BOOLEAN] /\ readers'.count = readers.count + 1
      BY <2>1, <1>3 DEF Inc
    <2>3. TypeOK'
      BY <1>1, <1>4, <2>1, <2>2 DEF LifeInv, CountersAreExact, TypeOK
    <2>4. Cardinality(Running(Reader)') = Cardinality(Running(Reader)) + 1
      BY <1>1, <1>6, KindsAreApart, RunningIsFinite, OneMoreRunning
    <2>5. Running(Writer)' = Running(Writer)
      BY <1>1, <1>6, KindsAreApart, OthersRun
    <2>6. QED
      BY <1>1, <1>2, <2>1, <2>2, <2>3, <2>4, <2>5 DEF LifeInv, CountersAreExact, StagesInOrder
  <1>7. QED
    BY <1>5, <1>6

\* The dec after a connection is handled takes back the inc before it.
LEMMA EndsStep ==
    ASSUME LifeInv, NEW c \in Connection,
           \/ c \in Writer /\ WriterEnds(c)
           \/ c \in Reader /\ ReaderEnds(c)
    PROVE  LifeInv'
  <1>1. /\ conn \in [Connection -> HandlingState] /\ conn[c] = "running"
        /\ conn' = [conn EXCEPT ![c] = "done"]
        /\ wait' \in {wait, Notify(wait)}
        /\ UNCHANGED <<life, timeoutTask, cancelled, shouldStop, finished>>
    BY Types DEF WriterEnds, ReaderEnds
  <1>3. writers.count \in Nat /\ readers.count \in Nat
    BY Types
  <1>4. wait' \in [last : Nat, unseen : BOOLEAN, slept : 0 .. EmptyTime]
    BY <1>1, Types
  <1>5. CASE c \in Writer /\ WriterEnds(c)
    <2>1. writers' = Dec(writers) /\ readers' = readers
      BY <1>5 DEF WriterEnds
    <2>2. /\ Cardinality(Running(Writer)') = Cardinality(Running(Writer)) - 1
          /\ Cardinality(Running(Writer)) > 0
          /\ Running(Writer)' \subseteq Running(Writer)
      BY <1>1, <1>5, KindsAreApart, RunningIsFinite, OneLessRunning
    <2>3. writers.count > 0
      BY <2>2 DEF LifeInv, CountersAreExact
    <2>4. writers' \in [count : Nat, touched : BOOLEAN] /\ writers'.count = writers.count - 1
      BY <2>1, <2>3, <1>3 DEF Dec
    <2>5. TypeOK'
      BY <1>1, <1>4, <2>1, <2>4 DEF LifeInv, CountersAreExact, TypeOK
    <2>6. Running(Reader)' = Running(Reader)
      BY <1>1, <1>5, KindsAreApart, OthersRun
    <2>7. QED
      BY <1>1, <2>1, <2>2, <2>4, <2>5, <2>6 DEF LifeInv, CountersAreExact, StagesInOrder
  <1>6. CASE c \in Reader /\ ReaderEnds(c)
    <2>1. readers' = Dec(readers) /\ writers' = writers
      BY <1>6 DEF ReaderEnds
    <2>2. /\ Cardinality(Running(Reader)') = Cardinality(Running(Reader)) - 1
          /\ Cardinality(Running(Reader)) > 0
          /\ Running(Reader)' \subseteq Running(Reader)
      BY <1>1, <1>6, KindsAreApart, RunningIsFinite, OneLessRunning
    <2>3. readers.count > 0
      BY <2>2 DEF LifeInv, CountersAreExact
    <2>4. readers' \in [count : Nat, touched : BOOLEAN] /\ readers'.count = readers.count - 1
      BY <2>1, <2>3, <1>3 DEF Dec
    <2>5. TypeOK'
      BY <1>1, <1>4, <2>1, <2>4 DEF LifeInv, CountersAreExact, TypeOK
    <2>6. Running(Writer)' = Running(Writer)
      BY <1>1, <1>6, KindsAreApart, OthersRun
    <2>7. QED
      BY <1>1, <2>1, <2>2, <2>4, <2>5, <2>6 DEF LifeInv, CountersAreExact, StagesInOrder
  <1>7. QED
    BY <1>5, <1>6

\* A fresh wait_until_empty_for is well typed.
LEMMA NewWaitType ==
    ASSUME NEW counter \in [count : Nat, touched : BOOLEAN]
    PROVE  NewWait(counter) \in [last : Nat, unseen : BOOLEAN, slept : 0 .. EmptyTime]
  BY LifecycleAssumption DEF NewWait

\* Waiting, by itself, decides nothing.
LEMMA WaitStep ==
    ASSUME LifeInv, WaitTurn \/ Tick
    PROVE  LifeInv'
  <1>1. UNCHANGED <<conn, counters, life, timeoutTask, cancelled, shouldStop, finished>>
    BY DEF WaitTurn, Tick
  <1>2. TypeOK /\ CountersAreExact
    BY DEF LifeInv, CountersAreExact
  <1>3. wait' \in [last : Nat, unseen : BOOLEAN, slept : 0 .. EmptyTime]
    <2>1. wait.last \in Nat /\ wait.unseen \in BOOLEAN /\ wait.slept \in 0 .. EmptyTime
      BY Types
    <2>2. CurrentCounter.count \in Nat /\ 0 \in 0 .. EmptyTime
      BY Types, LifecycleAssumption DEF CurrentCounter
    <2>3. NextTick(wait.slept) \in 0 .. EmptyTime
      BY <2>1, LifecycleAssumption DEF NextTick
    <2>4. CASE WaitTurn
      <3>1. \/ wait' = [last |-> CurrentCounter.count, unseen |-> FALSE, slept |-> 0]
            \/ wait' = [wait EXCEPT !.last = CurrentCounter.count, !.slept = 0]
        BY <2>4 DEF WaitTurn, WaitSeesChange, WaitGoesOn
      <3>2. /\ [last |-> CurrentCounter.count, unseen |-> FALSE, slept |-> 0]
                  \in [last : Nat, unseen : BOOLEAN, slept : 0 .. EmptyTime]
            /\ [wait EXCEPT !.last = CurrentCounter.count, !.slept = 0]
                  \in [last : Nat, unseen : BOOLEAN, slept : 0 .. EmptyTime]
        BY <2>2, Types
      <3>3. QED
        BY <3>1, <3>2
    <2>5. CASE Tick
      <3>1. wait' \in {wait, [wait EXCEPT !.slept = NextTick(wait.slept)]}
        BY <2>5, Types DEF Tick
      <3>2. QED
        BY <3>1, <2>3, Types
    <2>6. QED
      BY <2>4, <2>5
  <1>4. TypeOK'
    BY <1>1, <1>2, <1>3 DEF TypeOK, counters
  <1>5. QED
    BY <1>1, <1>2, <1>4, CountersStay DEF LifeInv, StagesInOrder

\* The lifetime goes on to the next stage; it leaves the wait for the writers
\* and the wait for the readers only when the counter it waits on is zero.
LEMMA StageStep ==
    ASSUME LifeInv, StartLife \/ StopAccepting \/ FinalizeMerge \/ SaveReturns \/ EndLife
    PROVE  LifeInv'
  <1>1. UNCHANGED <<conn, counters, timeoutTask>>
    BY DEF StartLife, StopAccepting, FinalizeMerge, SaveReturns, EndLife
  <1>2. TypeOK /\ CountersAreExact /\ StagesInOrder
    BY DEF LifeInv, CountersAreExact
  <1>3. wait' \in [last : Nat, unseen : BOOLEAN, slept : 0 .. EmptyTime]
    <2>1. wait' \in {wait, NewWait(writers), NewWait(readers)}
      BY DEF StartLife, StopAccepting, FinalizeMerge, SaveReturns, EndLife
    <2>2. QED
      BY <1>2, <2>1, NewWaitType DEF TypeOK
  <1>4. TypeOK'
    BY <1>1, <1>2, <1>3
    DEF TypeOK, counters, StartLife, StopAccepting, FinalizeMerge, SaveReturns, EndLife
  <1>5. /\ CountersAreExact'
        /\ Running(Writer)' = Running(Writer) /\ Running(Reader)' = Running(Reader)
    BY <1>1, <1>2, <1>4, CountersStay
  <1>6. CASE StartLife \/ StopAccepting \/ SaveReturns
    BY <1>2, <1>5, <1>6 DEF LifeInv, StagesInOrder, StartLife, StopAccepting, SaveReturns
  <1>7. CASE FinalizeMerge
    <2>1. Running(Writer) = {}
      BY <1>2, <1>7, ZeroIsEmpty DEF FinalizeMerge, WaitIsOver
    <2>2. QED
      BY <1>2, <1>5, <1>7, <2>1 DEF LifeInv, StagesInOrder, FinalizeMerge
  <1>8. CASE EndLife
    <2>1. Running(Reader) = {}
      BY <1>2, <1>8, ZeroIsEmpty DEF EndLife, WaitIsOver
    <2>2. QED
      BY <1>2, <1>5, <1>8, <2>1 DEF LifeInv, StagesInOrder, EndLife
  <1>9. QED
    BY <1>6, <1>7, <1>8

\* A cancelled token by itself ends nothing that is counted.
LEMMA TokenStep ==
    ASSUME LifeInv, ForcedTimeout \/ TimeoutReturns \/ Shutdown \/ UNCHANGED vars
    PROVE  LifeInv'
  <1>1. /\ UNCHANGED <<conn, counters, life, wait, shouldStop, finished>>
        /\ timeoutTask' \in {timeoutTask, "returned"} /\ cancelled' \in {cancelled, TRUE}
    BY DEF ForcedTimeout, TimeoutReturns, Shutdown, vars
  <1>2. TypeOK /\ CountersAreExact /\ StagesInOrder
    BY DEF LifeInv, CountersAreExact
  <1>3. TypeOK'
    BY <1>1, <1>2, ZenonT(60) DEF TypeOK, counters
  <1>4. QED
    BY <1>1, <1>2, <1>3, CountersStay DEF LifeInv, StagesInOrder

\* Nobody is connected yet.
LEMMA LifeInit == Init => LifeInv
  <1> SUFFICES ASSUME Init PROVE LifeInv
    OBVIOUS
  <1>1. Running(Writer) = {} /\ Running(Reader) = {}
    BY KindsAreApart DEF Init, Running
  <1>2. Cardinality({}) = 0
    BY FS_EmptySet
  <1>3. NewWait(NewCounter) \in [last : Nat, unseen : BOOLEAN, slept : 0 .. EmptyTime]
    BY NewWaitType DEF NewCounter
  <1>4. TypeOK
    BY <1>3 DEF Init, TypeOK, NewCounter
  <1>5. QED
    BY <1>1, <1>2, <1>4 DEF Init, LifeInv, CountersAreExact, StagesInOrder, NewCounter

\* Every step keeps the counters exact and the stages in order.
LEMMA LifeInvStep == LifeInv /\ [Next]_vars => LifeInv'
  BY AssignReject, HandleStep, EndsStep, WaitStep, StageStep, TokenStep
  DEF Next, Lifetime, Connection

-----------------------------------------------------------------------------
(* The theorems                                                            *)

\* LifeInv holds in every state of every replay.
LEMMA LifeInvHolds == Spec => []LifeInv
  BY LifeInit, LifeInvStep, PTL DEF Spec

\* The counters are what they count, for any number of connections: dec never
\* underflows, and a wait on a counter is a wait on the connections.
THEOREM CountersCount == Spec => []CountersAreExact
  <1>1. LifeInv => CountersAreExact
    BY DEF LifeInv
  <1>2. QED
    BY <1>1, LifeInvHolds, PTL

\* Once the merged replay is finalized no writer is ever handled again.
THEOREM MergeIsOver == Spec => []NoWriterAfterFinalize
  <1>1. LifeInv => NoWriterAfterFinalize
    BY DEF LifeInv, StagesInOrder, NoWriterAfterFinalize
  <1>2. QED
    BY <1>1, LifeInvHolds, PTL

-----------------------------------------------------------------------------
(* ReplayLifecycle keeps what ReplayPhases promises                        *)

\* A step of one connection is a move of that connection's stage.
LEMMA ConnectionMoves ==
    ASSUME conn \in [Connection -> HandlingState],
           NEW c \in Connection, NEW to, conn' = [conn EXCEPT ![c] = to],
           UNCHANGED <<life, timeoutTask, shouldStop>>
    PROVE  /\ Stages' = [Stages EXCEPT ![c] = IF to \in {"done", "rejected"} THEN "settled" ELSE to]
           /\ Phase' = Phase
  <1>1. Phase' = Phase
    BY DEF Phase, Joined
  <1>2. QED
    BY <1>1 DEF Stages, StageOf

\* The registry still finds the replay exactly while somebody holds its Rc.
LEMMA AliveIsHeld == Alive <=> Phases!Held
  BY DEF Alive, Phases!Held, Phase, Stages, StageOf

\* A new replay accepts connections, and has none.
LEMMA PhasesInit == Init => Phases!Init
  BY DEF Init, Phases!Init, Stages, StageOf, Phase, Joined

\* Every step of one connection is that connection's step in ReplayPhases: it
\* is admitted while the replay accepts, refused from then on.
LEMMA ConnectionPhases ==
    ASSUME LifeInv, NEW c \in Connection,
           \/ Assign(c) \/ Reject(c) \/ HandleWriter(c) \/ HandleReader(c)
           \/ WriterEnds(c) \/ ReaderEnds(c)
    PROVE  Phases!Next
  <1>1. conn \in [Connection -> HandlingState] /\ Stages[c] = StageOf(c)
    BY Types DEF Stages
  <1>2. life = "over" => shouldStop
    BY DEF LifeInv, StagesInOrder
  <1>3. UNCHANGED <<life, timeoutTask, shouldStop>>
    BY DEF Assign, Reject, HandleWriter, HandleReader, WriterEnds, ReaderEnds
  <1>4. CASE Assign(c)
    <2>1. Phases!Assign(c)
      BY <1>1, <1>3, <1>4, AliveIsHeld, ConnectionMoves
      DEF Assign, Phases!Assign, Phases!Move, StageOf
    <2>2. QED
      BY <2>1 DEF Phases!Next
  <1>5. CASE Reject(c)
    <2>1. Phases!Refuse(c)
      BY <1>1, <1>3, <1>5, ConnectionMoves
      DEF Reject, Phases!Refuse, Phases!Move, StageOf, Phase
    <2>2. QED
      BY <2>1 DEF Phases!Next
  <1>6. CASE HandleWriter(c) \/ HandleReader(c)
    <2>1. Phases!Admit(c)
      BY <1>1, <1>2, <1>3, <1>6, ConnectionMoves
      DEF HandleWriter, HandleReader, Phases!Admit, Phases!Move, StageOf, Phase, Joined
    <2>2. QED
      BY <2>1 DEF Phases!Next
  <1>7. CASE WriterEnds(c) \/ ReaderEnds(c)
    <2>1. Phases!Leave(c)
      BY <1>1, <1>3, <1>7, ConnectionMoves
      DEF WriterEnds, ReaderEnds, Phases!Leave, Phases!Move, StageOf
    <2>2. QED
      BY <2>1 DEF Phases!Next
  <1>8. QED
    BY <1>4, <1>5, <1>6, <1>7

\* The lifetime stops accepting once, and its two parts join only when nobody
\* is served any more; everything else it does is invisible.
LEMMA LifetimePhases ==
    ASSUME LifeInv,
           Lifetime \/ ForcedTimeout \/ TimeoutReturns \/ Shutdown \/ Tick \/ UNCHANGED vars
    PROVE  [Phases!Next]_<<Stages, Phase>>
  <1>1. conn' = conn
    BY DEF Lifetime, StartLife, WaitTurn, StopAccepting, FinalizeMerge, SaveReturns, EndLife,
           ForcedTimeout, TimeoutReturns, Shutdown, Tick, vars
  <1>2. Stages' = Stages
    BY <1>1 DEF Stages, StageOf
  <1>3. life = "over" => shouldStop
    BY DEF LifeInv, StagesInOrder
  <1>4. CASE StopAccepting
    <2>1. Phases!Stop
      BY <1>2, <1>4 DEF StopAccepting, Phases!Stop, Phase, Joined, LifeInv, StagesInOrder
    <2>2. QED
      BY <2>1 DEF Phases!Next
  <1>5. CASE EndLife \/ ForcedTimeout \/ TimeoutReturns
    <2>1. CASE Joined'
      <3>1. LifeInv'
        BY <1>5, StageStep, TokenStep
      <3>2. \A d \in Connection : conn[d] # "running"
        BY <1>1, <2>1, <3>1 DEF LifeInv, StagesInOrder, Joined, Running, Connection
      <3>3. \A d \in Connection : Stages[d] # "running"
        BY <3>2 DEF Stages, StageOf
      <3>4. Phase = "stopped" /\ Phase' = "over"
        BY <1>5, <2>1 DEF EndLife, ForcedTimeout, TimeoutReturns, Joined, Phase, LifeInv, StagesInOrder
      <3>5. Phases!End
        BY <1>2, <3>3, <3>4 DEF Phases!End
      <3>6. QED
        BY <3>5 DEF Phases!Next
    <2>2. CASE ~Joined'
      <3>1. ~Joined /\ shouldStop' = shouldStop
        BY <1>5, <2>2 DEF EndLife, ForcedTimeout, TimeoutReturns, Joined
      <3>2. Phase' = Phase
        BY <2>2, <3>1 DEF Phase
      <3>3. QED
        BY <1>2, <3>2
    <2>3. QED
      BY <2>1, <2>2
  <1>6. CASE \/ StartLife \/ WaitTurn \/ FinalizeMerge \/ SaveReturns
             \/ Shutdown \/ Tick \/ UNCHANGED vars
    <2>1. /\ UNCHANGED <<timeoutTask, shouldStop>>
          /\ life' = "over" <=> life = "over"
      BY <1>6 DEF StartLife, WaitTurn, FinalizeMerge, SaveReturns, Shutdown, Tick, vars
    <2>2. Phase' = Phase
      BY <2>1 DEF Phase, Joined
    <2>3. QED
      BY <1>2, <2>2
  <1>7. QED
    BY <1>4, <1>5, <1>6 DEF Lifetime

\* Every step of the replay is a step of ReplayPhases or invisible to it.
LEMMA PhasesStep == LifeInv /\ [Next]_vars => [Phases!Next]_<<Stages, Phase>>
  BY ConnectionPhases, LifetimePhases DEF Next, Connection

\* The replay implements ReplayPhases: with its counters, watches, token and
\* two tasks it admits connections until it stops, refuses them from then on,
\* and is over only when nobody is being served.
THEOREM LifecycleImplementsPhases == Spec => ImplementsPhases
  <1>1. LifeInv /\ [Next]_vars => [Phases!Next]_Phases!vars
    BY PhasesStep DEF Phases!vars
  <1>2. QED
    BY <1>1, PhasesInit, LifeInvHolds, PTL DEF Spec, ImplementsPhases, Phases!Spec
=============================================================================
