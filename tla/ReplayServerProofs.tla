------------------------- MODULE ReplayServerProofs -------------------------
(***************************************************************************)
(* Proofs about ReplayServer, for any number of connections, replay ids    *)
(* and worker threads: one replay per id, nothing left at exit, and the    *)
(* phases of ReplayPhases for each replay.                                 *)
(***************************************************************************)
EXTENDS ReplayServer, SequenceTheorems, TLAPS

-----------------------------------------------------------------------------
(* The inductive invariant                                                 *)

Headers == [type : {"Reader", "Writer"}, id : ReplayId]

\* Whatever has got past the accept loop has a header, which never changes.
HeadersKnown ==
    \A c \in Connection :
        \/ stage[c] \in {"sending", "queued", "assigned", "running"}
        \/ home[c] # NoOne
        \/ phase[c] # "none"
        => header[c] \in Headers

\* An assigned connection has a replay, of its own id and with a lifetime.
HomesKept ==
    \A c \in Connection :
        /\ home[c] # NoOne =>
            /\ stage[c] \in {"assigned", "running"} \cup Settled
            /\ phase[home[c]] # "none" /\ header[home[c]].id = header[c].id
        /\ stage[c] \in {"assigned", "running"} => home[c] # NoOne
        /\ phase[c] # "none" => home[c] = c

\* A connection is queued exactly while it is in the channel of its worker.
ChannelsHold ==
    /\ \A w \in Worker : \/ channel[w] = <<>>
                         \/ \E c \in Connection : /\ channel[w] = <<c>>
                                                  /\ stage[c] = "queued" /\ WorkerOf(c) = w
    /\ \A c \in Connection : stage[c] = "queued" => channel[WorkerOf(c)] = <<c>>

\* The weak map of its worker still finds every replay that is held.
LiveIsRegistered == \A r \in Live : registry[WorkerOf(r)][header[r].id] = r

\* What a registry ever held under an id was created for that id.
RegistryNames ==
    \A w \in Worker, id \in ReplayId :
        registry[w][id] # NoOne =>
            phase[registry[w][id]] # "none" /\ header[registry[w][id]].id = id

\* A worker thread has nothing left when it ends, and shutdown takes place in
\* order: the accept loop, then one worker after the other.
ShutdownInOrder ==
    /\ \A w \in Worker : thread[w] = "ended" =>
            /\ ~open[w] /\ channel[w] = <<>>
            /\ \A r \in Live \cup At("assigned") \cup At("running") : WorkerOf(r) # w
    /\ \A w \in Worker : ~open[w] => server # "accepting"
    /\ \A w \in Worker : w < joined => thread[w] = "ended"
    /\ server = "stopped" => joined = Workers
    /\ server # "accepting" => \A c \in Connection : stage[c] \notin {"accepting", "sending"}

ServerInv ==
    /\ TypeOK
    /\ HeadersKnown /\ HomesKept /\ ChannelsHold
    /\ LiveIsRegistered /\ RegistryNames /\ ShutdownInOrder

-----------------------------------------------------------------------------
(* Types                                                                   *)

\* dispatch_connection picks a worker that exists.
LEMMA WorkerOfType ==
    ASSUME NEW c \in Connection, header[c] \in Headers
    PROVE  WorkerOf(c) \in Worker /\ header[c].id \in ReplayId
  <1>1. header[c].id \in ReplayId
    BY DEF Headers
  <1>2. header[c].id \in Nat /\ Workers \in Nat \ {0}
    BY <1>1, ServerAssumption
  <1>3. header[c].id % Workers \in 0 .. (Workers - 1)
    BY <1>2
  <1>4. QED
    BY <1>1, <1>3 DEF WorkerOf, Worker

\* A sequence with one element.
LEMMA OneElement ==
    ASSUME NEW c \in Connection
    PROVE  <<c>> \in Seq(Connection) /\ Len(<<c>>) = 1 /\ <<c>>[1] = c
  OBVIOUS

\* A channel of capacity one is empty or holds one connection.
LEMMA ChannelOfOne ==
    ASSUME NEW q \in Seq(Connection), Len(q) <= 1, q # <<>>
    PROVE  Head(q) \in Connection /\ q = <<Head(q)>> /\ Tail(q) = <<>>
  <1>1. Len(q) = 1
    <2> DEFINE n == Len(q)
    <2>1. n \in Nat /\ n <= 1
      OBVIOUS
    <2>2. n # 0
      BY EmptySeq
    <2> HIDE DEF n
    <2>3. n = 1
      BY <2>1, <2>2
    <2>4. QED
      BY <2>3 DEF n
  <1>2. Head(q) \in Connection /\ Tail(q) \in Seq(Connection) /\ Len(Tail(q)) = 0
    BY <1>1, HeadTailProperties
  <1>3. Head(q) = q[1]
    BY <1>1
  <1> DEFINE h == Head(q)
             u == <<h>>
  <1>4. u \in Seq(Connection) /\ Len(u) = 1 /\ u[1] = h
    BY <1>2, OneElement
  <1>5. q = u
    <2>1. \A i \in 1 .. Len(q) : q[i] = u[i]
      BY <1>1, <1>3, <1>4
    <2> HIDE DEF u
    <2>2. QED
      BY <1>1, <1>4, <2>1, SeqEqual
  <1>6. Tail(q) = <<>>
    BY <1>2, EmptySeq
  <1>7. QED
    BY <1>2, <1>5, <1>6

\* Sending to an empty channel, the only one that has room.
LEMMA ChannelHasRoom ==
    ASSUME NEW q \in Seq(Connection), Len(q) < 1, NEW c \in Connection
    PROVE  q = <<>> /\ Append(q, c) = <<c>> /\ <<c>> \in Seq(Connection) /\ Len(<<c>>) = 1
  <1>1. Len(q) = 0 /\ q = <<>>
    BY EmptySeq
  <1> DEFINE s == Append(q, c)
             u == <<c>>
  <1>2. s \in Seq(Connection) /\ Len(s) = 1 /\ s[1] = c
    BY <1>1, AppendProperties
  <1>3. u \in Seq(Connection) /\ Len(u) = 1 /\ u[1] = c
    BY OneElement
  <1>4. s = u
    <2> HIDE DEF s, u
    <2>1. \A i \in 1 .. Len(s) : s[i] = u[i]
      BY <1>2, <1>3
    <2>2. QED
      BY <1>2, <1>3, <2>1, SeqEqual
  <1>5. QED
    BY <1>1, <1>3, <1>4

\* The types of what a worker's registry and channel hold.
LEMMA WorkerTypes ==
    ASSUME TypeOK, NEW w \in Worker
    PROVE  /\ channel[w] \in Seq(Connection) /\ Len(channel[w]) <= 1
           /\ \A id \in ReplayId : registry[w][id] \in Connection \cup {NoOne}
  BY DEF TypeOK

\* Nothing has happened yet.
LEMMA InitServerInv == Init => ServerInv
  <1> SUFFICES ASSUME Init PROVE ServerInv
    OBVIOUS
  <1> USE DEF Init
  <1>1. <<>> \in Seq(Connection) /\ Len(<<>>) = 0
    OBVIOUS
  <1>2. Workers \in Nat \ {0} /\ 0 \in 0 .. Workers
    BY ServerAssumption
  <1>3. TypeOK
    <2>1. channel \in [Worker -> Seq(Connection)] /\ \A w \in Worker : Len(channel[w]) <= 1
      BY <1>1
    <2>2. registry \in [Worker -> [ReplayId -> Connection \cup {NoOne}]]
      OBVIOUS
    <2>3. QED
      BY <1>2, <2>1, <2>2 DEF TypeOK
  <1>4. Live = {} /\ At("assigned") = {} /\ At("running") = {}
    BY DEF Live, Held, At
  <1>5. \A w \in Worker : ~(w < 0)
    BY <1>2 DEF Worker
  <1>6. HeadersKnown /\ HomesKept
    BY DEF HeadersKnown, HomesKept
  <1>7. ChannelsHold /\ LiveIsRegistered /\ RegistryNames
    BY <1>4 DEF ChannelsHold, LiveIsRegistered, RegistryNames
  <1>8. ShutdownInOrder
    BY <1>5 DEF ShutdownInOrder
  <1>9. QED
    BY <1>3, <1>6, <1>7, <1>8 DEF ServerInv

\* What the channel of a worker holds has come through the accept loop.
LEMMA QueuedFacts ==
    ASSUME ServerInv, NEW w \in Worker, Ready(w)
    PROVE  LET c == Head(channel[w])
           IN  /\ c \in Connection /\ channel[w] = <<c>> /\ Tail(channel[w]) = <<>>
               /\ stage[c] = "queued" /\ WorkerOf(c) = w /\ header[c] \in Headers
               /\ header[c].id \in ReplayId
               /\ home[c] = NoOne /\ phase[c] = "none"
  <1> DEFINE c == Head(channel[w])
  <1>1. channel[w] # <<>> /\ c \in Connection /\ channel[w] = <<c>> /\ Tail(channel[w]) = <<>>
    BY WorkerTypes, ChannelOfOne DEF ServerInv, Ready
  <1>2. stage[c] = "queued" /\ WorkerOf(c) = w
    <2>1. PICK d \in Connection : channel[w] = <<d>> /\ stage[d] = "queued" /\ WorkerOf(d) = w
      BY <1>1 DEF ServerInv, ChannelsHold
    <2>2. d = c
      BY <1>1, <2>1
    <2>3. QED
      BY <2>1, <2>2
  <1> HIDE DEF c
  <1>3. header[c] \in Headers /\ header[c].id \in ReplayId
    BY <1>1, <1>2, WorkerOfType DEF ServerInv, HeadersKnown
  <1>4. home[c] = NoOne
    BY <1>1, <1>2 DEF ServerInv, HomesKept, Settled
  <1>5. phase[c] = "none"
    BY <1>1, <1>4, NoOneAssumption DEF ServerInv, HomesKept
  <1>6. QED
    BY <1>1, <1>2, <1>3, <1>4, <1>5 DEF c

\* Every step keeps the types.
LEMMA ServerTypes == ServerInv /\ [Next]_vars => TypeOK'
  <1> SUFFICES ASSUME ServerInv, [Next]_vars PROVE TypeOK'
    OBVIOUS
  <1> TypeOK
    BY DEF ServerInv
  <1> USE DEF serverVars, workerVars, replayVars
  <1>1. ASSUME NEW c \in Connection,
               Accept(c) \/ HeaderFails(c) \/ Handle(c) \/ ConnectionEnds(c)
        PROVE  TypeOK'
    BY <1>1 DEF TypeOK, Accept, HeaderFails, Handle, ConnectionEnds, Settled
  <1>2. ASSUME NEW c \in Connection, NEW type \in {"Reader", "Writer"}, NEW id \in ReplayId,
               HeaderRead(c, type, id)
        PROVE  TypeOK'
    BY <1>2 DEF TypeOK, HeaderRead, Settled
  <1>3. ASSUME NEW c \in Connection, Dispatch(c) PROVE TypeOK'
    <2>1. WorkerOf(c) \in Worker
      BY <1>3, WorkerOfType DEF Dispatch, ServerInv, HeadersKnown
    <2>2. /\ channel' = [channel EXCEPT ![WorkerOf(c)] = Append(channel[WorkerOf(c)], c)]
          /\ stage' = [stage EXCEPT ![c] = "queued"]
          /\ UNCHANGED <<header, serverVars, open, thread, replayVars>>
      BY <1>3 DEF Dispatch
    <2>3. /\ Append(channel[WorkerOf(c)], c) \in Seq(Connection)
          /\ Len(Append(channel[WorkerOf(c)], c)) <= 1
      BY <1>3, <2>1, WorkerTypes, ChannelHasRoom DEF Dispatch, HasRoom
    <2>4. channel' \in [Worker -> Seq(Connection)] /\ \A w \in Worker : Len(channel'[w]) <= 1
      BY <2>1, <2>2, <2>3 DEF TypeOK
    <2>5. QED
      BY <2>2, <2>4 DEF TypeOK, Settled
  <1>4. ASSUME NEW w \in Worker, Receive(w) PROVE TypeOK'
    <2> DEFINE c == Head(channel[w])
               id == header[c].id
    <2>1. /\ c \in Connection /\ Tail(channel[w]) = <<>> /\ id \in ReplayId
          /\ header[c] \in Headers
      BY <1>4, QueuedFacts DEF Receive
    <2>2. /\ channel' = [channel EXCEPT ![w] = Tail(channel[w])]
          /\ UNCHANGED <<header, serverVars, open, thread>>
          /\ Assign(w, c)
      BY <1>4 DEF Receive
    <2>3. channel' \in [Worker -> Seq(Connection)] /\ \A v \in Worker : Len(channel'[v]) <= 1
      <3>1. <<>> \in Seq(Connection) /\ Len(<<>>) = 0
        OBVIOUS
      <3>2. QED
        <4>1. channel \in [Worker -> Seq(Connection)] /\ \A v \in Worker : Len(channel[v]) <= 1
          BY DEF TypeOK
        <4>2. channel' = [channel EXCEPT ![w] = <<>>]
          BY <2>1, <2>2
        <4>3. channel' \in [Worker -> Seq(Connection)]
          BY <3>1, <4>1, <4>2
        <4>4. \A v \in Worker : channel'[v] = IF v = w THEN <<>> ELSE channel[v]
          BY <4>1, <4>2
        <4>5. QED
          BY <3>1, <4>1, <4>3, <4>4
    <2> HIDE DEF c
    <2>4. stage' \in [Connection -> {"none", "accepting", "sending", "queued",
                                     "assigned", "running"} \cup Settled]
      BY <2>1, <2>2 DEF Assign, TypeOK, Settled
    <2>5. /\ registry' \in [Worker -> [ReplayId -> Connection \cup {NoOne}]]
          /\ phase' \in [Connection -> {"none", "accepting", "stopped", "over"}]
          /\ home' \in [Connection -> Connection \cup {NoOne}]
      <3>1. CASE /\ home' = [home EXCEPT ![c] = registry[w][id]]
                 /\ UNCHANGED <<registry, phase>>
        <4>1. registry[w][id] \in Connection \cup {NoOne}
          BY <2>1, WorkerTypes
        <4> HIDE DEF id
        <4>2. QED
          BY <3>1, <4>1 DEF TypeOK
      <3>2. CASE UNCHANGED replayVars
        BY <3>2 DEF TypeOK
      <3>3. CASE /\ home' = [home EXCEPT ![c] = c]
                 /\ registry' = [registry EXCEPT ![w][id] = c]
                 /\ phase' = [phase EXCEPT ![c] = "accepting"]
        <4> HIDE DEF id
        <4>1. QED
          BY <2>1, <3>3 DEF TypeOK
      <3>4. QED
        BY <2>2, <3>1, <3>2, <3>3 DEF Assign
    <2>6. QED
      BY <2>2, <2>3, <2>4, <2>5 DEF TypeOK
  <1>5. ASSUME NEW r \in Connection, StopAccepting(r) \/ LifetimeEnds(r) PROVE TypeOK'
    BY <1>5 DEF TypeOK, StopAccepting, LifetimeEnds, Settled
  <1>6. ASSUME NEW w \in Worker, ThreadEnds(w) \/ DropSender(w) PROVE TypeOK'
    BY <1>6 DEF TypeOK, ThreadEnds, DropSender, CloseChannel, Settled
  <1>7. ASSUME NEW w \in Worker, JoinThread(w) PROVE TypeOK'
    <2>1. w + 1 \in 0 .. Workers
      BY ServerAssumption DEF Worker
    <2>2. QED
      BY <1>7, <2>1 DEF TypeOK, JoinThread, Settled
  <1>8. CASE Signal \/ UNCHANGED vars
    BY <1>8 DEF TypeOK, Signal, vars, Settled
  <1>9. CASE StopServer
    BY <1>9 DEF TypeOK, StopServer, Settled
  <1>10. QED
    BY <1>1, <1>2, <1>3, <1>4, <1>5, <1>6, <1>7, <1>8, <1>9 DEF Next, Terminated

-----------------------------------------------------------------------------
(* The steps                                                               *)

\* The replays that are held depend on their phases and on who is assigned.
LEMMA SameLive ==
    ASSUME UNCHANGED <<phase, home>>,
           At("assigned")' \cup At("running")' = At("assigned") \cup At("running")
    PROVE  Live' = Live
  BY DEF Live, Held

\* A held replay has a header of its own and is its own first connection.
LEMMA LiveFacts ==
    ASSUME ServerInv, NEW r \in Live
    PROVE  /\ r \in Connection /\ phase[r] # "none" /\ home[r] = r
           /\ header[r] \in Headers /\ header[r].id \in ReplayId /\ WorkerOf(r) \in Worker
  <1>1. r \in Connection
    BY DEF Live
  <1>2. phase[r] # "none"
    BY <1>1 DEF Live, Held, At, ServerInv, HomesKept
  <1>3. home[r] = r /\ header[r] \in Headers
    BY <1>1, <1>2 DEF ServerInv, HomesKept, HeadersKnown
  <1>4. QED
    BY <1>1, <1>2, <1>3, WorkerOfType

\* The accept loop touches only connections that no worker has seen.
LEMMA AcceptLoopStep ==
    ASSUME ServerInv, TypeOK',
           UNCHANGED <<joined, workerVars, replayVars>>,
           \A d \in Connection :
                \/ stage'[d] = stage[d]
                \/ /\ stage[d] \in {"none", "accepting", "sending"}
                   /\ stage'[d] \in {"accepting", "sending", "refused", "dropped"},
           \A d \in Connection : header'[d] = header[d] \/ stage[d] = "accepting",
           \A d \in Connection : stage'[d] = "sending" /\ stage[d] # "sending" =>
                                    header'[d] \in Headers,
           server' = server \/ (server = "accepting" /\ server' = "joining"),
           server' # "accepting" => \A d \in Connection : stage'[d] \notin {"accepting", "sending"}
    PROVE  ServerInv'
  <1> USE DEF workerVars, replayVars
  <1>1. \A d \in Connection :
            \/ stage[d] \in {"queued", "assigned", "running"} \cup Settled
            \/ home[d] # NoOne
            \/ phase[d] # "none"
            => header'[d] = header[d] /\ stage'[d] = stage[d]
    <2> SUFFICES ASSUME NEW d \in Connection,
                        \/ stage[d] \in {"queued", "assigned", "running"} \cup Settled
                        \/ home[d] # NoOne
                        \/ phase[d] # "none"
                 PROVE  header'[d] = header[d] /\ stage'[d] = stage[d]
      OBVIOUS
    <2>1. home[d] # NoOne \/ phase[d] # "none" => stage[d] \in {"assigned", "running"} \cup Settled
      BY NoOneAssumption DEF ServerInv, HomesKept
    <2>2. stage[d] \in {"queued", "assigned", "running"} \cup Settled
      BY <2>1
    <2>3. QED
      BY <2>2 DEF Settled
  <1>2. \A d \in Connection :
            stage'[d] \in {"queued", "assigned", "running"} => stage[d] = stage'[d]
    OBVIOUS
  <1>3. At("assigned")' = At("assigned") /\ At("running")' = At("running")
    BY <1>1, <1>2 DEF At
  <1>4. Live' = Live
    BY <1>3, SameLive
  <1>5. HeadersKnown'
    <2> SUFFICES ASSUME NEW d \in Connection,
                        \/ stage'[d] \in {"sending", "queued", "assigned", "running"}
                        \/ home[d] # NoOne
                        \/ phase[d] # "none"
                 PROVE  header'[d] \in Headers
      BY DEF HeadersKnown
    <2>1. CASE stage'[d] = "sending" /\ stage[d] # "sending"
      BY <2>1
    <2>2. CASE stage'[d] = "sending" /\ stage[d] = "sending"
      BY <2>2 DEF ServerInv, HeadersKnown
    <2>3. CASE stage'[d] # "sending"
      BY <1>1, <1>2, <2>3 DEF ServerInv, HeadersKnown
    <2>4. QED
      BY <2>1, <2>2, <2>3
  <1>6. HomesKept'
    <2>1. \A d \in Connection : home[d] # NoOne =>
                home[d] \in Connection /\ header'[home[d]] = header[home[d]]
      <3> SUFFICES ASSUME NEW d \in Connection, home[d] # NoOne
                   PROVE  home[d] \in Connection /\ header'[home[d]] = header[home[d]]
        OBVIOUS
      <3>1. home[d] \in Connection /\ phase[home[d]] # "none"
        BY DEF ServerInv, TypeOK, HomesKept
      <3>2. QED
        BY <1>1, <3>1
    <2>2. QED
      BY <1>1, <1>2, <2>1 DEF ServerInv, HomesKept
  <1>7. \A d \in Connection : header'[d] = header[d] => WorkerOf(d)' = WorkerOf(d)
    BY DEF WorkerOf
  <1>8. ChannelsHold'
    <2>1. \A d \in Connection : stage[d] = "queued" <=> stage'[d] = "queued"
      BY <1>1, <1>2
    <2>2. \A d \in Connection : stage[d] = "queued" => WorkerOf(d)' = WorkerOf(d)
      BY <1>1, <1>7
    <2>3. QED
      BY <2>1, <2>2 DEF ServerInv, ChannelsHold
  <1>9. \A r \in Live : header'[r] = header[r] /\ WorkerOf(r)' = WorkerOf(r)
    BY <1>1, <1>7, LiveFacts
  <1>10. LiveIsRegistered'
    BY <1>4, <1>9 DEF ServerInv, LiveIsRegistered
  <1>11. ShutdownInOrder'
    <2>1. \A r \in At("assigned") \cup At("running") : WorkerOf(r)' = WorkerOf(r)
      BY <1>1, <1>7 DEF At
    <2>2. \A w \in Worker : thread'[w] = "ended" =>
            /\ ~open'[w] /\ channel'[w] = <<>>
            /\ \A r \in Live' \cup At("assigned")' \cup At("running")' : WorkerOf(r)' # w
      BY <1>3, <1>4, <1>9, <2>1 DEF ServerInv, ShutdownInOrder
    <2>3. QED
      BY <2>2 DEF ServerInv, ShutdownInOrder
  <1>12. RegistryNames'
    <2> SUFFICES ASSUME NEW w \in Worker, NEW id \in ReplayId, registry[w][id] # NoOne
                 PROVE  phase[registry[w][id]] # "none" /\ header'[registry[w][id]].id = id
      BY DEF RegistryNames
    <2>1. registry[w][id] \in Connection
      BY WorkerTypes DEF ServerInv
    <2>2. QED
      BY <1>1, <2>1 DEF ServerInv, RegistryNames
  <1>13. QED
    BY <1>5, <1>6, <1>8, <1>10, <1>11, <1>12 DEF ServerInv

\* The steps of the accept loop, and of a signal, keep the invariant.
LEMMA AcceptLoopKeeps ==
    ASSUME ServerInv, TypeOK',
           \/ \E c \in Connection :
                \/ Accept(c) \/ HeaderFails(c)
                \/ \E type \in {"Reader", "Writer"}, id \in ReplayId : HeaderRead(c, type, id)
           \/ Signal \/ StopServer \/ UNCHANGED vars
    PROVE  ServerInv'
  <1> USE DEF serverVars, workerVars, replayVars
  <1> TypeOK
    BY DEF ServerInv
  <1>0. server # "accepting" => \A d \in Connection : stage[d] \notin {"accepting", "sending"}
    BY DEF ServerInv, ShutdownInOrder
  <1>1. ASSUME NEW c \in Connection, Accept(c) \/ HeaderFails(c)
        PROVE  ServerInv'
    <2>1. /\ UNCHANGED <<header, server, joined, workerVars, replayVars>>
          /\ server = "accepting"
          /\ stage[c] \in {"none", "accepting"}
          /\ \/ stage' = [stage EXCEPT ![c] = "accepting"]
             \/ stage' = [stage EXCEPT ![c] = "refused"]
      BY <1>1 DEF Accept, HeaderFails
    <2>2. \A d \in Connection : stage'[d] = stage[d] \/ (d = c /\ stage'[d] \in {"accepting", "refused"})
      BY <2>1 DEF TypeOK
    <2>3. QED
      BY <2>1, <2>2, AcceptLoopStep
  <1>2. ASSUME NEW c \in Connection, NEW type \in {"Reader", "Writer"}, NEW id \in ReplayId,
               HeaderRead(c, type, id)
        PROVE  ServerInv'
    <2>1. /\ UNCHANGED <<server, joined, workerVars, replayVars>>
          /\ server = "accepting"
          /\ stage[c] = "accepting"
          /\ stage' = [stage EXCEPT ![c] = "sending"]
          /\ header' = [header EXCEPT ![c] = [type |-> type, id |-> id]]
      BY <1>2 DEF HeaderRead
    <2>2. [type |-> type, id |-> id] \in Headers
      BY DEF Headers
    <2>3. \A d \in Connection : /\ stage'[d] = stage[d] \/ (d = c /\ stage'[d] = "sending")
                                /\ header'[d] = header[d] \/ (d = c /\ header'[d] \in Headers)
                                /\ d = c => header'[d] \in Headers
      BY <2>1, <2>2 DEF TypeOK
    <2>4. QED
      BY <2>1, <2>3, AcceptLoopStep
  <1>3. CASE Signal \/ UNCHANGED vars
    <2>1. UNCHANGED <<stage, header, server, joined, workerVars, replayVars>>
      BY <1>3 DEF Signal, vars
    <2>2. QED
      BY <1>0, <2>1, AcceptLoopStep
  <1>4. CASE StopServer
    <2>1. /\ UNCHANGED <<header, joined, workerVars, replayVars>>
          /\ server = "accepting" /\ server' = "joining"
          /\ stage' = [c \in Connection |->
                    IF stage[c] \in {"accepting", "sending"} THEN "dropped" ELSE stage[c]]
      BY <1>4 DEF StopServer
    <2>2. \A d \in Connection :
            /\ \/ stage'[d] = stage[d]
               \/ stage[d] \in {"accepting", "sending"} /\ stage'[d] = "dropped"
            /\ stage'[d] \notin {"accepting", "sending"}
      BY <2>1
    <2>3. QED
      BY <2>1, <2>2, AcceptLoopStep
  <1>5. QED
    BY <1>1, <1>2, <1>3, <1>4

\* Connections that settle and lifetimes that end only let go of replays.
LEMMA LeavingStep ==
    ASSUME ServerInv, TypeOK',
           UNCHANGED <<header, server, joined, workerVars, registry, home>>,
           \A d \in Connection :
                \/ stage'[d] = stage[d]
                \/ /\ stage[d] \in {"assigned", "running"}
                   /\ stage'[d] \in {"running"} \cup Settled,
           \A d \in Connection :
                /\ phase'[d] = "none" <=> phase[d] = "none"
                /\ phase'[d] \in {"accepting", "stopped"} => phase[d] \in {"accepting", "stopped"}
    PROVE  ServerInv'
  <1> USE DEF workerVars
  <1>1. At("assigned")' \cup At("running")' \subseteq At("assigned") \cup At("running")
    BY DEF At, Settled
  <1>2. Live' \subseteq Live
    <2> SUFFICES ASSUME NEW r \in Connection, Held(r)' PROVE Held(r)
      BY DEF Live
    <2>1. QED
      BY <1>1 DEF Held
  <1>3. \A d \in Connection : WorkerOf(d)' = WorkerOf(d)
    BY DEF WorkerOf
  <1>4. HeadersKnown'
    BY DEF ServerInv, HeadersKnown, Settled
  <1>5. HomesKept'
    <2>1. \A d \in Connection : home[d] # NoOne => home[d] \in Connection
      BY DEF ServerInv, TypeOK
    <2>2. QED
      BY <2>1 DEF ServerInv, HomesKept, Settled
  <1>6. ChannelsHold'
    <2>1. \A d \in Connection : stage[d] = "queued" <=> stage'[d] = "queued"
      BY DEF Settled
    <2>2. QED
      BY <1>3, <2>1 DEF ServerInv, ChannelsHold
  <1>7. LiveIsRegistered'
    BY <1>2, <1>3, LiveFacts DEF ServerInv, LiveIsRegistered
  <1>8. ShutdownInOrder'
    <2>1. \A d \in Connection : stage'[d] \in {"accepting", "sending"} => stage[d] = stage'[d]
      BY DEF Settled
    <2>2. \A w \in Worker : thread'[w] = "ended" =>
            /\ ~open'[w] /\ channel'[w] = <<>>
            /\ \A r \in Live' \cup At("assigned")' \cup At("running")' : WorkerOf(r)' # w
      <3> SUFFICES ASSUME NEW w \in Worker, thread[w] = "ended",
                          NEW r \in Live' \cup At("assigned")' \cup At("running")'
                   PROVE  ~open[w] /\ channel[w] = <<>> /\ WorkerOf(r)' # w
        BY DEF ServerInv, ShutdownInOrder
      <3>1. r \in Live \cup At("assigned") \cup At("running") /\ r \in Connection
        BY <1>1, <1>2 DEF Live, At
      <3>2. QED
        BY <1>3, <3>1 DEF ServerInv, ShutdownInOrder
    <2>3. QED
      BY <2>1, <2>2 DEF ServerInv, ShutdownInOrder
  <1>9. RegistryNames'
    BY WorkerTypes DEF ServerInv, RegistryNames
  <1>10. QED
    BY <1>4, <1>5, <1>6, <1>7, <1>8, <1>9 DEF ServerInv

\* The steps of replays and their connections keep the invariant.
LEMMA LeavingKeeps ==
    ASSUME ServerInv, TypeOK', NEW c \in Connection,
           Handle(c) \/ ConnectionEnds(c) \/ StopAccepting(c) \/ LifetimeEnds(c)
    PROVE  ServerInv'
  <1> USE DEF serverVars, workerVars, replayVars
  <1> TypeOK
    BY DEF ServerInv
  <1>1. CASE Handle(c) \/ ConnectionEnds(c)
    <2>1. /\ UNCHANGED <<header, server, joined, workerVars, registry, home, phase>>
          /\ stage[c] \in {"assigned", "running"}
          /\ \/ stage' = [stage EXCEPT ![c] = "running"]
             \/ stage' = [stage EXCEPT ![c] = "refused"]
             \/ stage' = [stage EXCEPT ![c] = "served"]
      BY <1>1 DEF Handle, ConnectionEnds
    <2>2. \A d \in Connection :
            stage'[d] = stage[d] \/ (d = c /\ stage'[d] \in {"running"} \cup Settled)
      BY <2>1 DEF TypeOK, Settled
    <2>3. QED
      BY <2>1, <2>2, LeavingStep
  <1>2. CASE StopAccepting(c) \/ LifetimeEnds(c)
    <2>1. /\ UNCHANGED <<stage, header, server, joined, workerVars, registry, home>>
          /\ phase[c] \in {"accepting", "stopped"}
          /\ \/ phase' = [phase EXCEPT ![c] = "stopped"]
             \/ phase' = [phase EXCEPT ![c] = "over"]
      BY <1>2 DEF StopAccepting, LifetimeEnds
    <2>2. \A d \in Connection :
            \/ phase'[d] = phase[d]
            \/ /\ phase[d] \in {"accepting", "stopped"}
               /\ phase'[d] \in {"stopped", "over"}
      BY <2>1 DEF TypeOK
    <2>3. QED
      BY <2>1, <2>2, LeavingStep
  <1>3. QED
    BY <1>1, <1>2

\* A worker thread that may end holds no replay and serves nobody.
LEMMA EndingThreadIsIdle ==
    ASSUME ServerInv, NEW w \in Worker, AllDone(w)
    PROVE  \A r \in Live \cup At("assigned") \cup At("running") : WorkerOf(r) # w
  <1>1. ASSUME NEW r \in Live, WorkerOf(r) = w PROVE FALSE
    <2>1. registry[w][header[r].id] = r /\ header[r].id \in ReplayId /\ r \in Connection
      BY <1>1, LiveFacts DEF ServerInv, LiveIsRegistered
    <2>2. Registered(w, header[r].id)
      BY <2>1, NoOneAssumption DEF Registered
    <2>3. QED
      BY <2>1, <2>2 DEF AllDone
  <1>2. QED
    BY <1>1 DEF AllDone

\* The end of a worker thread and the joining of the threads.
LEMMA ShutdownKeeps ==
    ASSUME ServerInv, TypeOK', NEW w \in Worker,
           ThreadEnds(w) \/ DropSender(w) \/ JoinThread(w)
    PROVE  ServerInv'
  <1> USE DEF serverVars, replayVars, workerVars
  <1> TypeOK
    BY DEF ServerInv
  <1>1. UNCHANGED <<stage, header, channel, registry, phase, home>>
    BY DEF ThreadEnds, DropSender, JoinThread
  <1>2. /\ Live' = Live
        /\ At("assigned")' = At("assigned") /\ At("running")' = At("running")
    BY <1>1 DEF Live, Held, At
  <1>3. \A d \in Connection : WorkerOf(d)' = WorkerOf(d)
    BY <1>1 DEF WorkerOf
  <1>4. HeadersKnown' /\ HomesKept'
    BY <1>1 DEF ServerInv, HeadersKnown, HomesKept
  <1>5. ChannelsHold'
    BY <1>1, <1>3 DEF ServerInv, ChannelsHold
  <1>6. LiveIsRegistered'
    BY <1>1, <1>2, <1>3, LiveFacts DEF ServerInv, LiveIsRegistered
  <1>7. \A r \in Live \cup At("assigned") \cup At("running") : WorkerOf(r)' = WorkerOf(r)
    BY <1>3 DEF Live, At
  <1>8. ShutdownInOrder'
    <2>1. CASE ThreadEnds(w)
      <3>1. /\ ~open[w] /\ channel[w] = <<>> /\ AllDone(w)
            /\ thread' = [thread EXCEPT ![w] = "ended"]
            /\ UNCHANGED <<server, joined, open>>
        BY <2>1 DEF ThreadEnds
      <3>2. \A v \in Worker : thread'[v] = IF v = w THEN "ended" ELSE thread[v]
        BY <3>1 DEF TypeOK
      <3>3. \A r \in Live \cup At("assigned") \cup At("running") : WorkerOf(r) # w
        BY <3>1, EndingThreadIsIdle
      <3>4. QED
        BY <1>1, <1>2, <1>7, <3>1, <3>2, <3>3 DEF ServerInv, ShutdownInOrder
    <2>2. CASE DropSender(w)
      <3>1. /\ server = "joining" /\ open' = [open EXCEPT ![w] = FALSE]
            /\ UNCHANGED <<server, joined, thread>>
        BY <2>2 DEF DropSender, CloseChannel
      <3>2. \A v \in Worker : open'[v] => open[v]
        BY <3>1 DEF TypeOK
      <3>3. QED
        BY <1>1, <1>2, <1>7, <3>1, <3>2 DEF ServerInv, ShutdownInOrder
    <2>3. CASE JoinThread(w)
      <3>1. /\ server = "joining" /\ joined = w /\ thread[w] = "ended" /\ joined' = w + 1
            /\ server' = IF joined' = Workers THEN "stopped" ELSE server
            /\ UNCHANGED <<open, thread>>
        BY <2>3 DEF JoinThread
      <3>2. \A v \in Worker : v < joined' => thread[v] = "ended"
        <4>1. \A v \in Worker : v < w + 1 => v < w \/ v = w
          BY DEF Worker
        <4>2. QED
          BY <3>1, <4>1 DEF ServerInv, ShutdownInOrder
      <3>3. server' # "accepting" /\ (server' = "stopped" => joined' = Workers)
        BY <3>1
      <3>4. QED
        BY <1>1, <1>2, <1>7, <3>1, <3>2, <3>3 DEF ServerInv, ShutdownInOrder
    <2>4. QED
      BY <2>1, <2>2, <2>3
  <1>9. RegistryNames'
    BY <1>1 DEF ServerInv, RegistryNames
  <1>10. QED
    BY <1>4, <1>5, <1>6, <1>8, <1>9 DEF ServerInv

\* A connection is sent to the worker of its replay id, whose thread runs.
LEMMA DispatchKeeps ==
    ASSUME ServerInv, TypeOK', NEW c \in Connection, Dispatch(c)
    PROVE  ServerInv'
  <1> USE DEF serverVars, replayVars
  <1> DEFINE w == WorkerOf(c)
  <1> TypeOK
    BY DEF ServerInv
  <1>1. /\ server = "accepting" /\ stage[c] = "sending"
        /\ stage' = [stage EXCEPT ![c] = "queued"]
        /\ channel' = [channel EXCEPT ![w] = Append(channel[w], c)]
        /\ UNCHANGED <<header, server, joined, open, thread, registry, phase, home>>
    BY DEF Dispatch
  <1>2. w \in Worker
    BY <1>1, WorkerOfType DEF ServerInv, HeadersKnown
  <1>3. channel[w] = <<>> /\ Append(channel[w], c) = <<c>>
    BY <1>2, WorkerTypes, ChannelHasRoom DEF Dispatch, HasRoom
  <1> HIDE DEF w
  <1>4. \A v \in Worker : channel'[v] = IF v = w THEN <<c>> ELSE channel[v]
    BY <1>1, <1>2, <1>3 DEF TypeOK
  <1>5. \A d \in Connection : stage'[d] = IF d = c THEN "queued" ELSE stage[d]
    BY <1>1 DEF TypeOK
  <1>6. At("assigned")' = At("assigned") /\ At("running")' = At("running")
    BY <1>1, <1>5 DEF At
  <1>7. Live' = Live
    BY <1>1, <1>6, SameLive
  <1>8. \A d \in Connection : WorkerOf(d)' = WorkerOf(d)
    BY <1>1 DEF WorkerOf
  <1>9. HeadersKnown'
    BY <1>1, <1>5 DEF ServerInv, HeadersKnown
  <1>10. HomesKept'
    <2>1. home[c] = NoOne
      BY <1>1 DEF ServerInv, HomesKept, Settled
    <2>2. QED
      BY <1>1, <1>5, <2>1 DEF ServerInv, HomesKept
  <1>11. ChannelsHold'
    <2>1. WorkerOf(c)' = w /\ stage'[c] = "queued"
      BY <1>5, <1>8 DEF w
    <2>2. ASSUME NEW v \in Worker
          PROVE  \/ channel'[v] = <<>>
                 \/ \E d \in Connection : /\ channel'[v] = <<d>>
                                          /\ stage'[d] = "queued" /\ WorkerOf(d)' = v
      <3>1. CASE v = w
        BY <1>4, <2>1, <3>1
      <3>2. CASE v # w
        <4>1. channel'[v] = channel[v]
          BY <1>4, <3>2
        <4>2. \/ channel[v] = <<>>
              \/ \E d \in Connection : /\ channel[v] = <<d>>
                                       /\ stage[d] = "queued" /\ WorkerOf(d) = v
          BY DEF ServerInv, ChannelsHold
        <4>3. CASE channel[v] = <<>>
          BY <4>1, <4>3
        <4>4. ASSUME NEW d \in Connection, channel[v] = <<d>>, stage[d] = "queued",
                     WorkerOf(d) = v
              PROVE  /\ channel'[v] = <<d>>
                     /\ stage'[d] = "queued" /\ WorkerOf(d)' = v
          BY <1>5, <1>8, <4>1, <4>4
        <4>5. QED
          BY <4>2, <4>3, <4>4, Zenon
      <3>3. QED
        BY <3>1, <3>2
    <2>3. ASSUME NEW d \in Connection, stage'[d] = "queued"
          PROVE  channel'[WorkerOf(d)'] = <<d>>
      <3>1. CASE d = c
        BY <1>2, <1>4, <2>1, <3>1
      <3>2. CASE d # c
        <4>1. stage[d] = "queued" /\ channel[WorkerOf(d)] = <<d>>
          BY <1>5, <2>3, <3>2 DEF ServerInv, ChannelsHold
        <4>2. WorkerOf(d) \in Worker
          BY <4>1, WorkerOfType DEF ServerInv, HeadersKnown
        <4>3. WorkerOf(d) # w
          <5>1. <<d>> # <<>>
            OBVIOUS
          <5>2. QED
            BY <1>3, <4>1, <5>1, Zenon
        <4>4. PICK v \in Worker : v = WorkerOf(d)
          BY <4>2
        <4>5. channel'[v] = channel[v]
          BY <1>4, <4>3, <4>4
        <4>6. WorkerOf(d)' = v
          BY <1>8, <4>4
        <4>7. QED
          BY <4>1, <4>4, <4>5, <4>6
      <3>3. QED
        BY <3>1, <3>2
    <2>4. QED
      BY <2>2, <2>3 DEF ChannelsHold
  <1>12. LiveIsRegistered'
    BY <1>1, <1>7, <1>8, LiveFacts DEF ServerInv, LiveIsRegistered
  <1>13. ShutdownInOrder'
    <2>1. \A r \in Live \cup At("assigned") \cup At("running") : WorkerOf(r)' = WorkerOf(r)
      BY <1>8 DEF Live, At
    <2>2. open[w]
      BY <1>1, <1>2 DEF ServerInv, ShutdownInOrder
    <2>3. \A v \in Worker : thread[v] = "ended" => channel'[v] = channel[v]
      BY <1>2, <1>4, <2>2 DEF ServerInv, ShutdownInOrder
    <2>4. QED
      BY <1>1, <1>5, <1>6, <1>7, <2>1, <2>3 DEF ServerInv, ShutdownInOrder
  <1>14. RegistryNames'
    BY <1>1 DEF ServerInv, RegistryNames
  <1>15. QED
    BY <1>9, <1>10, <1>11, <1>12, <1>13, <1>14 DEF ServerInv

\* assign_connection_to_replay, for the connection at the head of a channel:
\* it is refused, finds the replay of its id, or becomes that replay.
LEMMA ReceiveKeeps ==
    ASSUME ServerInv, TypeOK', NEW w \in Worker, Receive(w)
    PROVE  ServerInv'
  <1> USE DEF serverVars, replayVars
  <1> DEFINE c == Head(channel[w])
             id == header[c].id
  <1> TypeOK
    BY DEF ServerInv
  <1>1. /\ thread[w] = "running" /\ Ready(w) /\ Assign(w, c)
        /\ channel' = [channel EXCEPT ![w] = Tail(channel[w])]
        /\ UNCHANGED <<header, server, joined, open, thread>>
    BY DEF Receive
  <1>2. /\ c \in Connection /\ channel[w] = <<c>> /\ Tail(channel[w]) = <<>>
        /\ stage[c] = "queued" /\ WorkerOf(c) = w /\ header[c] \in Headers
        /\ id \in ReplayId /\ home[c] = NoOne /\ phase[c] = "none"
    BY <1>1, QueuedFacts
  <1> DEFINE Rest == /\ \A d \in Connection : d # c => /\ stage'[d] = stage[d]
                                                       /\ home'[d] = home[d]
                                                       /\ phase'[d] = phase[d]
                     /\ \A v \in Worker, i \in ReplayId :
                            v # w \/ i # id => registry'[v][i] = registry[v][i]
             Refused == /\ stage'[c] = "refused"
                        /\ UNCHANGED <<registry, phase, home>>
             Found == /\ Registered(w, id)
                      /\ stage'[c] = "assigned" /\ home'[c] = registry[w][id]
                      /\ UNCHANGED <<registry, phase>>
             Created == /\ ~Registered(w, id)
                        /\ stage'[c] = "assigned" /\ home'[c] = c
                        /\ registry'[w][id] = c /\ phase'[c] = "accepting"
  <1> HIDE DEF c, id
  <1>3. Rest /\ (Refused \/ Found \/ Created)
    <2>0. /\ stage \in [Connection -> {"none", "accepting", "sending", "queued",
                                 "assigned", "running"} \cup Settled]
          /\ home \in [Connection -> Connection \cup {NoOne}]
          /\ phase \in [Connection -> {"none", "accepting", "stopped", "over"}]
          /\ registry \in [Worker -> [ReplayId -> Connection \cup {NoOne}]]
      BY DEF TypeOK
    <2>1. CASE /\ Registered(w, id)
               /\ stage' = [stage EXCEPT ![c] = "assigned"]
               /\ home' = [home EXCEPT ![c] = registry[w][id]]
               /\ UNCHANGED <<registry, phase>>
      BY <1>2, <2>0, <2>1
    <2>2. CASE /\ stage' = [stage EXCEPT ![c] = "refused"]
               /\ UNCHANGED <<registry, phase, home>>
      BY <1>2, <2>0, <2>2
    <2>3. CASE /\ ~Registered(w, id)
               /\ stage' = [stage EXCEPT ![c] = "assigned"]
               /\ home' = [home EXCEPT ![c] = c]
               /\ registry' = [registry EXCEPT ![w][id] = c]
               /\ phase' = [phase EXCEPT ![c] = "accepting"]
      BY <1>2, <2>0, <2>3
    <2>4. QED
      BY <1>1, <2>1, <2>2, <2>3 DEF Assign, id
  <1>4. \A v \in Worker : channel'[v] = IF v = w THEN <<>> ELSE channel[v]
    BY <1>1, <1>2 DEF TypeOK
  <1>5. \A d \in Connection : WorkerOf(d)' = WorkerOf(d)
    BY <1>1 DEF WorkerOf
  <1>6. Found => /\ registry[w][id] \in Connection /\ registry[w][id] \in Live
                 /\ phase[registry[w][id]] # "none"
                 /\ header[registry[w][id]].id = id
    BY <1>2, WorkerTypes DEF Registered, ServerInv, RegistryNames
  <1>7. WorkerOf(c) = header[c].id % Workers /\ id = header[c].id
    BY DEF WorkerOf, id
  <1>8. \A x \in Live' : x \in Live \/ (x = c /\ Created)
    <2> SUFFICES ASSUME NEW x \in Connection, Held(x)', x # c \/ ~Created
                 PROVE  Held(x)
      BY DEF Live
    <2>1. CASE phase'[x] \in {"accepting", "stopped"}
      BY <1>2, <1>3, <2>1 DEF Held
    <2>2. CASE \E d \in At("assigned")' \cup At("running")' : home'[d] = x
      <3>1. PICK d \in Connection : stage'[d] \in {"assigned", "running"} /\ home'[d] = x
        BY <2>2 DEF At
      <3>2. CASE d # c
        BY <1>3, <3>1, <3>2 DEF Held, At
      <3>3. CASE d = c
        <4>1. CASE Found
          BY <1>6, <3>1, <3>3, <4>1 DEF Live
        <4>2. CASE Refused
          BY <3>1, <3>3, <4>2
        <4>3. CASE Created
          BY <3>1, <3>3, <4>3
        <4>4. QED
          BY <1>3, <4>1, <4>2, <4>3
      <3>4. QED
        BY <3>2, <3>3
    <2>3. QED
      BY <2>1, <2>2 DEF Held
  <1>9. HeadersKnown'
    BY <1>1, <1>2, <1>3 DEF ServerInv, HeadersKnown
  <1>10. HomesKept'
    <2>1. ASSUME NEW d \in Connection, home'[d] # NoOne
          PROVE  /\ stage'[d] \in {"assigned", "running"} \cup Settled
                 /\ phase'[home'[d]] # "none" /\ header[home'[d]].id = header[d].id
      <3>1. CASE d # c
        <4>1. /\ home[d] # NoOne /\ home[d] \in Connection
              /\ stage[d] \in {"assigned", "running"} \cup Settled
              /\ phase[home[d]] # "none" /\ header[home[d]].id = header[d].id
          BY <1>3, <2>1, <3>1 DEF ServerInv, HomesKept, TypeOK
        <4>2. QED
          BY <1>2, <1>3, <3>1, <4>1
      <3>2. CASE d = c
        BY <1>2, <1>3, <1>6, <1>7, <2>1, <3>2
      <3>3. QED
        BY <3>1, <3>2
    <2>2. ASSUME NEW d \in Connection
          PROVE  /\ stage'[d] \in {"assigned", "running"} => home'[d] # NoOne
                 /\ phase'[d] # "none" => home'[d] = d
      <3>1. CASE d # c
        BY <1>3, <3>1 DEF ServerInv, HomesKept
      <3>2. CASE d = c
        BY <1>2, <1>3, <1>6, NoOneAssumption, <3>2
      <3>3. QED
        BY <3>1, <3>2
    <2>3. QED
      BY <1>1, <2>1, <2>2 DEF HomesKept
  <1>11. ChannelsHold'
    <2>1. stage'[c] # "queued"
      BY <1>3
    <2>2. ASSUME NEW v \in Worker
          PROVE  \/ channel'[v] = <<>>
                 \/ \E d \in Connection : /\ channel'[v] = <<d>>
                                          /\ stage'[d] = "queued" /\ WorkerOf(d)' = v
      <3>1. CASE v = w
        BY <1>4, <3>1
      <3>2. CASE v # w
        <4>1. channel'[v] = channel[v]
          BY <1>4, <3>2
        <4>2. \/ channel[v] = <<>>
              \/ \E d \in Connection : /\ channel[v] = <<d>>
                                       /\ stage[d] = "queued" /\ WorkerOf(d) = v
          BY DEF ServerInv, ChannelsHold
        <4>3. \A d \in Connection : WorkerOf(d) = v => d # c
          BY <1>2, <3>2
        <4>4. QED
          BY <1>3, <1>5, <4>1, <4>2, <4>3
      <3>3. QED
        BY <3>1, <3>2
    <2>3. ASSUME NEW d \in Connection, stage'[d] = "queued"
          PROVE  channel'[WorkerOf(d)'] = <<d>>
      <3>1. d # c /\ stage[d] = "queued" /\ channel[WorkerOf(d)] = <<d>>
        BY <1>3, <2>1, <2>3 DEF ServerInv, ChannelsHold
      <3>2. WorkerOf(d) \in Worker
        BY <3>1, WorkerOfType DEF ServerInv, HeadersKnown
      <3>3. WorkerOf(d) # w
        <4>1. <<c>>[1] = c /\ <<d>>[1] = d
          OBVIOUS
        <4>2. QED
          BY <1>2, <3>1, <4>1
      <3>4. QED
        BY <1>4, <1>5, <3>1, <3>2, <3>3
    <2>4. QED
      BY <2>2, <2>3 DEF ChannelsHold
  <1>12. LiveIsRegistered'
    <2> SUFFICES ASSUME NEW x \in Live' PROVE registry'[WorkerOf(x)'][header[x].id] = x
      BY <1>1 DEF LiveIsRegistered
    <2>1. CASE x = c /\ Created
      BY <1>2, <1>5, <1>7, <2>1
    <2>2. CASE x \in Live
      <3>1. /\ registry[WorkerOf(x)][header[x].id] = x /\ x \in Connection
            /\ WorkerOf(x) \in Worker /\ header[x].id \in ReplayId
        BY <2>2, LiveFacts DEF ServerInv, LiveIsRegistered
      <3>2. Created => WorkerOf(x) # w \/ header[x].id # id
        BY <2>2, <3>1, NoOneAssumption DEF Registered
      <3>3. QED
        BY <1>3, <1>5, <3>1, <3>2
    <2>3. QED
      BY <1>8, <2>1, <2>2
  <1>13. RegistryNames'
    <2> SUFFICES ASSUME NEW v \in Worker, NEW i \in ReplayId, registry'[v][i] # NoOne
                 PROVE  phase'[registry'[v][i]] # "none" /\ header[registry'[v][i]].id = i
      BY <1>1 DEF RegistryNames
    <2>1. CASE registry'[v][i] = registry[v][i]
      <3>1. /\ registry[v][i] \in Connection /\ phase[registry[v][i]] # "none"
            /\ header[registry[v][i]].id = i
        BY <2>1, WorkerTypes DEF ServerInv, RegistryNames
      <3>2. QED
        BY <1>2, <1>3, <2>1, <3>1
    <2>2. CASE Created /\ v = w /\ i = id
      BY <1>7, <2>2
    <2>3. QED
      BY <1>3, <2>1, <2>2
  <1>14. ShutdownInOrder'
    <2>1. \A v \in Worker : thread[v] = "ended" =>
            \A r \in Live' \cup At("assigned")' \cup At("running")' : WorkerOf(r)' # v
      <3> SUFFICES ASSUME NEW v \in Worker, thread[v] = "ended",
                          NEW r \in Live' \cup At("assigned")' \cup At("running")'
                   PROVE  WorkerOf(r) # v
        BY <1>5 DEF Live, At
      <3>1. CASE r = c
        BY <1>1, <1>2, <3>1
      <3>2. CASE r # c
        <4>1. r \in Live \cup At("assigned") \cup At("running")
          BY <1>3, <1>8, <3>2 DEF At
        <4>2. QED
          BY <4>1 DEF ServerInv, ShutdownInOrder
      <3>3. QED
        BY <3>1, <3>2
    <2>2. \A d \in Connection : stage'[d] \in {"accepting", "sending"} => stage'[d] = stage[d]
      BY <1>3
    <2>3. QED
      BY <1>1, <1>4, <2>1, <2>2 DEF ServerInv, ShutdownInOrder
  <1>15. QED
    BY <1>9, <1>10, <1>11, <1>12, <1>13, <1>14 DEF ServerInv

\* The invariant holds forever.
LEMMA ServerInvariant == Spec => []ServerInv
  <1>1. ServerInv /\ [Next]_vars => ServerInv'
    <2> SUFFICES ASSUME ServerInv, [Next]_vars PROVE ServerInv'
      OBVIOUS
    <2>1. TypeOK'
      BY ServerTypes
    <2>2. QED
      BY <2>1, AcceptLoopKeeps, LeavingKeeps, ShutdownKeeps, DispatchKeeps, ReceiveKeeps
         DEF Next, Terminated
  <1>2. QED
    BY InitServerInv, <1>1, PTL DEF Spec

-----------------------------------------------------------------------------
(* What the server promises                                                *)

\* Registered replays are found again by every later connection of their id
\* (assign_connection_to_replay), on the one worker that dispatch_connection
\* picks for the id, so no id has two replays that are held.
THEOREM OneReplay == Spec => []OneReplayPerId
  <1>1. ServerInv => OneReplayPerId
    <2> SUFFICES ASSUME ServerInv, NEW r \in Live, NEW s \in Live,
                        header[r].id = header[s].id
                 PROVE  r = s
      BY DEF OneReplayPerId, ServerInv
    <2>1. WorkerOf(r) = WorkerOf(s)
      BY DEF WorkerOf
    <2>2. QED
      BY <2>1 DEF ServerInv, LiveIsRegistered
  <1>2. QED
    BY <1>1, ServerInvariant, PTL

\* run() returns after WorkerThread::join of every worker, and a thread only
\* ends without futures: no replay is unsaved and no connection unsettled.
THEOREM ExitIsClean == Spec => []NothingLeftAtExit
  <1>1. ServerInv => NothingLeftAtExit
    <2> SUFFICES ASSUME ServerInv, server = "stopped"
                 PROVE  /\ Live = {}
                        /\ \A c \in Connection : stage[c] \in Settled \cup {"none"}
      BY DEF NothingLeftAtExit
    <2>1. \A w \in Worker : thread[w] = "ended"
      <3>1. \A w \in Worker : w < Workers
        BY ServerAssumption DEF Worker
      <3>2. QED
        BY <3>1 DEF ServerInv, ShutdownInOrder
    <2>2. Live = {}
      BY <2>1, LiveFacts DEF ServerInv, ShutdownInOrder
    <2>3. ASSUME NEW c \in Connection, stage[c] \in {"queued", "assigned", "running"}
          PROVE  FALSE
      <3>1. WorkerOf(c) \in Worker
        BY <2>3, WorkerOfType DEF ServerInv, HeadersKnown
      <3>2. CASE stage[c] = "queued"
        <4>1. channel[WorkerOf(c)] = <<c>> /\ channel[WorkerOf(c)] = <<>>
          BY <2>1, <3>1, <3>2 DEF ServerInv, ChannelsHold, ShutdownInOrder
        <4>2. Len(<<c>>) = 1 /\ Len(<<>>) = 0
          OBVIOUS
        <4>3. QED
          BY <4>1, <4>2, SMTT(30)
      <3>3. CASE c \in At("assigned") \cup At("running")
        BY <2>1, <3>1, <3>3 DEF ServerInv, ShutdownInOrder
      <3>4. QED
        BY <2>3, <3>2, <3>3 DEF At
    <2>4. \A c \in Connection : stage[c] \notin {"accepting", "sending"}
      BY DEF ServerInv, ShutdownInOrder
    <2>5. QED
      BY <2>2, <2>3, <2>4 DEF ServerInv, TypeOK
  <1>2. QED
    BY <1>1, ServerInvariant, PTL

\* No connection has been assigned to any replay.
LEMMA PhasesInit == Init => \A r \in Connection : Phases(r)!Init
  <1> SUFFICES ASSUME Init, NEW r \in Connection PROVE Phases(r)!Init
    OBVIOUS
  <1>1. QED
    BY NoOneAssumption DEF Init, Phases!Init, StageIn, PhaseOf

\* What a replay sees depends on its phase and on who has a home in it.
LEMMA UnseenStep ==
    ASSUME NEW r \in Connection, UNCHANGED <<home, phase>>,
           \A d \in Connection : home[d] # NoOne => stage'[d] = stage[d]
    PROVE  UNCHANGED <<StageIn(r), PhaseOf(r)>>
  <1>1. StageIn(r)' = StageIn(r)
    BY NoOneAssumption DEF StageIn
  <1>2. PhaseOf(r)' = PhaseOf(r)
    BY DEF PhaseOf
  <1>3. QED
    BY <1>1, <1>2

\* A registry finds a replay as long as its phases say that it is held.
LEMMA HeldInPhases ==
    ASSUME ServerInv, NEW r \in Live
    PROVE  Phases(r)!Held
  <1>1. r \in Connection /\ phase[r] # "none"
    BY LiveFacts
  <1>2. CASE phase[r] \in {"accepting", "stopped"}
    BY <1>1, <1>2 DEF Phases!Held, PhaseOf
  <1>3. CASE \E c \in At("assigned") \cup At("running") : home[c] = r
    <2>1. PICK c \in Connection : home[c] = r /\ stage[c] \in {"assigned", "running"}
      BY <1>3 DEF At
    <2>2. StageIn(r)[c] \in {"assigned", "running"}
      BY <2>1 DEF StageIn, Settled
    <2>3. QED
      BY <2>2 DEF Phases!Held
  <1>4. QED
    BY <1>2, <1>3 DEF Live, Held

\* One connection moving within its home is a step of that replay only.
LEMMA HomeStep ==
    ASSUME TypeOK, NEW c \in Connection, NEW r \in Connection, NEW s,
           home[c] # NoOne, UNCHANGED <<home, phase>>, stage' = [stage EXCEPT ![c] = s]
    PROVE  /\ PhaseOf(r)' = PhaseOf(r)
           /\ home[c] # r => StageIn(r)' = StageIn(r)
           /\ home[c] = r => StageIn(r)' = [StageIn(r) EXCEPT ![c] =
                                               IF s \in Settled THEN "settled" ELSE s]
  <1>1. \A d \in Connection : stage'[d] = IF d = c THEN s ELSE stage[d]
    BY DEF TypeOK
  <1>2. QED
    BY <1>1, ZenonT(60) DEF StageIn, PhaseOf

\* Receiving a connection assigns it in the replay that it finds or becomes.
LEMMA ReceivePhases ==
    ASSUME ServerInv, NEW w \in Worker, Receive(w), NEW r \in Connection
    PROVE  [Phases(r)!Next]_<<StageIn(r), PhaseOf(r)>>
  <1> DEFINE c == Head(channel[w])
             id == header[c].id
  <1> TypeOK
    BY DEF ServerInv
  <1>1. Ready(w) /\ Assign(w, c)
    BY DEF Receive
  <1>2. /\ c \in Connection /\ id \in ReplayId /\ home[c] = NoOne /\ phase[c] = "none"
        /\ stage[c] = "queued"
    BY <1>1, QueuedFacts
  <1> HIDE DEF c, id
  <1>3. StageIn(r)[c] = "none"
    BY <1>2, NoOneAssumption DEF StageIn
  <1> DEFINE h == home'[c]
  <1>4. CASE stage'[c] = "refused"
    <2>1. UNCHANGED <<home, phase>> /\ stage' = [stage EXCEPT ![c] = "refused"]
      <3>1. stage'[c] # "assigned"
        BY <1>4
      <3>2. \A x : stage' = [stage EXCEPT ![c] = x] => stage'[c] = x
        BY <1>2 DEF TypeOK
      <3>3. QED
        BY <1>1, <3>1, <3>2 DEF Assign, replayVars
    <2>2. \A d \in Connection : home[d] # NoOne => stage'[d] = stage[d]
      BY <1>2, <2>1 DEF TypeOK
    <2>3. QED
      BY <2>1, <2>2, UnseenStep
  <1>5. CASE stage'[c] = "assigned"
    <2>1. /\ stage' = [stage EXCEPT ![c] = "assigned"]
          /\ \/ /\ home' = [home EXCEPT ![c] = registry[w][id]]
                /\ registry[w][id] \in Live
                /\ UNCHANGED phase
             \/ /\ home' = [home EXCEPT ![c] = c]
                /\ phase' = [phase EXCEPT ![c] = "accepting"]
      <3>1. stage'[c] # "refused"
        BY <1>5
      <3>2. \A x : stage' = [stage EXCEPT ![c] = x] => stage'[c] = x
        BY <1>2 DEF TypeOK
      <3>3. QED
        BY <1>1, <3>1, <3>2 DEF Assign, Registered, id
    <2>2. /\ \A d \in Connection : stage'[d] = IF d = c THEN "assigned" ELSE stage[d]
          /\ \A d \in Connection : d # c => home'[d] = home[d]
      BY <2>1 DEF TypeOK
    <2>3. PhaseOf(r)' = PhaseOf(r)
      BY <1>2, <2>1 DEF PhaseOf, TypeOK
    <2>4. CASE h # r
      <3>1. StageIn(r)' = StageIn(r)
        <4>1. \A d \in Connection : home'[d] = r <=> home[d] = r
          BY <1>2, <2>2, <2>4, NoOneAssumption
        <4>2. \A d \in Connection : home[d] = r => stage'[d] = stage[d]
          BY <1>2, <2>2, NoOneAssumption
        <4>3. QED
          BY <4>1, <4>2 DEF StageIn
      <3>2. QED
        BY <2>3, <3>1
    <2>5. CASE h = r
      <3>1. StageIn(r)' = [StageIn(r) EXCEPT ![c] = "assigned"]
        <4>1. StageIn(r)' = [d \in Connection |-> IF d = c THEN "assigned" ELSE StageIn(r)[d]]
          BY <2>2, <2>5 DEF StageIn, Settled
        <4>2. QED
          BY <4>1 DEF StageIn
      <3>2. Phases(r)!Held
        <4>1. CASE r \in Live
          BY <4>1, HeldInPhases
        <4>2. CASE r = c
          BY <1>2, <4>2 DEF Phases!Held, PhaseOf
        <4>3. (h = registry[w][id] /\ registry[w][id] \in Live) \/ h = c
          BY <1>2, <2>1 DEF TypeOK
        <4>4. QED
          BY <2>5, <4>1, <4>2, <4>3
      <3>3. Phases(r)!Assign(c)
        BY <1>3, <2>3, <3>1, <3>2 DEF Phases!Assign, Phases!Move
      <3>4. QED
        BY <1>2, <3>3 DEF Phases!Next
    <2>6. QED
      BY <2>4, <2>5
  <1>6. stage'[c] \in {"refused", "assigned"}
    BY <1>1, <1>2 DEF Assign, TypeOK
  <1>7. QED
    BY <1>4, <1>5, <1>6

\* A connection in a replay is admitted, refused or leaves.
LEMMA ConnectionPhases ==
    ASSUME ServerInv, NEW c \in Connection, Handle(c) \/ ConnectionEnds(c),
           NEW r \in Connection
    PROVE  [Phases(r)!Next]_<<StageIn(r), PhaseOf(r)>>
  <1> USE DEF serverVars, workerVars, replayVars
  <1> TypeOK
    BY DEF ServerInv
  <1>1. stage[c] \in {"assigned", "running"} /\ home[c] # NoOne /\ UNCHANGED <<home, phase>>
    BY DEF Handle, ConnectionEnds, ServerInv, HomesKept
  <1>2. home[c] \in Connection /\ phase[home[c]] # "none"
    BY <1>1 DEF ServerInv, TypeOK, HomesKept
  <1>3. home[c] = r => StageIn(r)[c] = stage[c] /\ PhaseOf(r) = phase[r]
    BY <1>1, <1>2 DEF StageIn, PhaseOf, Settled
  <1>4. CASE Handle(c) /\ phase[home[c]] = "accepting"
    <2>1. stage[c] = "assigned" /\ stage' = [stage EXCEPT ![c] = "running"]
      BY <1>4 DEF Handle
    <2>2. /\ PhaseOf(r)' = PhaseOf(r)
          /\ home[c] # r => StageIn(r)' = StageIn(r)
          /\ home[c] = r => StageIn(r)' = [StageIn(r) EXCEPT ![c] = "running"]
      <3>1. (IF "running" \in Settled THEN "settled" ELSE "running") = "running"
        BY DEF Settled
      <3>2. home[c] # NoOne /\ UNCHANGED <<home, phase>>
        BY <1>1
      <3>3. /\ PhaseOf(r)' = PhaseOf(r)
            /\ home[c] # r => StageIn(r)' = StageIn(r)
            /\ home[c] = r => StageIn(r)' = [StageIn(r) EXCEPT ![c] =
                                IF "running" \in Settled THEN "settled" ELSE "running"]
        BY <2>1, <3>2, HomeStep
      <3>4. QED
        BY <3>1, <3>3
    <2>3. home[c] = r => Phases(r)!Admit(c)
      BY <1>3, <1>4, <2>1, <2>2 DEF Phases!Admit, Phases!Move
    <2>4. QED
      BY <2>2, <2>3 DEF Phases!Next
  <1>5. CASE Handle(c) /\ phase[home[c]] # "accepting"
    <2>1. stage[c] = "assigned" /\ stage' = [stage EXCEPT ![c] = "refused"]
      BY <1>5 DEF Handle
    <2>2. /\ PhaseOf(r)' = PhaseOf(r)
          /\ home[c] # r => StageIn(r)' = StageIn(r)
          /\ home[c] = r => StageIn(r)' = [StageIn(r) EXCEPT ![c] = "settled"]
      <3>1. (IF "refused" \in Settled THEN "settled" ELSE "refused") = "settled"
        BY DEF Settled
      <3>2. home[c] # NoOne /\ UNCHANGED <<home, phase>>
        BY <1>1
      <3>3. /\ PhaseOf(r)' = PhaseOf(r)
            /\ home[c] # r => StageIn(r)' = StageIn(r)
            /\ home[c] = r => StageIn(r)' = [StageIn(r) EXCEPT ![c] =
                                IF "refused" \in Settled THEN "settled" ELSE "refused"]
        BY <2>1, <3>2, HomeStep
      <3>4. QED
        BY <3>1, <3>3
    <2>3. home[c] = r => Phases(r)!Refuse(c)
      BY <1>3, <1>5, <2>1, <2>2 DEF Phases!Refuse, Phases!Move
    <2>4. QED
      BY <2>2, <2>3 DEF Phases!Next
  <1>6. CASE ConnectionEnds(c)
    <2>1. stage[c] = "running" /\ stage' = [stage EXCEPT ![c] = "served"]
      BY <1>6 DEF ConnectionEnds
    <2>2. /\ PhaseOf(r)' = PhaseOf(r)
          /\ home[c] # r => StageIn(r)' = StageIn(r)
          /\ home[c] = r => StageIn(r)' = [StageIn(r) EXCEPT ![c] = "settled"]
      <3>1. (IF "served" \in Settled THEN "settled" ELSE "served") = "settled"
        BY DEF Settled
      <3>2. home[c] # NoOne /\ UNCHANGED <<home, phase>>
        BY <1>1
      <3>3. /\ PhaseOf(r)' = PhaseOf(r)
            /\ home[c] # r => StageIn(r)' = StageIn(r)
            /\ home[c] = r => StageIn(r)' = [StageIn(r) EXCEPT ![c] =
                                IF "served" \in Settled THEN "settled" ELSE "served"]
        BY <2>1, <3>2, HomeStep
      <3>4. QED
        BY <3>1, <3>3
    <2>3. home[c] = r => Phases(r)!Leave(c)
      BY <1>3, <2>1, <2>2 DEF Phases!Leave, Phases!Move
    <2>4. QED
      BY <2>2, <2>3 DEF Phases!Next
  <1>7. QED
    BY <1>4, <1>5, <1>6

\* A replay stops accepting, and is over once it serves nobody.
LEMMA LifetimePhases ==
    ASSUME ServerInv, NEW s \in Connection, StopAccepting(s) \/ LifetimeEnds(s),
           NEW r \in Connection
    PROVE  [Phases(r)!Next]_<<StageIn(r), PhaseOf(r)>>
  <1> TypeOK
    BY DEF ServerInv
  <1>1. UNCHANGED <<stage, home>>
    BY DEF StopAccepting, LifetimeEnds
  <1>2. StageIn(r)' = StageIn(r)
    BY <1>1 DEF StageIn
  <1>3. CASE s # r
    <2>1. phase'[r] = phase[r]
      BY <1>3 DEF TypeOK, StopAccepting, LifetimeEnds
    <2>2. QED
      BY <1>2, <2>1 DEF PhaseOf
  <1>4. CASE s = r /\ StopAccepting(s)
    <2>1. phase[r] = "accepting" /\ phase'[r] = "stopped"
      BY <1>4 DEF TypeOK, StopAccepting
    <2>2. Phases(r)!Stop
      BY <1>2, <2>1 DEF Phases!Stop, PhaseOf
    <2>3. QED
      BY <2>2 DEF Phases!Next
  <1>5. CASE s = r /\ LifetimeEnds(s)
    <2>1. phase[r] = "stopped" /\ phase'[r] = "over" /\ Serving(r) = {}
      BY <1>5 DEF TypeOK, LifetimeEnds
    <2>2. \A c \in Connection : StageIn(r)[c] # "running"
      BY <2>1 DEF Serving, At, StageIn
    <2>3. Phases(r)!End
      BY <1>2, <2>1, <2>2 DEF Phases!End, PhaseOf
    <2>4. QED
      BY <2>3 DEF Phases!Next
  <1>6. QED
    BY <1>3, <1>4, <1>5

\* The accept loop, the dispatch and the shutdown are invisible to a replay.
LEMMA ServerIsUnseen ==
    ASSUME ServerInv, NEW r \in Connection,
           \/ \E c \in Connection :
                \/ Accept(c) \/ HeaderFails(c) \/ Dispatch(c)
                \/ \E type \in {"Reader", "Writer"}, id \in ReplayId : HeaderRead(c, type, id)
           \/ \E w \in Worker : ThreadEnds(w) \/ DropSender(w) \/ JoinThread(w)
           \/ Signal \/ StopServer \/ UNCHANGED vars
    PROVE  UNCHANGED <<StageIn(r), PhaseOf(r)>>
  <1> USE DEF serverVars, workerVars, replayVars
  <1> TypeOK
    BY DEF ServerInv
  <1>1. \A d \in Connection : home[d] # NoOne =>
            stage[d] \notin {"none", "accepting", "sending", "queued"}
    BY DEF ServerInv, HomesKept, Settled
  <1>2. UNCHANGED <<home, phase>>
    BY DEF Accept, HeaderFails, Dispatch, HeaderRead, ThreadEnds, DropSender, JoinThread,
           Signal, StopServer, vars
  <1>3. \A d \in Connection : home[d] # NoOne => stage'[d] = stage[d]
    <2>1. ASSUME NEW c \in Connection,
                 \/ Accept(c) \/ HeaderFails(c) \/ Dispatch(c)
                 \/ \E type \in {"Reader", "Writer"}, id \in ReplayId : HeaderRead(c, type, id)
          PROVE  \A d \in Connection : home[d] # NoOne => stage'[d] = stage[d]
      <3>1. /\ stage[c] \in {"none", "accepting", "sending"}
            /\ \E s : stage' = [stage EXCEPT ![c] = s]
        BY <2>1 DEF Accept, HeaderFails, Dispatch, HeaderRead
      <3>2. QED
        BY <1>1, <3>1 DEF TypeOK
    <2>2. CASE StopServer
      BY <1>1, <2>2 DEF StopServer
    <2>3. QED
      BY <2>1, <2>2 DEF ThreadEnds, DropSender, JoinThread, Signal, vars
  <1>4. QED
    BY <1>2, <1>3, UnseenStep

\* To the connections assigned to it, whatever the accept loop, its worker and
\* the other replays do, each replay goes through the phases that ReplayLifecycle
\* implements (Replays::get_or_create_replay, Replay::lifetime).
THEOREM EveryReplayKeepsPhases == Spec => ReplaysKeepPhases
  <1>1. ServerInv /\ [Next]_vars => \A r \in Connection : [Phases(r)!Next]_(Phases(r)!vars)
    <2> SUFFICES ASSUME ServerInv, [Next]_vars, NEW r \in Connection
                 PROVE  [Phases(r)!Next]_<<StageIn(r), PhaseOf(r)>>
      BY DEF Phases!vars
    <2>1. QED
      BY ReceivePhases, ConnectionPhases, LifetimePhases, ServerIsUnseen DEF Next, Terminated
  <1>2. ServerInv /\ [Next]_vars
            => [\A r \in Connection : [Phases(r)!Next]_(Phases(r)!vars)]_vars
    BY <1>1
  <1>3. QED
    BY <1>2, PhasesInit, ServerInvariant, PTL DEF Spec, ReplaysKeepPhases
=============================================================================
