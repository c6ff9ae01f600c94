---------------------------- MODULE ReplayServer ----------------------------
(***************************************************************************)
(* The way of a connection through the server: the accept loop             *)
(* (server/server.rs), the worker threads and their channels               *)
(* (replay/runner.rs), the registry of running replays of each worker      *)
(* (replay/replays.rs), and the shutdown that winds all of it down.        *)
(*                                                                         *)
(* The accept loop and every worker are threads with an executor of their  *)
(* own.  A step is what one of them does between two awaits.  What happens *)
(* inside a replay is reduced to its phases; ReplayLifecycle has the rest. *)
(***************************************************************************)
EXTENDS Integers, Sequences, FiniteSets

CONSTANTS
    Connection,     \* the connections that clients may make
    ReplayId,       \* the replay ids their headers may name
    Workers         \* config: worker_threads

ASSUME ServerAssumption ==
    /\ IsFiniteSet(Connection)
    /\ ReplayId \subseteq Nat
    /\ Workers \in Nat \ {0}

NoOne == "none"
NoHeader == [type |-> "none", id |-> 0]

ASSUME NoOneAssumption == NoOne \notin Connection

Worker == 0 .. (Workers - 1)

\* A replay is named by the writer that made the registry create it.
VARIABLES
    stage,      \* where each connection is
    header,     \* the header read_initial_header set
    server,     \* run(): "accepting", "joining" its workers, or "stopped"
    joined,     \* how many workers have been joined, in order
    shutdown,   \* shutdown_token, whose children are the replays' tokens
    channel,    \* per worker: the connections in its mpsc channel
    open,       \* per worker: its Sender was not dropped
    thread,     \* per worker: "running" or "ended"
    registry,   \* per worker: id -> the replay its weak map last held
    phase,      \* per replay: the phase of its lifetime
    home        \* per connection: the replay it was assigned to

serverVars == <<server, joined, shutdown>>
workerVars == <<channel, open, thread>>
replayVars == <<registry, phase, home>>
vars == <<stage, header, serverVars, workerVars, replayVars>>

At(s) == {c \in Connection : stage[c] = s}
Settled == {"served", "refused", "dropped"}

\* The futures of a replay that hold its Rc: its lifetime and the connections
\* assigned to it.
Held(r) == \/ phase[r] \in {"accepting", "stopped"}
           \/ \E c \in At("assigned") \cup At("running") : home[c] = r
Live == {r \in Connection : Held(r)}

-----------------------------------------------------------------------------
(* The accept loop                                                         *)

Accept(c) ==
    /\ server = "accepting"
    /\ stage[c] = "none"
    /\ stage' = [stage EXCEPT ![c] = "accepting"]
    /\ UNCHANGED <<header, serverVars, workerVars, replayVars>>

\* read_initial_header failed: no data, bad data, or the accept timeout.
HeaderFails(c) ==
    /\ server = "accepting"
    /\ stage[c] = "accepting"
    /\ stage' = [stage EXCEPT ![c] = "refused"]
    /\ UNCHANGED <<header, serverVars, workerVars, replayVars>>

HeaderRead(c, type, id) ==
    /\ server = "accepting"
    /\ stage[c] = "accepting"
    /\ stage' = [stage EXCEPT ![c] = "sending"]
    /\ header' = [header EXCEPT ![c] = [type |-> type, id |-> id]]
    /\ UNCHANGED <<serverVars, workerVars, replayVars>>

\* Mutant of WorkerOf: spreads connections instead of replays.
WorkerInTurn(c) ==
    Cardinality({d \in Connection : header[d] # NoHeader}) % Workers

\* dispatch_connection
WorkerOf(c) == header[c].id % Workers

\* channel(1)
HasRoom(w) == Len(channel[w]) < 1

\* WorkerThread::dispatch: send waits for room in the channel.
Dispatch(c) ==
    /\ server = "accepting"
    /\ stage[c] = "sending"
    /\ HasRoom(WorkerOf(c))
    /\ stage' = [stage EXCEPT ![c] = "queued"]
    /\ channel' = [channel EXCEPT ![WorkerOf(c)] = Append(@, c)]
    /\ UNCHANGED <<header, serverVars, open, thread, replayVars>>

-----------------------------------------------------------------------------
(* A worker: Replays::handle_connections_and_replays                       *)

\* WeakValueHashMap::get: the replay is there while somebody holds it.
Registered(w, id) == registry[w][id] # NoOne /\ registry[w][id] \in Live

\* assign_connection_to_replay: a reader needs a running replay, a writer
\* creates one (its lifetime becomes a future next to the connection's).
Assign(w, c) ==
    LET id == header[c].id
    IN  \/ /\ Registered(w, id)
           /\ stage' = [stage EXCEPT ![c] = "assigned"]
           /\ home' = [home EXCEPT ![c] = registry[w][id]]
           /\ UNCHANGED <<registry, phase>>
        \/ /\ ~Registered(w, id)
           /\ header[c].type = "Reader"
           /\ stage' = [stage EXCEPT ![c] = "refused"]
           /\ UNCHANGED <<replayVars>>
        \/ /\ ~Registered(w, id)
           /\ header[c].type = "Writer"
           /\ stage' = [stage EXCEPT ![c] = "assigned"]
           /\ home' = [home EXCEPT ![c] = c]
           /\ registry' = [registry EXCEPT ![w][id] = c]
           /\ phase' = [phase EXCEPT ![c] = "accepting"]

\* Mutant of Ready: one future at a time (for_each, not for_each_concurrent).
ReadyWhenIdle(w) ==
    /\ channel[w] # <<>>
    /\ \A c \in At("assigned") \cup At("running") : WorkerOf(c) # w

\* for_each_concurrent(None): no limit on the futures.
Ready(w) == channel[w] # <<>>

Receive(w) ==
    /\ thread[w] = "running"
    /\ Ready(w)
    /\ Assign(w, Head(channel[w]))
    /\ channel' = [channel EXCEPT ![w] = Tail(@)]
    /\ UNCHANGED <<header, serverVars, open, thread>>

\* Mutant of Handle: should_stop_accepting_connections is not looked at.
HandleInAnyPhase(c) ==
    /\ stage[c] = "assigned"
    /\ stage' = [stage EXCEPT ![c] = "running"]
    /\ UNCHANGED <<header, serverVars, workerVars, replayVars>>

\* Replay::handle_connection, first poll.
Handle(c) ==
    /\ stage[c] = "assigned"
    /\ stage' = [stage EXCEPT ![c] =
                    IF phase[home[c]] = "accepting" THEN "running" ELSE "refused"]
    /\ UNCHANGED <<header, serverVars, workerVars, replayVars>>

\* The client is done, or the replay's token was cancelled.
ConnectionEnds(c) ==
    /\ stage[c] = "running"
    /\ stage' = [stage EXCEPT ![c] = "served"]
    /\ UNCHANGED <<header, serverVars, workerVars, replayVars>>

Serving(r) == {c \in At("running") : home[c] = r}

\* The replay had no writers for a while, timed out, or is told to shut down.
StopAccepting(r) ==
    /\ phase[r] = "accepting"
    /\ phase' = [phase EXCEPT ![r] = "stopped"]
    /\ UNCHANGED <<stage, header, serverVars, workerVars, registry, home>>

\* The replay is merged and saved and its readers are gone.
LifetimeEnds(r) ==
    /\ phase[r] = "stopped"
    /\ Serving(r) = {}
    /\ phase' = [phase EXCEPT ![r] = "over"]
    /\ UNCHANGED <<stage, header, serverVars, workerVars, registry, home>>

\* Mutant of AllDone: does not wait for lifetimes.
ConnectionsDone(w) ==
    \A c \in At("assigned") \cup At("running") : WorkerOf(c) # w

\* Every future of the worker has completed.
AllDone(w) ==
    /\ \A c \in At("assigned") \cup At("running") : WorkerOf(c) # w
    /\ \A id \in ReplayId : ~Registered(w, id)

\* The stream ended and its futures completed: block_on returns.
ThreadEnds(w) ==
    /\ thread[w] = "running"
    /\ ~open[w] /\ channel[w] = <<>>
    /\ AllDone(w)
    /\ thread' = [thread EXCEPT ![w] = "ended"]
    /\ UNCHANGED <<stage, header, serverVars, channel, open, replayVars>>

-----------------------------------------------------------------------------
(* Shutdown                                                                *)

\* A signal cancels the token.
Signal ==
    /\ ~shutdown
    /\ shutdown' = TRUE
    /\ UNCHANGED <<stage, header, server, joined, workerVars, replayVars>>

\* cancellable drops the accept loop: every connection in it is closed.
StopServer ==
    /\ server = "accepting"
    /\ shutdown
    /\ server' = "joining"
    /\ stage' = [c \in Connection |->
                    IF stage[c] \in {"accepting", "sending"} THEN "dropped"
                    ELSE stage[c]]
    /\ UNCHANGED <<header, joined, shutdown, workerVars, replayVars>>

\* Mutant of CloseChannel: joins without dropping the Sender.
KeepChannel(w) == UNCHANGED open

CloseChannel(w) == open' = [open EXCEPT ![w] = FALSE]

\* WorkerThread::join, for one worker after the other: drop the Sender ...
DropSender(w) ==
    /\ server = "joining" /\ joined = w
    /\ open[w]
    /\ CloseChannel(w)
    /\ UNCHANGED <<stage, header, serverVars, channel, thread, replayVars>>

\* ... and wait for the thread.
JoinThread(w) ==
    /\ server = "joining" /\ joined = w
    /\ thread[w] = "ended"
    /\ joined' = w + 1
    /\ server' = IF joined' = Workers THEN "stopped" ELSE server
    /\ UNCHANGED <<stage, header, shutdown, workerVars, replayVars>>

-----------------------------------------------------------------------------
Init ==
    /\ stage = [c \in Connection |-> "none"]
    /\ header = [c \in Connection |-> NoHeader]
    /\ server = "accepting"
    /\ joined = 0
    /\ shutdown = FALSE
    /\ channel = [w \in Worker |-> <<>>]
    /\ open = [w \in Worker |-> TRUE]
    /\ thread = [w \in Worker |-> "running"]
    /\ registry = [w \in Worker |-> [id \in ReplayId |-> NoOne]]
    /\ phase = [c \in Connection |-> "none"]
    /\ home = [c \in Connection |-> NoOne]

\* The process exits; connections that never arrived are not its concern.
Terminated == server = "stopped" /\ UNCHANGED vars

Next ==
    \/ \E c \in Connection :
        \/ Accept(c) \/ HeaderFails(c) \/ Dispatch(c)
        \/ Handle(c) \/ ConnectionEnds(c)
        \/ StopAccepting(c) \/ LifetimeEnds(c)
        \/ \E type \in {"Reader", "Writer"}, id \in ReplayId : HeaderRead(c, type, id)
    \/ \E w \in Worker :
        \/ Receive(w) \/ ThreadEnds(w) \/ DropSender(w) \/ JoinThread(w)
    \/ Signal \/ StopServer \/ Terminated

Spec == Init /\ [][Next]_vars

\* Threads run and the accept timeout fires.  A cancelled token ends the
\* running connections and the accepting phase; nothing else forces them to.
\* Saving ends, so a lifetime does once nothing is being served.
Fairness ==
    /\ \A c \in Connection :
        /\ WF_vars(HeaderFails(c))
        /\ WF_vars(Dispatch(c))
        /\ WF_vars(Handle(c))
        /\ WF_vars(shutdown /\ ConnectionEnds(c))
        /\ WF_vars(shutdown /\ StopAccepting(c))
        /\ WF_vars(LifetimeEnds(c))
    /\ \A w \in Worker :
        WF_vars(Receive(w)) /\ WF_vars(ThreadEnds(w)) /\ WF_vars(DropSender(w))
                            /\ WF_vars(JoinThread(w))
    /\ WF_vars(StopServer)

FairSpec == Spec /\ Fairness

-----------------------------------------------------------------------------
(* Properties                                                              *)

TypeOK ==
    /\ stage \in [Connection -> {"none", "accepting", "sending", "queued",
                                 "assigned", "running"} \cup Settled]
    /\ header \in [Connection -> {NoHeader} \cup
                        [type : {"Reader", "Writer"}, id : ReplayId]]
    /\ server \in {"accepting", "joining", "stopped"}
    /\ joined \in 0 .. Workers
    /\ shutdown \in BOOLEAN
    /\ channel \in [Worker -> Seq(Connection)]
    /\ \A w \in Worker : Len(channel[w]) <= 1
    /\ open \in [Worker -> BOOLEAN]
    /\ thread \in [Worker -> {"running", "ended"}]
    /\ registry \in [Worker -> [ReplayId -> Connection \cup {NoOne}]]
    /\ phase \in [Connection -> {"none", "accepting", "stopped", "over"}]
    /\ home \in [Connection -> Connection \cup {NoOne}]

\* However connections race, retry and come back after a replay ended, there
\* is never a second replay of the same id beside one that is still held, on
\* this worker or another: two would merge apart and fight over one file.
OneReplayPerId ==
    /\ TypeOK
    /\ \A r, s \in Live : r # s => header[r].id # header[s].id

\* What a replay knows of the connections, and its phase to them.
StageIn(r) ==
    [c \in Connection |-> IF home[c] # r THEN "none"
                          ELSE IF stage[c] \in Settled THEN "settled" ELSE stage[c]]
PhaseOf(r) == IF phase[r] = "none" THEN "accepting" ELSE phase[r]

\* Each replay is one of ReplayPhases to the connections assigned to it.
Phases(r) == INSTANCE ReplayPhases WITH stage <- StageIn(r), phase <- PhaseOf(r)

ReplaysKeepPhases ==
    /\ \A r \in Connection : Phases(r)!Init
    /\ [][\A r \in Connection : [Phases(r)!Next]_(Phases(r)!vars)]_vars

\* When run() returns, the process may exit: no replay is unfinished (unsaved)
\* and no connection that reached a worker is still unsettled.
NothingLeftAtExit ==
    server = "stopped" =>
        /\ Live = {}
        /\ \A c \in Connection : stage[c] \in Settled \cup {"none"}

\* A full channel, a slow worker or other clients never keep a connection
\* that sent its header, or failed to, from being settled or served.
NobodyIsStuck ==
    \A c \in Connection :
        stage[c] \in {"accepting", "sending", "queued", "assigned"}
            ~> stage[c] \in Settled \cup {"running"}

\* After SIGINT or SIGTERM the server stops, although it joins one worker
\* after the other while the rest still wait on their open channels.
ShutdownCompletes == shutdown ~> server = "stopped"
=============================================================================
