-------------------------- MODULE ReplayLifecycle --------------------------
(***************************************************************************)
(* The life of one Replay (replay/replay.rs): its lifetime task, its       *)
(* forced timeout, the connections Replays hands to it, and the two        *)
(* EmptyCounters (util/empty_counter.rs) that tie them together.           *)
(*                                                                         *)
(* All of these are futures of one for_each_concurrent on one thread.      *)
(* Each action is a stretch of one future between two awaits; which ready  *)
(* future is polled next is left open.                                     *)
(***************************************************************************)
EXTENDS Integers, FiniteSets

CONSTANTS
    Writer, Reader,     \* connections that may be assigned to this replay
    EmptyTime           \* time_with_zero_writers_to_end_replay_s, in ticks

ASSUME LifecycleAssumption ==
    /\ IsFiniteSet(Writer) /\ IsFiniteSet(Reader)
    /\ Writer \cap Reader = {}
    /\ EmptyTime \in Nat \ {0}

Connection == Writer \cup Reader

VARIABLES
    conn,           \* handle_connection, per connection
    writers,        \* writer_connection_count, and whether it ever changed
    readers,        \* reader_connection_count
    life,           \* where regular_lifetime stands
    wait,           \* the wait_until_empty_for it is in
    timeoutTask,    \* timeout(): running or returned
    cancelled,      \* replay_timeout_token, or the server's parent of it
    shouldStop,     \* should_stop_accepting_connections
    finished        \* the merged replay was finalized

counters == <<writers, readers>>
vars == <<conn, counters, life, wait, timeoutTask, cancelled, shouldStop,
          finished>>

Running(C) == {c \in C : conn[c] = "running"}

\* The lifetime future has returned: join! needs both of its parts.
Joined == life = "over" /\ timeoutTask = "returned"

\* Replays holds a Weak: the replay lives while a future holds its Rc.
Alive == ~Joined \/ \E c \in Connection : conn[c] \in {"assigned", "running"}

-----------------------------------------------------------------------------
(* EmptyCounter: a watch channel                                           *)

NewCounter == [count |-> 0, touched |-> FALSE]

\* inc and dec: send marks the value as unseen in every receiver.
Inc(counter) == [count |-> counter.count + 1, touched |-> TRUE]
Dec(counter) == [count |-> counter.count - 1, touched |-> TRUE]

\* A clone of the counter's own receiver, which has seen no send yet.
NewWait(counter) == [last |-> counter.count, unseen |-> counter.touched, slept |-> 0]

Notify(w) == [w EXCEPT !.unseen = TRUE]

\* watcher.changed() is ready.
WaitSeesChange(counter) ==
    /\ wait.unseen
    /\ wait' = [last |-> counter.count, unseen |-> FALSE, slept |-> 0]

\* The sleep branch is ready; the select may prefer it to a ready change.
WaitSleptFor(time) == wait.last = 0 /\ wait.slept >= time

WaitIsOver(counter, time) == WaitSleptFor(time) /\ counter.count = 0

\* The sleep ended, but the count is no longer zero: go round the loop.
WaitGoesOn(counter, time) ==
    /\ WaitSleptFor(time)
    /\ counter.count # 0
    /\ wait' = [wait EXCEPT !.last = counter.count, !.slept = 0]

-----------------------------------------------------------------------------
(* Connections                                                             *)

\* assign_connection_to_replay found this replay in the map.
Assign(c) ==
    /\ conn[c] = "none"
    /\ Alive
    /\ conn' = [conn EXCEPT ![c] = "assigned"]
    /\ UNCHANGED <<counters, life, wait, timeoutTask, cancelled, shouldStop,
                   finished>>

\* handle_connection refuses a connection once the write phase is over.
Reject(c) ==
    /\ conn[c] = "assigned"
    /\ shouldStop
    /\ conn' = [conn EXCEPT ![c] = "rejected"]
    /\ UNCHANGED <<counters, life, wait, timeoutTask, cancelled, shouldStop,
                   finished>>

WaitOnWriters == life \in {"waiting", "draining"}
WaitOnReaders == life = "readers"

\* Mutant of HandleWriter: does not look at should_stop.
HandleWriterAnyTime(c) ==
    /\ conn[c] = "assigned"
    /\ conn' = [conn EXCEPT ![c] = "running"]
    /\ writers' = Inc(writers)
    /\ wait' = IF WaitOnWriters THEN Notify(wait) ELSE wait
    /\ UNCHANGED <<readers, life, timeoutTask, cancelled, shouldStop, finished>>

HandleWriter(c) ==
    /\ conn[c] = "assigned"
    /\ ~shouldStop
    /\ conn' = [conn EXCEPT ![c] = "running"]
    /\ writers' = Inc(writers)
    /\ wait' = IF WaitOnWriters THEN Notify(wait) ELSE wait
    /\ UNCHANGED <<readers, life, timeoutTask, cancelled, shouldStop, finished>>

\* Mutant of HandleReader: only writers are checked against should_stop.
HandleReaderAnyTime(c) ==
    /\ conn[c] = "assigned"
    /\ conn' = [conn EXCEPT ![c] = "running"]
    /\ readers' = Inc(readers)
    /\ wait' = IF WaitOnReaders THEN Notify(wait) ELSE wait
    /\ UNCHANGED <<writers, life, timeoutTask, cancelled, shouldStop, finished>>

HandleReader(c) ==
    /\ conn[c] = "assigned"
    /\ ~shouldStop
    /\ conn' = [conn EXCEPT ![c] = "running"]
    /\ readers' = Inc(readers)
    /\ wait' = IF WaitOnReaders THEN Notify(wait) ELSE wait
    /\ UNCHANGED <<writers, life, timeoutTask, cancelled, shouldStop, finished>>

\* Mutant of WriterEnds: returns early on an error, before the dec.
WriterEndsUncounted(c) ==
    /\ conn[c] = "running"
    /\ conn' = [conn EXCEPT ![c] = "done"]
    /\ UNCHANGED <<counters, wait, life, timeoutTask, cancelled, shouldStop,
                   finished>>

\* ReplayMerger::handle_connection returned: the writer hung up, failed, or
\* the token was cancelled.
WriterEnds(c) ==
    /\ conn[c] = "running"
    /\ conn' = [conn EXCEPT ![c] = "done"]
    /\ writers' = Dec(writers)
    /\ wait' = IF WaitOnWriters THEN Notify(wait) ELSE wait
    /\ UNCHANGED <<readers, life, timeoutTask, cancelled, shouldStop, finished>>

\* Mutant of ReaderEnds: the count is not taken back.
ReaderEndsUncounted(c) ==
    /\ conn[c] = "running"
    /\ conn' = [conn EXCEPT ![c] = "done"]
    /\ UNCHANGED <<counters, wait, life, timeoutTask, cancelled, shouldStop,
                   finished>>

\* ReplaySender::handle_connection returned: the reader hung up, got the
\* whole finished replay, or the token was cancelled.
ReaderEnds(c) ==
    /\ conn[c] = "running"
    /\ conn' = [conn EXCEPT ![c] = "done"]
    /\ readers' = Dec(readers)
    /\ wait' = IF WaitOnReaders THEN Notify(wait) ELSE wait
    /\ UNCHANGED <<writers, life, timeoutTask, cancelled, shouldStop, finished>>

-----------------------------------------------------------------------------
(* regular_lifetime                                                        *)

StartLife ==
    /\ life = "new"
    /\ life' = "waiting"
    /\ wait' = NewWait(writers)
    /\ UNCHANGED <<conn, counters, timeoutTask, cancelled, shouldStop, finished>>

CurrentCounter == IF life = "readers" THEN readers ELSE writers
CurrentTime == IF life = "waiting" THEN EmptyTime ELSE 0

\* One turn of wait_until_empty_for that does not end it.
WaitTurn ==
    /\ life \in {"waiting", "draining", "readers"}
    /\ \/ WaitSeesChange(CurrentCounter)
       \/ WaitGoesOn(CurrentCounter, CurrentTime)
    /\ UNCHANGED <<conn, counters, life, timeoutTask, cancelled, shouldStop,
                   finished>>

\* wait_until_there_were_no_writers_for_a_while returned, by itself or
\* because the token was cancelled.  There is no await before the next wait.
StopAccepting ==
    /\ life = "waiting"
    /\ cancelled \/ WaitIsOver(writers, EmptyTime)
    /\ shouldStop' = TRUE
    /\ life' = "draining"
    /\ wait' = NewWait(writers)
    /\ UNCHANGED <<conn, counters, timeoutTask, cancelled, finished>>

\* writer_connection_count.wait_until_empty returned: finalize, start saving.
FinalizeMerge ==
    /\ life = "draining"
    /\ WaitIsOver(writers, 0)
    /\ finished' = TRUE
    /\ life' = "saving"
    /\ UNCHANGED <<conn, counters, wait, timeoutTask, cancelled, shouldStop>>

\* save_replay returned; it reports no failure to its caller.
SaveReturns ==
    /\ life = "saving"
    /\ life' = "readers"
    /\ wait' = NewWait(readers)
    /\ UNCHANGED <<conn, counters, timeoutTask, cancelled, shouldStop, finished>>

\* Mutant of EndLife: leaves the timeout running.
EndLifeKeepingTimeout ==
    /\ life = "readers"
    /\ WaitIsOver(readers, 0)
    /\ life' = "over"
    /\ UNCHANGED <<conn, counters, wait, timeoutTask, cancelled, shouldStop,
                   finished>>

\* The readers are gone: cancel the token so that timeout() returns too.
EndLife ==
    /\ life = "readers"
    /\ WaitIsOver(readers, 0)
    /\ life' = "over"
    /\ cancelled' = TRUE
    /\ UNCHANGED <<conn, counters, wait, timeoutTask, shouldStop, finished>>

-----------------------------------------------------------------------------
(* Timeout, shutdown, time                                                 *)

\* The forced timeout: cancels the token, and timeout() returns.
ForcedTimeout ==
    /\ timeoutTask = "running"
    /\ cancelled' = TRUE
    /\ timeoutTask' = "returned"
    /\ UNCHANGED <<conn, counters, life, wait, shouldStop, finished>>

TimeoutReturns ==
    /\ timeoutTask = "running"
    /\ cancelled
    /\ timeoutTask' = "returned"
    /\ UNCHANGED <<conn, counters, life, wait, cancelled, shouldStop, finished>>

\* The server's token, the parent of this replay's, is cancelled.
Shutdown ==
    /\ ~cancelled
    /\ cancelled' = TRUE
    /\ UNCHANGED <<conn, counters, life, wait, timeoutTask, shouldStop,
                   finished>>

NextTick(n) == IF n < EmptyTime THEN n + 1 ELSE n

Tick ==
    /\ wait' = IF wait.last = 0 THEN [wait EXCEPT !.slept = NextTick(@)] ELSE wait
    /\ UNCHANGED <<conn, counters, life, timeoutTask, cancelled, shouldStop,
                   finished>>

-----------------------------------------------------------------------------
Init ==
    /\ conn = [c \in Connection |-> "none"]
    /\ writers = NewCounter
    /\ readers = NewCounter
    /\ life = "new"
    /\ wait = NewWait(NewCounter)
    /\ timeoutTask = "running"
    /\ cancelled = FALSE
    /\ shouldStop = FALSE
    /\ finished = FALSE

Lifetime ==
    StartLife \/ WaitTurn \/ StopAccepting \/ FinalizeMerge \/ SaveReturns \/ EndLife

Next ==
    \/ \E c \in Connection : Assign(c) \/ Reject(c)
    \/ \E c \in Writer : HandleWriter(c) \/ WriterEnds(c)
    \/ \E c \in Reader : HandleReader(c) \/ ReaderEnds(c)
    \/ Lifetime
    \/ ForcedTimeout \/ TimeoutReturns \/ Shutdown \/ Tick

Spec == Init /\ [][Next]_vars

\* Time passes and ready futures are polled.  A cancelled token ends every
\* running connection; otherwise a connection ends only if its client does.
\* Nothing forces the timeout: it is hours away.
Fairness ==
    /\ WF_vars(Tick)
    /\ WF_vars(Lifetime)
    /\ WF_vars(TimeoutReturns)
    /\ \A c \in Connection : WF_vars(Reject(c))
    /\ \A c \in Writer : WF_vars(HandleWriter(c)) /\ WF_vars(cancelled /\ WriterEnds(c))
    /\ \A c \in Reader : WF_vars(HandleReader(c)) /\ WF_vars(cancelled /\ ReaderEnds(c))

FairSpec == Spec /\ Fairness

-----------------------------------------------------------------------------
(* Properties                                                              *)

TypeOK ==
    /\ conn \in [Connection -> {"none", "assigned", "running", "done", "rejected"}]
    /\ writers \in [count : Nat, touched : BOOLEAN]
    /\ readers \in [count : Nat, touched : BOOLEAN]
    /\ life \in {"new", "waiting", "draining", "saving", "readers", "over"}
    /\ wait \in [last : Nat, unseen : BOOLEAN, slept : 0 .. EmptyTime]
    /\ timeoutTask \in {"running", "returned"}
    /\ cancelled \in BOOLEAN /\ shouldStop \in BOOLEAN /\ finished \in BOOLEAN

\* The counters are what they count, so dec never underflows and a wait on
\* them is a wait on the connections.
CountersAreExact ==
    /\ TypeOK
    /\ writers.count = Cardinality(Running(Writer))
    /\ readers.count = Cardinality(Running(Reader))

\* Nothing is merged into a finished replay: when finalize runs no writer is
\* being handled, and one that was already assigned but not yet polled never
\* gets past the should_stop check.
NoWriterAfterFinalize == finished => Running(Writer) = {}

StageOf(c) == IF conn[c] \in {"done", "rejected"} THEN "settled" ELSE conn[c]
Stages == [c \in Connection |-> StageOf(c)]
Phase == IF Joined THEN "over" ELSE IF shouldStop THEN "stopped" ELSE "accepting"

\* A replay keeps what ReplayPhases promises of it: it admits connections
\* until it stops, refuses them from then on, and is over only when nobody is
\* being served, whatever counters, watches and tokens say in between.
Phases == INSTANCE ReplayPhases WITH stage <- Stages, phase <- Phase

ImplementsPhases == Phases!Spec

\* Once the token is cancelled (forced timeout or shutdown) the replay ends,
\* whatever the connections and the save were doing.
CancelEndsReplay == cancelled ~> Joined

\* A replay that is left by its writers and, in the end, by its readers ends
\* without any timeout.
EndsByItself ==
    (/\ <>[](\A c \in Writer : conn[c] \notin {"assigned", "running"})
     /\ \A c \in Reader : []<>(conn[c] # "running"))
    => <>Joined
=============================================================================
