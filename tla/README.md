# TLA+ specifications of the FAF replay server

These modules model the replay server of this repository: how replay data of
one game arrives over several connections, is merged into one canonical replay,
shown to readers with a delay, and saved. TLC checks them on small instances;
TLAPS proves the theorems in the `*Proofs` modules for every value of the
constants. All definitions are translated from the code; `PROJECT.json` maps
each one to its lines.

Paths below are relative to `src/src/`.

## The system

A client connects (TCP or websocket) and sends a short header: writer or
reader, and a replay id. The accept loop reads it and hands the connection to
the worker thread of that id. A worker runs any number of replays on a
single-threaded executor, so that **a block without an `await` is atomic**; the
tasks of one replay share its state through `Rc<RefCell<..>>`. Between workers
there is nothing shared but the database and the vault directory.

| Part | State it keeps | Operations | Talks to |
|---|---|---|---|
| Process, `main.rs`, `config.rs`, `util/process.rs` | the settings, the shutdown token | load, start, signal, panic | accept loop |
| Listeners, `accept/producer.rs`, `server/websocket_stream.rs` | two streams; the handshake in progress | accept, handshake | accept loop |
| Accept loop, `server/server.rs` | connections whose header is being read | header read or failed, dispatch, stop | connection, runner |
| Connection, `server/connection.rs`, `accept/header.rs`, `replay/streams/header.rs` | buffered bytes, its header, its label in a gauge | fill and consume, the two header parsers, drop | client, merger |
| Runner, `replay/runner.rs` | threads, one channel of capacity 1 each | dispatch by `id % workers`, join in turn | registry |
| Registry, `replay/replays.rs` | weak map id -> replay | look up, create for a writer, refuse a reader | replays |
| Replay, `replay/replay.rs` | two counters, `should_stop`, a cancellation token | lifetime, forced timeout, handle a connection | merger, sender, saver |
| `util/empty_counter.rs` | a watch channel with a count | inc, dec, wait until empty for a time | replay |
| Merger, `replay/receive/merger.rs` | the strategy | one task per writer: register, read, poll the delay, finish | strategy, delay |
| Delay, `replay/receive/replay_delay.rs` | a queue of positions per writer | push and get the delayed position | writer replay, strategy |
| Strategy, `replay/receive/quorum_merge_strategy.rs` | stalemate or quorum, candidates, reserve, C | callbacks, work loop, finish | writer replays, merged replay |
| Writer and merged replay, `replay/streams/`, `util/buf_deque.rs`, `util/event.rs` | deque of chunks with a discarded prefix, header, delayed length, wakers | append, discard, merge, advance, finish, `poll_read` | sender |
| Sender, `replay/send/sender.rs` | read position | copy to the client until the end | merged replay |
| Saver, `replay/save/`, `database/` | - | queries, create, write, update the database | vault, database |

What is hard in it:

* *Interleaving.* Writers join, send, pause and leave in any order; the strategy
  sees their lengths only in callbacks, while data keeps growing between them.
* *Data given up.* Data that was compared or merged is discarded by whole
  chunks, also ahead of a replay that lags; reading a discarded byte panics, and
  a panic ends the process.
* *Time.* A position is published a delay late although sleeps only have a lower
  bound; the end of the write phase, the forced timeout and a shutdown race.
* *Lifetimes.* A replay is dropped when its last future is, while connections
  with its id may be in a channel, assigned but not yet polled, or retried.
* *Streams of frames.* Four parsers follow each other on one connection, over
  frames that end anywhere and may be empty; what one leaves is the next one's.
* *Slow clients.* A client may stay silent at any point before its header, and
  others must not wait for it.
* *Failure.* Each query and step of a save may fail, or be the last before the
  process dies, and the same id may be recorded again.

What makes each part correct is stated in its module; `PROJECT.json` lists the
hazards with their lines and the properties aimed at them.

## Modules

`QuorumMerge` - the strategy and the connection tasks that drive it. One
variable per field of the code: `task` (where `handle_connection` stands),
`data`, `delayed` and `windowStart` per writer, `matching` is
`data_matching_canon`, `mode`, `candidates`, `quorum` and `reserve` are the two
variants of the strategy, and `canon*` is the merged replay. `notified` is the
`prev_current` of the polling loop. One action per callback, and one per
iteration of `work_state_until_stable` (`EnterStalemate`, `ExitStalemate`);
while that loop, or the rest of a callback, is pending no task runs (`Idle`).
What the code leaves to hash order or to an unstable sort is a nondeterministic
choice: which of several equally long replays form the quorum, the order of the
comparisons, which member the data is copied from.

`MergeContract` - what the `MergeStrategy` trait asks of any strategy, over the
sent data and the canonical stream only. `QuorumMerge!Promise` instantiates it
with the strategy's variables; `ImplementsContract` is checked and proved.

`MergeClaims` - the third claim of the justification that closes the source
file, with the oracle of its fuzz test (`Survivors`: one round per byte, in each
of which a bundle of replays splits and loses its lone offshoot) and a history
variable that tells whether a writer joined after data had arrived.

`MCQuorumMerge`, `MCQuorumMergeClaims` - instances of the two for TLC.

`QuorumMergeProofs`, `ReplayLifecycleProofs`, `ReplayServerProofs`,
`ServerAcceptProofs`, `ReplayDelayProofs`, `ConnectionStreamProofs`,
`ReplayStreamsProofs`, `ReplaySavingProofs` - theorems, see below.

`ReplayDelay` - `update_replay_timestamp` and `read_data`, the two branches of
one `select!`, against a clock. Each byte carries its age, capped at the delay,
so that time needs no bound.

`ReplayLifecycle` - `lifetime`, `timeout`, `handle_connection` and both
`EmptyCounter`s. A counter is its count and whether it was ever sent to; a wait
has the count it last saw, the `unseen` flag of its receiver and the time slept.
An action is a stretch between two awaits; where `select!` has two ready
branches either may be taken.

`ReplayPhases` - the abstract specification of one replay, as the registry and
the connections see it: accepting, stopped, over, and what each phase makes of a
connection. ReplayLifecycle implements it (`ImplementsPhases`), and each replay
of ReplayServer keeps to it (`ReplaysKeepPhases`).

`ServerAccept` - from the start of the process to a connection that has its
header. `Config` is what loading can fail on. Each port has its queue of
connections (`backlog`) and its stream; `handshake` is the future that the
websocket stream's `filter_map` waits for. `active` is the gauge ACTIVE_CONNS,
`label` the header a Connection has. What is behind `handed` is ReplayServer.

`ConnectionStream` - the bytes of one connection. `chunk` is what the
StreamReader or BufReader holds, `todo` the reads the current parser has left,
and `Following` what a value that was read adds to them. `got`, `line`, `header`
and `data` are what was read. `MCConnectionStream` gives it inputs, and the
language of headers as a grammar of its own, not as a sequence of reads.

`ReplayServer` - the way of a connection from the accept loop to a replay, and
the shutdown. A replay is named by the writer that made the registry create it
and is reduced to the phases accepting, stopped and over. It is registered as
long as a future holds its `Rc` (`Held`).

`ReplayVault` - `save_replay`, one action per fallible step, for the successive
replays of one id, with crashes. `file.by`, `file.whole` and `row.by` are
history: whose file it is and whether the encoder was shut down.

`GameRecord` - pure: tables as sets of rows, what each query selects, and what
the json header makes of that. `ReplaySaving` extends ReplayVault and GameRecord:
the fetch is taken apart into its queries, with a database that stops and
resumes answering between any two of them.

`SaveOutcome` - extends ReplaySaving with a history variable, `hit`: whether
something befell the last save that the source lets a replay be lost to. No guard
reads it. `MCReplaySaving` gives both their databases.

`WriterPositions` - the abstract specification of one writer's positions, without
queue, clock or merge: what was received, how much of that is published, and
what the strategy was last told. ReplayDelay implements it
(`ImplementsPositions`).

`ReplayStreams` - `BufDeque` chunk by chunk, the writer replays (with
`discard_all` when one diverges) and the merged replay built on it, `poll_read`
and the event. All writers send the replay whose byte at position i is i + 1, so
a byte from a wrong place shows; any of them may be told that it diverged.

How they fit together. ReplayStreams refines what QuorumMerge keeps of a buffer
(a length and a window start, which move alike: `DiscardMovesTheWindow`) and
offers it the reads that `NoDiscardedRead` shows it stays within. QuorumMerge
takes as a delayed position (`UpdateTimestamp`) any that WriterPositions would
publish, which covers those of ReplayDelay because that implements it, and
assumes that the position catches up (`CatchUp`), which is
ReplayDelay's `EveryByteIsPublished`. ReplayLifecycle justifies
that `Finalize` comes after all writers (`NoWriterAfterFinalize`). ReplayServer
justifies that saves of one id follow each other (`OneReplayPerId`), which
ReplayVault assumes. ServerAccept's step from `handed` on is ReplayServer's
`NobodyIsStuck`, and ConnectionStream's `data` is what the writers of the merge
modules send. Those links are arguments between modules. Four
refinements are formal, checked by TLC or proved or both: QuorumMerge implements
MergeContract, ReplayDelay implements WriterPositions, ReplayLifecycle and each
replay of ReplayServer implement ReplayPhases, and ReplaySaving implements
ReplayVault.

## Runs

A cfg `x.cfg` belongs to run `x` of `PROJECT.json`, which names its module.
`tlc -config x.cfg Module` repeats it.

| Run | Shows |
|---|---|
| `merge_safety` | type invariant; no read of discarded bytes; what `finish()` asserts; the contract; quorums end; finalize is reached |
| `merge_claims` | the invariants written above the two states; exposed data was released by a writer's own delay; the second and third claim, the third with the fuzz test's oracle and byte by byte |
| `replay_delay` | nothing published early after the first round, everything published in the end; positions move and are told as WriterPositions says |
| `replay_lifecycle` | exact counters; no writer after finalize; the phases; the replay ends, by cancellation or by itself |
| `replay_server` | one replay per id; each keeps the phases; nothing left at exit; nobody stuck; shutdown completes |
| `replay_saving` | an available replay has its whole file; no file is overwritten; the json header describes the game; a replay is lost only to an outage that matters, a failing disk, a crash or an earlier file |
| `replay_streams` | deques are windows of the data; unmerged data is held; readers see exactly the released prefix, miss no wake-up, and are served to the end |
| `connection_stream` | no byte is lost, read twice or taken for the end; what is accepted depends on the bytes and not on the frames |
| `server_accept` | the gauge is exact; raw clients never wait for websocket clients, and those only for a handshake |

Where a run names no `TypeOK`, its first invariant contains the module's.

Three more runs each end in a counterexample to a sentence of the repository:

* `merge_third_claim` (`quorum_merge_strategy.rs:604`, "C will never equal a
  replay that split off from others alone"). Not when the others join after the
  first delayed position is set. It holds when all join before any data
  (`LoneReplayNeverWins`).
* `merge_quorum_of_three` (`:353`, "All replays in Q match C."). With
  `merge_quorum_size` of three or more, `common_prefix_from_to` ignores the end
  it is given within a chunk and returns more than an earlier member agreed on.
  With the documented setting of two there is one comparison and no overshoot.
* `websocket_handshake` (`docs/documented_config.yml:22`, connection_accept_timeout_s
  is the time "after which a connection that did not yet send an initial
  connection header is dropped"). The handshake is awaited in `websocket_listen`,
  before that timeout starts. A client that never finishes it stays, and
  `WebsocketsAreAnswered` therefore has to assume that nobody does that.

Other places where the models behave otherwise than a comment suggests, which
no run of their own is spent on:

* `FinalIsSentReplay` fails when the comparison distance is shorter than the data
  a replay may differ in (`quorum_merge_strategy.rs:597`; the source knows that
  the distance is an assumption, line 63). `merge_claims` has a distance that
  spans the data, so it cannot show how replays are spliced beyond one;
  `merge_safety`, where the distance is shorter, shows that the asserts and the
  contract do not depend on it.
* What arrived before the first round of the delay is published at once
  (`replay_delay.rs:34`). `DelayHonoured` speaks of the rounds after it.
* A wait on an EmptyCounter can miss a writer that comes and goes while the sleep
  is already due and `select!` takes the sleep (`empty_counter.rs:4`). Nothing
  wrong follows from it: `NoWriterAfterFinalize` holds.

`QuorumInvariant` departs from the source's comment in one place: lines 354-356
say that C's delayed position *equals* the least of its quorum's, capped; it may
be larger, since it never moves back when a quorum with a slower member forms.
The invariant says "at least".

### Bounds, and why they are enough

* `QuorumMerge`: `MaxData` bounds what a writer sends. Two writers of three
  bytes with a distance of 1 and chunks of 2 let windows, comparison and merge
  points fall on either side of a chunk boundary, and let quorum and stalemate
  alternate several times. Three writers of two bytes with a quorum of two let a
  majority, a loner, a tie, and a member that waits in the reserve all occur;
  the distance then spans the data, as the invariants that speak of all data
  require. Two byte values are enough to agree or differ. `UsizeMax` only has to
  exceed the data. `merge_quorum_of_three` also has the constraint `OneBurst`:
  all data is sent before the first callback.
* `ReplayDelay`: delay 5 and interval 2, so that the quotient is rounded up;
  ages stop at the delay.
* `ReplayLifecycle`: two writers and two readers, an empty time of 2 ticks.
  There is no bound on time. Each connection comes once.
* `ReplayServer`: three connections are the least for a second replay of an id
  to be asked for while one is ending; two ids on two workers; channels are as
  small as in the code.
* `ReplaySaving`: three replays and two blocks of data, so that a save may meet
  the file of an earlier one, finished or not. The databases have the game or
  not, with every combination of a missing map, mod and end.
* `ServerAccept`: two clients per port, the least for one to wait for another.
  Each comes once; a client that comes again is another client.
* `ConnectionStream`: numbers of one byte and limits of 4 and 16 bytes; all short
  replay headers, and longer ones with two players or armies, as long as the limit,
  one longer, and cut anywhere. Every way to cut them into frames is taken.
* `ReplayStreams`: four bytes in chunks of three, a header of three and a copy
  buffer of two. So the buffer cuts the first bytes of a chunk, the chunk's end
  cuts the buffer, and either may be cut by the delayed length; what is received
  or merged at once may end within a chunk, at its end or beyond it.
  `ReadersGetThePrefix` is for all sizes. `UsizeMax` only has to be in a chunk
  past the data. `CHECK_DEADLOCK` is off in
  its cfg only: after everything is sent, read and finished nothing is left to
  do.

### Fairness

* QuorumMerge: the work loop and the rest of a callback run; the polling loop of
  an open connection lets the delayed position catch up (`CatchUp`); finalize
  runs once it can. No fairness on clients: `EventuallyFinished` assumes in its
  premise that connections end.
* ReplayDelay: time passes and a due timer is polled.
* ReplayLifecycle: time passes, ready futures are polled, a cancelled token ends
  the running connections. The forced timeout and the shutdown are not fair. A
  save returns: it awaits only the database and the file system, whose calls are
  taken to return.
* ReplayServer: threads run, the accept timeout fires, and cancellation ends
  connections and the accepting phase. Receiving a header, a client's leaving
  and the end of a write phase are not fair without a shutdown.
* ReplayStreams: loops over chunks end, and a reader that is *ready* is polled.
  Nothing polls one that waits; that is what `NoLostWakeup` and
  `EveryReaderIsServed` are about. One poll is followed by the next, which is to
  say that the reader's client takes what it is sent: `EveryReaderIsServed` is for
  such clients. One that stops taking data, or hangs up, is not served, and keeps
  nobody else waiting (`NoLostWakeup` needs no fairness).
* ServerAccept: the task is polled, the timeout of a header fires and a cancelled
  loop stops. A client need not finish its handshake, nor a worker its
  connection.
* ConnectionStream and ReplaySaving have safety properties only and no fairness.

## Proofs

Each component with theorems has a module `XProofs` that extends it;
`tlapm XProofs.tla` checks one. A theorem holds for every value of the constants
that meets the module's named assumptions, which ask no more than finite sets of
connections, sizes that are positive where the code divides or fills, names
outside the sets they are no member of, and for ReplaySaving tables that are
finite, have numbers as versions and the game id as a key, and map names without
a slash. TLC evaluates each
assumption in the runs.

But for the types of QuorumMerge, no property below is inductive as it stands.
Its invariant, and what it adds:

| Module | Invariant | Theorems |
|---|---|---|
| `QuorumMergeProofs` | `TypeOK` | `TypeCorrect` |
| | `FinishInv` | `FinishIsSafe` |
| | `WindowInv` | `WindowsAreKept` |
| | `ContractInv` | `MergeHonoursContract` |
| | `LoopInv` | `WorkLoopEnds` |
| | `ClaimsInv` | `StalematesAreTrue`, `QuorumsAreTrue`, `NothingIsShownEarly`, `CanonIsASentReplay` |
| | `LoneInv` | `NobodyWinsAgainstTwo`, `LoneReplaysLose` |
| `ReplayLifecycleProofs` | `LifeInv` | `CountersCount`, `MergeIsOver`, `LifecycleImplementsPhases` |
| `ReplayServerProofs` | `ServerInv` | `OneReplay`, `ExitIsClean`, `EveryReplayKeepsPhases` |
| `ServerAcceptProofs` | `AcceptInv` | `GaugesCount` |
| `ReplayDelayProofs` | `DelayInv` | `DelayIsHonoured` |
| | `PositionsInv` | `DelayImplementsPositions` |
| `ConnectionStreamProofs` | `StreamInv` | `BytesAreReadOnce`, `CompleteReplays` |
| `ReplayStreamsProofs` | `BuffersInv`, `ReadersInv` | `DequesHoldTheRun`, `UnmergedIsHeld`, `ReadersGetThePrefix`, `NoReaderLeftAsleep` |
| | none | `DiscardMovesTheWindow` |
| `ReplaySavingProofs` | `VaultInv` | `AvailableIsThere`, `FilesAreNotOverwritten`, `SavingImplementsVault`, `SavedReplaysAreThere`, `SavedFilesAreNotOverwritten` |
| | `QueriesInv` | `SavingTypesAreKept`, `JsonIsRight` |
| | `OutcomeInv` | `LostReplaysHaveACause` |

**Quorum merge.** A chain of invariants, each on top of the one before. The first
three claims of the justification that closes the source file are theorems:
`WorkLoopEnds`, `CanonIsASentReplay` and `LoneReplaysLose`.

`FinishInv` follows the comment in `finish()`, which is an informal proof, and
adds what that takes from "invariants": a replay that is not receiving is fully
delayed (`Settled`); a candidate is longer than C, which with everyone gone
forces `started`; every member of a quorum holds all of C, since a merged prefix
is no longer than its shortest member (`QuorumPrefixIsShort`), so that when all
members have ended their delayed positions reach all of C and `Idle` excludes a
quorum.

`WindowInv` adds where a replay may be: in one set at a time (`Placed`), and
believed to match no more than there is of C, which for a candidate is all of it
(`MatchingIsWithin`). Every discard then stays behind the next comparison. It
needs nothing of the distance or the chunk size.

`ContractInv` adds what the contract's last clause takes: a candidate is filed
under the byte it continues C with, and whatever was dropped differs from C, or
has ended and is no longer (`FiledByNextByte`, `DroppedForGood`); data comes
after a header; and once C is finished nothing is enabled that would change it.

`ClaimsInv` adds that a replay does match what it is believed to match
(`MatchesHold`), that some replay holds all of C, and that what is exposed was
released by a replay that holds it. This is where two conditions enter, which
the theorems state as `Comparable`: a quorum has at most two members, and the
comparison distance spans the data. Both are needed: `merge_quorum_of_three` has
a counterexample without the first, and the second is an assumption that the
source makes too (line 63), without which `FinalIsSentReplay` fails.

`LoopInv` adds to `ContractInv` that some replay is as long as C. So what is
left to merge bounds the work loop: `WorkLeft` falls with each iteration.

`LoneInv` adds to `ClaimsInv` how each byte of C was decided: two writers sent
it after all of C before it, or, when it was merged, all others had been heard,
had left C or had ended, and no two agreed (`Decided`). The second half says
more than `NobodyWinsAlone` so that data which arrives later cannot undo it.
That writers join before there is data is a premise of the theorem (`OnTime`);
`merge_third_claim` is the counterexample without it.

`NobodyWinsAgainstTwo` is the claim byte by byte; `LoneReplaysLose` is what the
fuzz test asserts of the end. At each byte of C the replays that sent C so far
are a bundle of the oracle's, and those that sent this byte too are a part that
it keeps: had it one member and another part two, those two would have outvoted
it. No replay goes on where C ends (`NobodyHasMore`), so the last bundle is left
as it is, C's replay in it. Neither step is an induction of the library's, which
would need an operator as a parameter: `CountTo` states it for a set, from the
least number that is not in it, and `RoundsAreDefined` gets from it the equation
of the oracle's recursive function.

**Lifecycle and server.** `LifeInv` orders the stages: the merge is finalized
exactly from saving on, and no writer runs then. Under the mapping `StageOf`,
`Stages`, `Phase` each step is a phase step or a stutter. `ServerInv` has the
registry find every replay that is held (`LiveIsRegistered`): a replay is looked
up by the worker of its id, and each entry was created for the id it is under.
`ShutdownInOrder` says that an ended thread has an empty, closed channel and
nothing assigned, and that threads are joined in turn.

**Accept loop.** The gauge is a cardinality, so `AcceptInv` has to know that a
client is in a backlog once and in no other place.

**Delay.** `QueueAges` is the heart of it: entry i of the queue was followed by
`Len(queue) - i` rounds that are at least `Sleep` apart, so when the queue is
full what leaves it is at least `Delay` old. `PositionsInv` adds that the queue is
in order, so that dropping its front never moves the published position back,
and that the pair a round compares with is the pair of the last callback, so
that a round without a callback changes nothing the strategy can see.

**Connection stream.** `PartsInOrder` says that each part is empty until its
stage, so that taken and left bytes concatenate; `EndIsTheEnd` ties the end of
input to the end of the payload.

**Buffers.** `BuffersInv` says that a deque holds the run from its window's start
to its end in as few chunks as they need, and that no writer's window starts
after what is merged, unless it has diverged and nothing more is merged from it.
`ReadersInv` adds that what a reader has is a prefix, and
that who waits has a waker and nothing to read.

**Saving.** `VaultInv` adds that the file being written is the current replay's
own and unfinished (`SaverOwnsFile`): without it a write could extend, or a
report describe, the file of an earlier replay. `QueriesInv` adds that a file is
created only from a record all four queries added to. `OutcomeInv` follows a save
that nothing befell: it passes the queries without giving up, finds a file or
creates its own, and when it reports and after that its own is offered. The
queries leave the vault
alone and each other step is one of the vault's, so ReplaySaving implements
ReplayVault. What is computed from a table is proved without induction over it:
a least or greatest version exists because `<` is well-founded on the numbers
(`LeastNumber`).

Only model-checked:

* every liveness property (`QuorumEnds`, `EventuallyFinished`,
  `EveryByteIsPublished`, `CancelEndsReplay`, `EndsByItself`, `NobodyIsStuck`,
  `ShutdownCompletes`, `EveryReaderIsServed`, `TcpClientsAreAnswered`,
  `WebsocketsAreAnswered`): fairness and ENABLED are outside the prover's reach;
* `HeadersAreTheLanguage`, whose language is a finite set of headers written out
  for the instance.

## Not modelled

`replay_path` (a pure function of the id; file names contain the id, so ids never
share a file), the SQL engine and its connection pool, the columns that are
copied into the JSON header as they are, tick counting (it gives a number or
nothing), compression, the sink side of the websocket adapter (it keeps no
state), metrics other than ACTIVE_CONNS, logging, and the settings that are only
passed on, which are CONSTANTS. `worker_threads: 0` is not rejected by
`config.rs` and makes the first dispatch divide by zero; the models assume at
least one worker. A panic inside a task is a crash of the process
(`setup_process_exit_on_panic`), modelled where it matters: at the start, and
where something persists, in ReplayVault.

A later replay of an id whose file exists cannot be saved, and its database
update then marks the id as not available. The model shows this; no document
says what should happen, so no property does either.

## Plan

Done: every stateful part has a module and a run; the core has its contract and
claims, the replay its phases; every safety invariant and action property of the
runs is proved, but for `HeadersAreTheLanguage`. Left:
the links between modules that are arguments so far; of the buffers only the
discard is proved to be QuorumMerge's.
