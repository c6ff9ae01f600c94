---------------------------- MODULE ReplayDelay ----------------------------
(***************************************************************************)
(* The delay of one connection's data (replay/receive/replay_delay.rs):    *)
(* update_replay_timestamp pushes the data length into a bounded queue     *)
(* every sleep_s and publishes the oldest entry, while read_data appends   *)
(* in the other branch of the same select.                                 *)
(*                                                                         *)
(* Time is discrete and never bounded: each byte carries its age, each     *)
(* wait the time it lasted, and both stop counting once they are as large  *)
(* as any comparison needs.  A sleep may last longer than sleep_s.         *)
(***************************************************************************)
EXTENDS Integers, Sequences

CONSTANTS
    Delay,      \* delay_s, in clock ticks
    Sleep,      \* update_interval_s, in clock ticks
    MaxData     \* bound: bytes the connection sends

ASSUME DelayAssumption ==
    /\ Delay \in Nat \ {0}
    /\ Sleep \in Nat \ {0}
    /\ MaxData \in Nat

VARIABLES
    open,       \* the select of handle_connection is still running
    age,        \* age of each received byte: data_len is Len(age)
    queue,      \* PositionHistory.queue
    slept,      \* time since the last round; the first one is due at once
    prev,       \* <<prev_current, prev_delayed>>
    delayed,    \* WriterReplay.delayed_data_len
    told,       \* <<data_len, delayed_data_len>> the strategy last saw
    headStart   \* history: data_len when the first round ran

vars == <<open, age, queue, slept, prev, delayed, told, headStart>>

Capped(n, cap) == IF n >= cap THEN cap ELSE n

\* Mutant of HistorySize: forgets the entry that was just pushed.
HistorySizeWithoutLast == (Delay + Sleep - 1) \div Sleep

\* history_size: ceil(delay_s / sleep_s) + 1
HistorySize == (Delay + Sleep - 1) \div Sleep + 1

\* push_and_get_delayed: the queue after it; its front is the result.
Pushed(position) ==
    LET longer == Append(queue, position)
    IN  IF Len(longer) > HistorySize THEN Tail(longer) ELSE longer

Init ==
    /\ open = TRUE
    /\ age = <<>>
    /\ queue = <<>>
    /\ slept = Sleep
    /\ prev = <<0, 0>>
    /\ delayed = 0
    /\ told = <<0, 0>>
    /\ headStart = 0

RoundIsDue == slept = Sleep
IsFirstRound == queue = <<>>

\* Both branches of the select are polled before the task first waits.
Tick ==
    /\ open => ~IsFirstRound
    /\ age' = [i \in 1 .. Len(age) |-> Capped(age[i] + 1, Delay)]
    /\ slept' = Capped(slept + 1, Sleep)
    /\ UNCHANGED <<open, queue, prev, delayed, told, headStart>>

\* read_data: the strategy is not told.
ReadData ==
    /\ open
    /\ Len(age) < MaxData
    /\ age' = Append(age, 0)
    /\ UNCHANGED <<open, queue, slept, prev, delayed, told, headStart>>

\* Mutant of Round: nothing is pushed while no data arrives.
RoundOnNewData ==
    /\ open /\ RoundIsDue
    /\ LET current == Len(age)
           pair == <<current, Pushed(current)[1]>>
       IN  IF current # prev[1] \/ IsFirstRound
           THEN queue' = Pushed(current) /\ delayed' = pair[2] /\ prev' = pair
                /\ told' = pair
           ELSE UNCHANGED <<queue, delayed, prev, told>>
    /\ headStart' = IF IsFirstRound THEN Len(age) ELSE headStart
    /\ slept' = 0
    /\ UNCHANGED <<open, age>>

\* Mutant of Round: tells the strategy of new data only.
RoundTellsOfDataOnly ==
    /\ open /\ RoundIsDue
    /\ LET current == Len(age)
           pair == <<current, Pushed(current)[1]>>
       IN  /\ queue' = Pushed(current)
           /\ delayed' = pair[2]
           /\ told' = IF pair[1] # prev[1] THEN pair ELSE told
           /\ prev' = pair
    /\ headStart' = IF IsFirstRound THEN Len(age) ELSE headStart
    /\ slept' = 0
    /\ UNCHANGED <<open, age>>

\* One iteration of update_replay_timestamp, up to its sleep.
Round ==
    /\ open
    /\ RoundIsDue
    /\ LET current == Len(age)
           pair == <<current, Pushed(current)[1]>>
       IN  /\ queue' = Pushed(current)
           /\ delayed' = pair[2]
           /\ told' = IF pair # prev THEN pair ELSE told
           /\ prev' = pair
    /\ headStart' = IF IsFirstRound THEN Len(age) ELSE headStart
    /\ slept' = 0
    /\ UNCHANGED <<open, age>>

\* The select ended: set_final_replay_timestamp, then the last callback.
Close ==
    /\ open
    /\ open' = FALSE
    /\ delayed' = Len(age)
    /\ told' = <<Len(age), Len(age)>>
    /\ UNCHANGED <<age, queue, slept, prev, headStart>>

Next == Tick \/ ReadData \/ Round \/ Close

Spec == Init /\ [][Next]_vars

\* Time passes, and the runtime polls a branch whose timer has fired.
FairSpec == Spec /\ WF_vars(Tick) /\ WF_vars(Round)

-----------------------------------------------------------------------------
(* Properties                                                              *)

TypeOK ==
    /\ open \in BOOLEAN
    /\ age \in Seq(0 .. Delay)
    /\ queue \in Seq(Nat) /\ Len(queue) <= HistorySize
    /\ slept \in 0 .. Sleep
    /\ prev \in Nat \X Nat
    /\ delayed \in 0 .. Len(age)
    /\ told \in Nat \X Nat
    /\ headStart \in 0 .. Len(age)

\* Until the connection ends, a published byte either is Delay old or had
\* already arrived when the first round ran: however late the timers fire,
\* the queue is long enough.
DelayHonoured ==
    /\ TypeOK
    /\ open => \A i \in (headStart + 1) .. delayed : age[i] = Delay

\* What QuorumMerge takes the delay for: the published position only moves
\* forward and within the data (set_delayed_data_len asserts it), and the test
\* against the previous pair hides no change of it from the strategy.
Positions == INSTANCE WriterPositions WITH length <- Len(age)

ImplementsPositions == Positions!Spec

\* Every byte is published in the end, even if the writer stalls or stops
\* sending: what quorum_delayed_position relies on.
EveryByteIsPublished ==
    \A n \in 1 .. MaxData : Len(age) >= n ~> delayed >= n
=============================================================================
