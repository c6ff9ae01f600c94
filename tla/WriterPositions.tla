-------------------------- MODULE WriterPositions --------------------------
(***************************************************************************)
(* What is known of the two positions of one writer replay, how much was   *)
(* received and how much of that is delayed (replay/streams/               *)
(* writer_replay.rs), and what the merge strategy is told of them.         *)
(* ReplayDelay implements it with a queue of positions and a clock.        *)
(***************************************************************************)
EXTENDS Integers

VARIABLES
    open,       \* the connection may still send
    length,     \* WriterReplay.data_len()
    delayed,    \* WriterReplay.delayed_data_len
    told        \* the <<length, delayed>> of the last callback

vars == <<open, length, delayed, told>>

Init == open = TRUE /\ length = 0 /\ delayed = 0 /\ told = <<0, 0>>

Receive ==
    /\ open
    /\ length' = length + 1
    /\ UNCHANGED <<open, delayed, told>>

\* The delayed position never moves back (the debug_assert of
\* set_delayed_data_len), and the strategy is told of every change.
Publish(position) ==
    /\ open
    /\ position \in delayed .. length
    /\ told # <<length, position>>
    /\ delayed' = position
    /\ told' = <<length, position>>
    /\ UNCHANGED <<open, length>>

End ==
    /\ open
    /\ open' = FALSE
    /\ delayed' = length
    /\ told' = <<length, length>>
    /\ UNCHANGED length

Next == Receive \/ (\E position \in delayed .. length : Publish(position)) \/ End

Spec == Init /\ [][Next]_vars
=============================================================================
