---------------------------- MODULE ReplayPhases ----------------------------
(***************************************************************************)
(* What one replay promises to the registry and the server around it       *)
(* (replay/replay.rs as replay/replays.rs uses it): its lifetime goes      *)
(* through three phases, and which one it is in decides what becomes of a  *)
(* connection.  ReplayLifecycle implements it with counters, watches and a *)
(* token; ReplayServer uses it for each of its replays.                    *)
(***************************************************************************)
CONSTANT Connection

VARIABLES
    stage,      \* per connection: "none", "assigned", "running" or "settled"
    phase       \* "accepting", "stopped" or "over"

vars == <<stage, phase>>

\* Somebody holds the replay's Rc, so that the registry still finds it.
Held == phase # "over" \/ \E c \in Connection : stage[c] \in {"assigned", "running"}

Move(c, from, to) ==
    /\ stage[c] = from
    /\ stage' = [stage EXCEPT ![c] = to]
    /\ UNCHANGED phase

Assign(c) == Held /\ Move(c, "none", "assigned")
Admit(c) == phase = "accepting" /\ Move(c, "assigned", "running")
Refuse(c) == phase # "accepting" /\ Move(c, "assigned", "settled")
Leave(c) == Move(c, "running", "settled")

Stop == phase = "accepting" /\ phase' = "stopped" /\ UNCHANGED stage

\* The lifetime ends only when nobody is being served.
End ==
    /\ phase = "stopped"
    /\ \A c \in Connection : stage[c] # "running"
    /\ phase' = "over"
    /\ UNCHANGED stage

Init == stage = [c \in Connection |-> "none"] /\ phase = "accepting"

Next ==
    \/ \E c \in Connection : Assign(c) \/ Admit(c) \/ Refuse(c) \/ Leave(c)
    \/ Stop \/ End

Spec == Init /\ [][Next]_vars
=============================================================================
