---------------------------- MODULE ReplayVault ----------------------------
(***************************************************************************)
(* Saving the replays of one id (replay/save/saver.rs, directory.rs,       *)
(* writer.rs): the steps of save_replay, each of which may fail or be the  *)
(* last before the process dies, the file in the vault, and the row of     *)
(* game_stats in the database.                                             *)
(*                                                                         *)
(* A replay that ended is forgotten, so a late writer makes the server     *)
(* record, and save, another one under the same id.  They follow each      *)
(* other (ReplayServer!OneReplayPerId), across restarts too.  Files of     *)
(* other ids have other names.                                             *)
(***************************************************************************)
EXTENDS Naturals

CONSTANTS
    MaxReplays,     \* bound: replays ever recorded under this id
    MaxBlocks       \* bound: blocks of compressed data in a replay

ASSUME VaultAssumption == MaxReplays \in Nat /\ MaxBlocks \in Nat \ {0}

VARIABLES
    step,       \* where save_replay stands: its next await, or "idle"
    replay,     \* which replay is being saved, in order of recording
    hasHeader,  \* it has a header (else nobody sent anything useful)
    blocks,     \* blocks its file will have, after the json line
    saved,      \* replay_saved
    file,       \* the file of this id in the vault
    row         \* replay_ticks and replay_available of game_stats

replayVars == <<replay, hasHeader, blocks>>
vars == <<step, replayVars, saved, file, row>>

\* Files and rows say which replay they hold or describe; 0 is none.
NoFile == [by |-> 0, blocks |-> 0, whole |-> FALSE]
NullRow == [by |-> 0, ticks |-> FALSE, available |-> FALSE]

-----------------------------------------------------------------------------
\* The merged replay was finalized; save_replay is called.
BeginSave(header, n) ==
    /\ step = "idle"
    /\ replay < MaxReplays
    /\ replay' = replay + 1
    /\ hasHeader' = header
    /\ blocks' = n
    /\ saved' = FALSE
    /\ step' = IF header THEN "fetch" ELSE "report"
    /\ UNCHANGED <<file, row>>

\* An early return of save_replay_to_disk, from any of its fallible steps.
GiveUp ==
    /\ step' = "report"
    /\ saved' = FALSE
    /\ UNCHANGED <<replayVars, file, row>>

\* Mutant of WriteFails: the result of write_replay_file is ignored.
WriteFailsUnnoticed ==
    /\ step \in {"write", "finish"}
    /\ step' = "report"
    /\ saved' = TRUE
    /\ UNCHANGED <<replayVars, file, row>>

FetchFails == step = "fetch" /\ GiveUp
CreateFails == step = "create" /\ GiveUp
WriteFails == step \in {"write", "finish"} /\ GiveUp

\* ReplayJsonHeader::from_id_and_db
Fetch ==
    /\ step = "fetch"
    /\ step' = "create"
    /\ UNCHANGED <<replayVars, saved, file, row>>

\* Mutant of CreateFile: truncates a file that is there (no create_new).
CreateOrTruncate ==
    /\ step = "create"
    /\ file' = [by |-> replay, blocks |-> 0, whole |-> FALSE]
    /\ step' = "write"
    /\ UNCHANGED <<replayVars, saved, row>>

\* touch_and_return_file: create_new fails when the file exists.
CreateFile ==
    /\ step = "create"
    /\ file = NoFile
    /\ file' = [by |-> replay, blocks |-> 0, whole |-> FALSE]
    /\ step' = "write"
    /\ UNCHANGED <<replayVars, saved, row>>

\* Mutant of WriteBlock: the end of the data goes unseen.
WriteBlockForever ==
    /\ step = "write"
    /\ file' = [file EXCEPT !.blocks = @ + 1]
    /\ UNCHANGED <<step, replayVars, saved, row>>

\* write_replay_file: the json line, then what the encoder gives out.
WriteBlock ==
    /\ step = "write"
    /\ file' = [file EXCEPT !.blocks = @ + 1]
    /\ step' = IF file'.blocks = blocks + 1 THEN "finish" ELSE "write"
    /\ UNCHANGED <<replayVars, saved, row>>

\* encoder.shutdown: the last frame is out; save_replay_to_disk returns true.
FinishFile ==
    /\ step = "finish"
    /\ file' = [file EXCEPT !.whole = TRUE]
    /\ saved' = TRUE
    /\ step' = "report"
    /\ UNCHANGED <<replayVars, row>>

\* count_ticks and update_game_stats.  Ticks are unknown without a header or
\* when the body does not parse.
Report(ticks) ==
    /\ step = "report"
    /\ row' = [by |-> replay, ticks |-> ticks /\ hasHeader, available |-> saved]
    /\ step' = "idle"
    /\ UNCHANGED <<replayVars, saved, file>>

\* The update failed; that is only logged.
ReportFails ==
    /\ step = "report"
    /\ step' = "idle"
    /\ UNCHANGED <<replayVars, saved, file, row>>

\* The process dies (a panic exits it, or it is killed) and is restarted.
Crash ==
    /\ step # "idle"
    /\ step' = "idle"
    /\ UNCHANGED <<replayVars, saved, file, row>>

-----------------------------------------------------------------------------
Init ==
    /\ step = "idle"
    /\ replay = 0
    /\ hasHeader = FALSE
    /\ blocks = 0
    /\ saved = FALSE
    /\ file = NoFile
    /\ row = NullRow

Saving ==
    \/ Fetch \/ CreateFile \/ WriteBlock \/ FinishFile
    \/ FetchFails \/ CreateFails \/ WriteFails
    \/ ReportFails \/ \E ticks \in BOOLEAN : Report(ticks)

Begin == \E header \in BOOLEAN, n \in 1 .. MaxBlocks : BeginSave(header, n)

\* The bound on replays is reached.
Terminated == step = "idle" /\ replay = MaxReplays /\ UNCHANGED vars

Next == Begin \/ Saving \/ Crash \/ Terminated

Spec == Init /\ [][Next]_vars

-----------------------------------------------------------------------------
(* Properties                                                              *)

TypeOK ==
    /\ step \in {"idle", "fetch", "create", "write", "finish", "report"}
    /\ replay \in 0 .. MaxReplays
    /\ hasHeader \in BOOLEAN
    /\ blocks \in 0 .. MaxBlocks
    /\ saved \in BOOLEAN
    /\ file \in [by : 0 .. MaxReplays, blocks : 0 .. MaxBlocks + 1, whole : BOOLEAN]
    /\ row \in [by : 0 .. MaxReplays, ticks : BOOLEAN, available : BOOLEAN]

\* The database offers a replay only if its file is there, finished, and the
\* one whose ticks the row gives, whatever failed or died in between and
\* whichever replays of the same id were recorded since.
AvailableIsTheWholeFile ==
    row.available => file.whole /\ file.by = row.by

\* A file of the vault has one author: a later replay of the same id, or the
\* same server after a restart, never writes over it.
OneAuthorPerFile ==
    [][file # NoFile => file'.by = file.by /\ (file.whole => file' = file)]_vars
=============================================================================
