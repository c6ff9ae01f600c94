---------------------------- MODULE SaveOutcome ----------------------------
(***************************************************************************)
(* What becomes of a replay by the time save_replay returns                *)
(* (replay/save/saver.rs).  A history variable remembers whether anything  *)
(* befell the save from outside that the source lets a replay be lost to;  *)
(* the queries, the file and the row do not depend on it.                  *)
(***************************************************************************)
EXTENDS ReplaySaving

VARIABLE hit    \* something befell the last save

\* The save waits for an answer that it cannot do without.
Depends == (step = "fetch" /\ query # "mods") \/ step = "report"

\* The database was down when that was asked, the directory or the file failed,
\* or the process died.  It is none of these that the query for the mod's
\* versions fails, nor that the file cannot be created because there is one.
Befalls ==
    \/ Depends /\ ~up /\ <<step, query>>' # <<step, query>>
    \/ CreateFails /\ file = NoFile
    \/ WriteFails
    \/ Crash

OutcomeInit == SavingInit /\ hit = FALSE
OutcomeNext ==
    /\ SavingNext
    /\ hit' = (replay' = replay /\ (hit \/ Befalls))

OutcomeSpec == OutcomeInit /\ [][OutcomeNext]_<<savingVars, hit>>

-----------------------------------------------------------------------------
\* A replay that somebody sent, of a game the database knows, is lost to an
\* outage, a failing disk or a crash only: when its save is over it is offered,
\* or an earlier one has its file.  No map, no mod, a mod without a table and an
\* outage that only the query for versions meets are no reasons ("Saving
\* anyway", queries.rs).  And a replay that is lost to the database leaves no
\* file, so that it cannot cost the next one of its id as well.
LostForCauseOnly ==
    /\ step = "idle" /\ hasHeader /\ GameStatRow(db, Id) # {} /\ ~hit =>
           /\ file # NoFile
           /\ file.by = replay => row.by = replay /\ row.available
    /\ file # NoFile /\ file.by = replay => step # "fetch" /\ query = "mods"
=============================================================================
