------------------------- MODULE ReplaySavingProofs -------------------------
(***************************************************************************)
(* Proofs about ReplayVault, for any number and size of replays: what the  *)
(* database offers is there and whole, and no file is ever overwritten.    *)
(* And that ReplaySaving implements ReplayVault, so that both hold         *)
(* whatever the queries of a save do.                                      *)
(***************************************************************************)
EXTENDS SaveOutcome, SequenceTheorems, FunctionTheorems, FiniteSetTheorems, NaturalsInduction, TLAPS

-----------------------------------------------------------------------------
(* The vault                                                               *)

\* The file being written is this replay's own and not finished; replay_saved
\* is true only after it is.
SaverOwnsFile ==
    /\ step \in {"write", "finish"} => file.by = replay /\ ~file.whole
    /\ step = "write" => file.blocks <= blocks
    /\ step \in {"fetch", "create", "write", "finish"} => ~saved
    /\ saved => file.by = replay /\ file.whole
    /\ step \notin {"idle"} => replay > 0

VaultInv == TypeOK /\ SaverOwnsFile /\ AvailableIsTheWholeFile

\* Before the first save there is no file and no row.
LEMMA InitEstablishesVaultInv == Init => VaultInv
  <1> SUFFICES ASSUME Init
               PROVE  VaultInv
    OBVIOUS
  <1>1. NoFile \in [by : 0 .. MaxReplays, blocks : 0 .. MaxBlocks + 1, whole : BOOLEAN]
    BY VaultAssumption DEF NoFile
  <1>2. /\ NullRow \in [by : 0 .. MaxReplays, ticks : BOOLEAN, available : BOOLEAN]
        /\ ~NullRow.available
    BY VaultAssumption DEF NullRow
  <1>3. TypeOK
    <2>1. 0 \in 0 .. MaxReplays /\ 0 \in 0 .. MaxBlocks
      BY VaultAssumption
    <2>2. /\ file \in [by : 0 .. MaxReplays, blocks : 0 .. MaxBlocks + 1, whole : BOOLEAN]
          /\ row \in [by : 0 .. MaxReplays, ticks : BOOLEAN, available : BOOLEAN]
      BY <1>1, <1>2 DEF Init
    <2>3. QED
      BY <2>1, <2>2 DEF Init, TypeOK
  <1>4. QED
    BY <1>2, <1>3 DEF Init, VaultInv, SaverOwnsFile, AvailableIsTheWholeFile

\* A new save starts from nothing; file and row are those of the last one.
LEMMA BeginSaveKeepsVaultInv ==
    ASSUME VaultInv, NEW header \in BOOLEAN, NEW n \in 1 .. MaxBlocks,
           BeginSave(header, n)
    PROVE  VaultInv'
  <1>1. replay' \in 0 .. MaxReplays /\ replay' > 0 /\ n \in 0 .. MaxBlocks
    BY VaultAssumption DEF BeginSave, VaultInv, TypeOK
  <1>2. step' \in {"fetch", "report"}
    BY DEF BeginSave
  <1>3. TypeOK'
    <2>1. hasHeader' \in BOOLEAN /\ blocks' \in 0 .. MaxBlocks /\ saved' \in BOOLEAN
      BY <1>1 DEF BeginSave
    <2>2. file' = file /\ row' = row
      BY DEF BeginSave
    <2>3. QED
      BY <1>1, <1>2, <2>1, <2>2 DEF VaultInv, TypeOK
  <1>4. SaverOwnsFile'
    BY <1>1, <1>2 DEF BeginSave, SaverOwnsFile
  <1>5. AvailableIsTheWholeFile'
    BY DEF BeginSave, VaultInv, AvailableIsTheWholeFile
  <1>6. QED
    BY <1>3, <1>4, <1>5 DEF VaultInv

\* A save that gives up leaves what was on disk as it was.
LEMMA GiveUpKeepsVaultInv ==
    ASSUME VaultInv, GiveUp, step # "idle"
    PROVE  VaultInv'
  BY DEF GiveUp, VaultInv, TypeOK, SaverOwnsFile, AvailableIsTheWholeFile, replayVars

\* create_new refuses a name that exists, so a file gets one author.
LEMMA CreateFileKeepsVaultInv ==
    ASSUME VaultInv, CreateFile
    PROVE  VaultInv'
  <1>1. ~row.available
    BY DEF CreateFile, VaultInv, AvailableIsTheWholeFile, NoFile
  <1>2. TypeOK'
    BY VaultAssumption DEF CreateFile, VaultInv, TypeOK, replayVars
  <1>3. SaverOwnsFile'
    BY DEF CreateFile, VaultInv, TypeOK, SaverOwnsFile, replayVars
  <1>4. AvailableIsTheWholeFile'
    BY <1>1 DEF CreateFile, AvailableIsTheWholeFile
  <1>5. QED
    BY <1>2, <1>3, <1>4 DEF VaultInv

\* A block goes only to the file its own save created.
LEMMA WriteBlockKeepsVaultInv ==
    ASSUME VaultInv, WriteBlock
    PROVE  VaultInv'
  <1>1. /\ file' = [file EXCEPT !.blocks = @ + 1]
        /\ file \in [by : 0 .. MaxReplays, blocks : 0 .. MaxBlocks + 1, whole : BOOLEAN]
        /\ file.by = replay /\ ~file.whole
        /\ file.blocks <= blocks /\ blocks \in 0 .. MaxBlocks
    BY DEF WriteBlock, VaultInv, TypeOK, SaverOwnsFile
  <1>2. /\ file' \in [by : 0 .. MaxReplays, blocks : 0 .. MaxBlocks + 1, whole : BOOLEAN]
        /\ file'.by = replay /\ ~file'.whole
        /\ file'.blocks = file.blocks + 1
    BY <1>1, VaultAssumption
  <1>3. ~row.available
    BY <1>1 DEF VaultInv, AvailableIsTheWholeFile
  <1>4. TypeOK'
    BY <1>2 DEF WriteBlock, VaultInv, TypeOK, replayVars
  <1>5. SaverOwnsFile'
    <2>1. file'.blocks # blocks + 1 => file'.blocks <= blocks
      BY <1>1, <1>2, VaultAssumption
    <2>2. QED
      BY <1>2, <2>1 DEF WriteBlock, VaultInv, TypeOK, SaverOwnsFile, replayVars
  <1>6. AvailableIsTheWholeFile'
    BY <1>3 DEF WriteBlock, AvailableIsTheWholeFile
  <1>7. QED
    BY <1>4, <1>5, <1>6 DEF VaultInv

\* The last write completes the file its own save created.
LEMMA FinishFileKeepsVaultInv ==
    ASSUME VaultInv, FinishFile
    PROVE  VaultInv'
  <1>1. /\ file' = [file EXCEPT !.whole = TRUE]
        /\ file \in [by : 0 .. MaxReplays, blocks : 0 .. MaxBlocks + 1, whole : BOOLEAN]
        /\ file.by = replay /\ ~file.whole
    BY DEF FinishFile, VaultInv, TypeOK, SaverOwnsFile
  <1>2. /\ file' \in [by : 0 .. MaxReplays, blocks : 0 .. MaxBlocks + 1, whole : BOOLEAN]
        /\ file'.by = replay /\ file'.whole
    BY <1>1
  <1>3. ~row.available
    BY <1>1 DEF VaultInv, AvailableIsTheWholeFile
  <1>4. QED
    BY <1>2, <1>3
    DEF FinishFile, VaultInv, TypeOK, SaverOwnsFile, AvailableIsTheWholeFile, replayVars

\* The row says available only when the file was completed before.
LEMMA ReportKeepsVaultInv ==
    ASSUME VaultInv, NEW ticks \in BOOLEAN, Report(ticks)
    PROVE  VaultInv'
  <1>1. /\ row' = [by |-> replay, ticks |-> ticks /\ hasHeader, available |-> saved]
        /\ replay \in 0 .. MaxReplays /\ hasHeader \in BOOLEAN /\ saved \in BOOLEAN
        /\ saved => file.by = replay /\ file.whole
    BY DEF Report, VaultInv, TypeOK, SaverOwnsFile
  <1>2. /\ row' \in [by : 0 .. MaxReplays, ticks : BOOLEAN, available : BOOLEAN]
        /\ row'.available => file.whole /\ file.by = row'.by
    BY <1>1
  <1>3. QED
    BY <1>2
    DEF Report, VaultInv, TypeOK, SaverOwnsFile, AvailableIsTheWholeFile, replayVars

\* So the invariant is inductive.
LEMMA NextKeepsVaultInv == VaultInv /\ [Next]_vars => VaultInv'
  <1> SUFFICES ASSUME VaultInv, [Next]_vars
               PROVE  VaultInv'
    OBVIOUS
  <1> USE DEF VaultInv, TypeOK, SaverOwnsFile, AvailableIsTheWholeFile
  <1>1. CASE Begin
    BY <1>1, BeginSaveKeepsVaultInv DEF Begin
  <1>2. CASE Fetch
    BY <1>2 DEF Fetch, replayVars
  <1>3. CASE CreateFile
    BY <1>3, CreateFileKeepsVaultInv
  <1>4. CASE WriteBlock
    BY <1>4, WriteBlockKeepsVaultInv
  <1>5. CASE FinishFile
    BY <1>5, FinishFileKeepsVaultInv
  <1>6. CASE FetchFails \/ CreateFails \/ WriteFails
    BY <1>6, GiveUpKeepsVaultInv DEF FetchFails, CreateFails, WriteFails
  <1>7. CASE \E ticks \in BOOLEAN : Report(ticks)
    BY <1>7, ReportKeepsVaultInv
  <1>8. CASE ReportFails
    BY <1>8 DEF ReportFails, replayVars
  <1>9. CASE Crash
    BY <1>9 DEF Crash, replayVars
  <1>10. CASE Terminated \/ UNCHANGED vars
    BY <1>10 DEF Terminated, vars, replayVars
  <1>11. QED
    BY <1>1, <1>2, <1>3, <1>4, <1>5, <1>6, <1>7, <1>8, <1>9, <1>10
    DEF Next, Saving

\* Whatever step fails and wherever the process dies, a replay the database
\* calls available has its whole file in the vault (save_replay reports only
\* after save_replay_to_disk returned).
THEOREM AvailableIsThere == Spec => []AvailableIsTheWholeFile
  <1>1. VaultInv => AvailableIsTheWholeFile
    BY DEF VaultInv
  <1>2. QED
    BY InitEstablishesVaultInv, NextKeepsVaultInv, <1>1, PTL DEF Spec

\* touch_and_return_file creates a file once; nothing but its own, unfinished
\* save ever writes to it.
THEOREM FilesAreNotOverwritten == Spec => OneAuthorPerFile
  <1>1. VaultInv /\ [Next]_vars =>
            [file # NoFile => file'.by = file.by /\ (file.whole => file' = file)]_vars
    <2> SUFFICES ASSUME VaultInv, Next, file # NoFile
                 PROVE  file'.by = file.by /\ (file.whole => file' = file)
      OBVIOUS
    <2>1. CASE WriteBlock \/ FinishFile
      <3>1. ~file.whole
        BY <2>1 DEF WriteBlock, FinishFile, VaultInv, SaverOwnsFile
      <3>2. file'.by = file.by
        BY <2>1 DEF WriteBlock, FinishFile, VaultInv, TypeOK
      <3>3. QED
        BY <3>1, <3>2
    <2>2. CASE file' = file
      BY <2>2
    <2>3. QED
      BY <2>1, <2>2
      DEF Next, Begin, BeginSave, Saving, Fetch, CreateFile, FetchFails, CreateFails,
          WriteFails, GiveUp, Report, ReportFails, Crash, Terminated, vars
  <1>2. QED
    BY InitEstablishesVaultInv, NextKeepsVaultInv, <1>1, PTL
    DEF Spec, OneAuthorPerFile

-----------------------------------------------------------------------------
(* Saves, query by query                                                   *)

\* The queries of from_id_and_db before the last, and the database itself, do
\* not touch the vault.
LEMMA QueriesLeaveTheVault ==
    ASSUME QueryStats \/ QueryCount \/ QueryTeams \/ StopAnswering \/ ResumeAnswering
    PROVE  UNCHANGED vars
  BY DEF QueryStats, QueryCount, QueryTeams, StopAnswering, ResumeAnswering

\* The steps that save a replay are those of ReplayVault.
LEMMA SavingStepsAreVaultSteps ==
    ASSUME QueryMods \/ QueryFails \/ WriteLineOrBlock \/ UpdateGameStats \/ OtherSteps
    PROVE  Next
  <1>1. CASE QueryMods
    BY <1>1 DEF QueryMods, Next, Saving
  <1>2. CASE QueryFails
    BY <1>2 DEF QueryFails, Next, Saving
  <1>3. CASE WriteLineOrBlock
    BY <1>3 DEF WriteLineOrBlock, Next, Saving
  <1>4. CASE UpdateGameStats
    BY <1>4 DEF UpdateGameStats, Next, Saving
  <1>5. CASE OtherSteps
    BY <1>5 DEF OtherSteps, Next, Saving
  <1>6. QED
    BY <1>1, <1>2, <1>3, <1>4, <1>5

\* Whatever the queries answer and whenever the database stops answering, a
\* save as saver.rs runs it query by query is one of ReplayVault.
THEOREM SavingImplementsVault == SavingSpec => Spec
  <1>1. SavingInit => Init
    BY DEF SavingInit
  <1>2. [SavingNext]_savingVars => [Next]_vars
    <2> SUFFICES ASSUME [SavingNext]_savingVars
                 PROVE  [Next]_vars
      OBVIOUS
    <2>1. CASE \E header \in BOOLEAN, n \in 1 .. MaxBlocks : StartSave(header, n)
      BY <2>1 DEF StartSave, Next, Begin
    <2>2. CASE QueryStats \/ QueryCount \/ QueryTeams \/ StopAnswering \/ ResumeAnswering
      BY <2>2, QueriesLeaveTheVault
    <2>3. CASE QueryMods \/ QueryFails \/ WriteLineOrBlock \/ UpdateGameStats \/ OtherSteps
      BY <2>3, SavingStepsAreVaultSteps
    <2>4. CASE UNCHANGED savingVars
      BY <2>4 DEF savingVars
    <2>5. QED
      BY <2>1, <2>2, <2>3, <2>4 DEF SavingNext
  <1>3. QED
    BY <1>1, <1>2, PTL DEF SavingSpec, Spec

\* A replay the database calls available has its whole file, also when the
\* database fails between any two steps of its save.
THEOREM SavedReplaysAreThere == SavingSpec => []AvailableIsTheWholeFile
  BY SavingImplementsVault, AvailableIsThere, PTL

\* No file is written over, also when a save begins while the database is down
\* and another comes after it.
THEOREM SavedFilesAreNotOverwritten == SavingSpec => OneAuthorPerFile
  BY SavingImplementsVault, FilesAreNotOverwritten, PTL

-----------------------------------------------------------------------------
(* The queries of a save                                                   *)

\* What the queries before the next one left in the record.
IsRecord(r) ==
    /\ r = [mod |-> r.mod, ended |-> r.ended, mapname |-> r.mapname,
            players |-> r.players, teams |-> r.teams, versions |-> r.versions]
    /\ r.players \in Nat

HasStats(r) ==
    \E g \in GameStatRow(db, Id) : r.mod = g.mod /\ r.mapname = UnmangleMapName(g.map)

HasCount(r) == r.players = PlayerCount(db, Id)
HasTeams(r) == r.teams = Teams(TeamPlayers(db, Id))
HasVersions(r) == r.versions = NoVersions \/ r.versions = ModVersions(db, r.mod)
Describes(r) == HasStats(r) /\ HasCount(r) /\ HasTeams(r) /\ HasVersions(r)

\* A file is written only from a record that all queries added to.
QueriesInv ==
    /\ up \in BOOLEAN /\ query \in {"stats", "count", "teams", "mods"}
    /\ db \in Database /\ IsRecord(record) /\ json.players \in Nat
    /\ step = "fetch" /\ query # "stats" => HasStats(record)
    /\ step = "fetch" /\ query \in {"teams", "mods"} => HasCount(record)
    /\ step = "fetch" /\ query = "mods" => HasTeams(record)
    /\ step \in {"create", "write", "finish"} => Describes(record)
    /\ step = "write" /\ file.blocks > 0 => Describes(json)
    /\ step = "finish" \/ file.whole => Describes(json)

\* Nothing has been asked or written yet.
LEMMA InitQueriesInv == SavingInit => QueriesInv
  <1> SUFFICES ASSUME SavingInit PROVE QueriesInv
    OBVIOUS
  <1>1. IsRecord(NoRecord)
    BY DEF IsRecord, NoRecord
  <1>2. ~file.whole /\ step = "idle"
    BY DEF SavingInit, Init, NoFile
  <1>3. QED
    BY <1>1, <1>2 DEF SavingInit, QueriesInv, IsRecord

\* The players are counted in a table, so their count is a number.
LEMMA PlayerCountIsNumber ==
    ASSUME db \in Database
    PROVE  PlayerCount(db, Id) \in Nat
  <1>1. IsFiniteSet({p \in db.players : p.game = Id})
    BY DatabaseAssumption, FS_Subset
  <1>2. QED
    BY <1>1, FS_CardinalityType DEF PlayerCount

\* Each query adds its answer to those before it.
LEMMA AskKeepsQueriesInv ==
    ASSUME VaultInv, QueriesInv, QueryStats \/ QueryCount \/ QueryTeams
    PROVE  QueriesInv'
  <1>0. db' = db /\ up' = up /\ json' = json /\ step = "fetch" /\ step' = step /\ file' = file
    BY DEF QueryStats, QueryCount, QueryTeams, Asks, dbVars, vars
  <1>1. CASE QueryStats
    <2>1. PICK g \in GameStatRow(db, Id) :
            record' = [record EXCEPT !.mod = g.mod, !.mapname = UnmangleMapName(g.map),
                                     !.ended = IF g.ended = NULL THEN "now" ELSE g.ended]
      BY <1>1 DEF QueryStats
    <2>2. query' = "count"
      BY <1>1 DEF QueryStats
    <2>3. IsRecord(record') /\ record'.mod = g.mod /\ record'.mapname = UnmangleMapName(g.map)
      BY <2>1 DEF QueriesInv, IsRecord
    <2>4. HasStats(record)'
      BY <1>0, <2>3 DEF HasStats, GameStatRow
    <2>5. QED
      BY <1>0, <2>2, <2>3, <2>4
      DEF QueriesInv, IsRecord, Describes, HasStats, HasCount, HasTeams, HasVersions
  <1>2. CASE QueryCount
    <2>1. record' = [record EXCEPT !.players = PlayerCount(db, Id)] /\ query = "count"
          /\ query' = "teams"
      BY <1>2 DEF QueryCount, Asks
    <2>2. /\ IsRecord(record') /\ record'.mod = record.mod
          /\ record'.mapname = record.mapname /\ record'.players = PlayerCount(db, Id)
      BY <2>1, PlayerCountIsNumber DEF QueriesInv, IsRecord
    <2>3. HasStats(record)' /\ HasCount(record)'
      BY <1>0, <2>1, <2>2 DEF QueriesInv, HasStats, HasCount
    <2>4. QED
      BY <1>0, <2>1, <2>2, <2>3
      DEF QueriesInv, IsRecord, Describes, HasStats, HasCount, HasTeams, HasVersions
  <1>3. CASE QueryTeams
    <2>1. record' = [record EXCEPT !.teams = Teams(TeamPlayers(db, Id))] /\ query = "teams"
          /\ query' = "mods"
      BY <1>3 DEF QueryTeams, Asks
    <2>2. /\ IsRecord(record') /\ record'.mod = record.mod
          /\ record'.mapname = record.mapname /\ record'.players = record.players
          /\ record'.teams = Teams(TeamPlayers(db, Id))
      BY <2>1 DEF QueriesInv, IsRecord
    <2>3. HasStats(record)' /\ HasCount(record)' /\ HasTeams(record)'
      BY <1>0, <2>1, <2>2 DEF QueriesInv, HasStats, HasCount, HasTeams
    <2>4. QED
      BY <1>0, <2>1, <2>2, <2>3
      DEF QueriesInv, IsRecord, Describes, HasStats, HasCount, HasTeams, HasVersions
  <1>4. QED
    BY <1>1, <1>2, <1>3

\* The last query completes the record.
LEMMA QueryModsKeepsQueriesInv ==
    ASSUME VaultInv, QueriesInv, QueryMods
    PROVE  QueriesInv'
  <1>1. /\ query = "mods" /\ step = "fetch" /\ step' = "create" /\ file' = file
        /\ db' = db /\ up' = up /\ query' = query /\ json' = json
        /\ record' = [record EXCEPT !.versions =
                         IF up /\ record.mod # NULL THEN ModVersions(db, record.mod)
                                                    ELSE NoVersions]
    BY DEF QueryMods, Asks, Fetch, dbVars
  <1>2. /\ IsRecord(record') /\ record'.mod = record.mod
        /\ record'.mapname = record.mapname /\ record'.players = record.players
        /\ record'.teams = record.teams
        /\ record'.versions = NoVersions \/ record'.versions = ModVersions(db, record.mod)
    BY <1>1 DEF QueriesInv, IsRecord
  <1>3. Describes(record)'
    BY <1>1, <1>2
    DEF QueriesInv, Describes, HasStats, HasCount, HasTeams, HasVersions
  <1>4. QED
    BY <1>1, <1>2, <1>3
    DEF QueriesInv, IsRecord, Describes, HasStats, HasCount, HasTeams, HasVersions

\* The json line is the first that goes into the file.
LEMMA WriteKeepsQueriesInv ==
    ASSUME VaultInv, QueriesInv, WriteLineOrBlock
    PROVE  QueriesInv'
  <1>1. /\ step = "write" /\ step' \in {"write", "finish"}
        /\ file' = [file EXCEPT !.blocks = @ + 1]
        /\ json' = (IF file.blocks = 0 THEN record ELSE json)
        /\ db' = db /\ up' = up /\ query' = query /\ record' = record
    BY DEF WriteLineOrBlock, WriteBlock, dbVars, fetchVars
  <1>2. file \in [by : 0 .. MaxReplays, blocks : 0 .. MaxBlocks + 1, whole : BOOLEAN]
        /\ ~file.whole
    BY <1>1 DEF VaultInv, TypeOK, SaverOwnsFile
  <1>3. file.blocks = 0 \/ file.blocks > 0
    BY <1>2, VaultAssumption
  <1>4. Describes(json)' /\ json'.players \in Nat
    BY <1>1, <1>3
    DEF QueriesInv, IsRecord, Describes, HasStats, HasCount, HasTeams, HasVersions
  <1>5. QED
    BY <1>1, <1>4
    DEF QueriesInv, IsRecord, Describes, HasStats, HasCount, HasTeams, HasVersions

\* What the other steps leave alone.
LEMMA OthersKeepQueriesInv ==
    ASSUME VaultInv, QueriesInv, UNCHANGED <<db, query, record, json>>, up' \in BOOLEAN,
           \/ step' \in {"idle", "report"} /\ file' = file
           \/ UNCHANGED vars
           \/ CreateFile
           \/ FinishFile
    PROVE  QueriesInv'
  <1> USE DEF QueriesInv, IsRecord, Describes, HasStats, HasCount, HasTeams, HasVersions
  <1>1. CASE step' \in {"idle", "report"} /\ file' = file
    BY <1>1
  <1>2. CASE UNCHANGED vars
    BY <1>2 DEF vars
  <1>3. CASE CreateFile
    <2>1. step = "create" /\ step' = "write" /\ file'.blocks = 0 /\ ~file'.whole
      BY <1>3 DEF CreateFile
    <2>2. ~(0 > 0)
      OBVIOUS
    <2>3. QED
      BY <2>1, <2>2
  <1>4. CASE FinishFile
    BY <1>4 DEF FinishFile
  <1>5. QED
    BY <1>1, <1>2, <1>3, <1>4

\* So a record is complete when it is used, whatever fails.
LEMMA NextKeepsQueriesInv ==
    VaultInv /\ QueriesInv /\ [SavingNext]_savingVars => QueriesInv'
  <1> SUFFICES ASSUME VaultInv, QueriesInv, [SavingNext]_savingVars PROVE QueriesInv'
    OBVIOUS
  <1>0. up \in BOOLEAN
    BY DEF QueriesInv
  <1>1. CASE \E header \in BOOLEAN, n \in 1 .. MaxBlocks : StartSave(header, n)
    <2>1. /\ record' = NoRecord /\ query' = "stats" /\ json' = json /\ db' = db /\ up' = up
          /\ file' = file /\ step' \in {"fetch", "report"}
      BY <1>1 DEF StartSave, BeginSave, dbVars
    <2>2. IsRecord(NoRecord)
      BY DEF IsRecord, NoRecord
    <2>3. QED
      BY <2>1, <2>2
      DEF QueriesInv, IsRecord, Describes, HasStats, HasCount, HasTeams, HasVersions
  <1>2. CASE QueryFails
    BY <1>0, <1>2, OthersKeepQueriesInv DEF QueryFails, FetchFails, GiveUp, dbVars, fetchVars
  <1>3. CASE UpdateGameStats
    BY <1>0, <1>3, OthersKeepQueriesInv
    DEF UpdateGameStats, Report, ReportFails, dbVars, fetchVars
  <1>4. CASE OtherSteps
    BY <1>0, <1>4, OthersKeepQueriesInv
    DEF OtherSteps, CreateFails, WriteFails, GiveUp, Crash, Terminated, dbVars, fetchVars
  <1>5. CASE StopAnswering \/ ResumeAnswering
    BY <1>5, OthersKeepQueriesInv DEF StopAnswering, ResumeAnswering, fetchVars
  <1>6. CASE UNCHANGED savingVars
    BY <1>0, <1>6, OthersKeepQueriesInv DEF savingVars, dbVars, fetchVars
  <1>7. QED
    BY <1>1, <1>2, <1>3, <1>4, <1>5, <1>6, AskKeepsQueriesInv, QueryModsKeepsQueriesInv,
       WriteKeepsQueriesInv
    DEF SavingNext

\* Both invariants hold while a save runs query by query.
LEMMA SavingInvariant == SavingSpec => [](VaultInv /\ QueriesInv)
  <1>1. SavingSpec => []VaultInv
    <2>1. Spec => []VaultInv
      BY InitEstablishesVaultInv, NextKeepsVaultInv, PTL DEF Spec
    <2>2. QED
      BY <2>1, SavingImplementsVault, PTL
  <1>2. QED
    BY <1>1, InitQueriesInv, NextKeepsQueriesInv, PTL DEF SavingSpec

\* Every variable of a save keeps its type; the counts in the record and in the
\* json header are numbers (json_header.rs).
THEOREM SavingTypesAreKept == SavingSpec => []SavingTypeOK
  <1>1. VaultInv /\ QueriesInv => SavingTypeOK
    BY DEF VaultInv, QueriesInv, IsRecord, SavingTypeOK
  <1>2. QED
    BY <1>1, SavingInvariant, PTL

-----------------------------------------------------------------------------
(* What replays are lost to                                                *)

\* A file is no later than the replay that is saved, and is its own only from
\* create on, when all queries have been asked.
FileInOrder ==
    /\ file.by <= replay
    /\ step \in {"fetch", "create"} => file.by < replay
    /\ step \in {"create", "write", "finish"} => query = "mods"
    /\ file # NoFile /\ file.by = replay => step # "fetch" /\ query = "mods"

\* Between the end of save_replay_to_disk and the end of save_replay, and then
\* until the next save: what the replay can have been lost to.
FileOrReason ==
    step \in {"report", "idle"} /\ hasHeader /\ GameStatRow(db, Id) # {} /\ ~hit =>
        /\ file # NoFile
        /\ file.by = replay =>
               IF step = "report" THEN saved ELSE row.by = replay /\ row.available

OutcomeInv == FileInOrder /\ FileOrReason

\* There is no file, and no replay to lose.
LEMMA InitOutcomeInv == OutcomeInit => OutcomeInv
  BY DEF OutcomeInit, SavingInit, Init, NoFile, OutcomeInv, FileInOrder, FileOrReason

\* Each step keeps the order; the file is created after the last query.
LEMMA FileStaysInOrder ==
    ASSUME VaultInv, FileInOrder, SavingNext
    PROVE  FileInOrder'
  <1> USE DEF FileInOrder
  <1>0. /\ file \in [by : 0 .. MaxReplays, blocks : 0 .. MaxBlocks + 1, whole : BOOLEAN]
        /\ replay \in Nat /\ MaxReplays \in Nat /\ file.by \in Nat
        /\ step # "idle" => replay > 0
    BY VaultAssumption DEF VaultInv, TypeOK, SaverOwnsFile
  <1>1. CASE \E header \in BOOLEAN, n \in 1 .. MaxBlocks : StartSave(header, n)
    <2>1. /\ replay' = replay + 1 /\ file' = file /\ query' = "stats"
          /\ step' \in {"fetch", "report"}
      BY <1>1 DEF StartSave, BeginSave
    <2>2. file'.by < replay' /\ file'.by <= replay' /\ file'.by # replay'
      BY <1>0, <2>1
    <2>3. QED
      BY <2>1, <2>2
  <1>2. CASE QueryStats \/ QueryCount \/ QueryTeams
    <2>1. step = "fetch" /\ UNCHANGED <<step, replay, file>>
      BY <1>2 DEF QueryStats, QueryCount, QueryTeams, Asks, vars, replayVars
    <2>2. file.by # replay
      BY <1>0, <2>1
    <2>3. QED
      BY <2>1, <2>2
  <1>3. CASE QueryMods
    <2>1. /\ step = "fetch" /\ step' = "create" /\ query = "mods"
          /\ UNCHANGED <<query, replay, file>>
      BY <1>3 DEF QueryMods, Asks, Fetch, replayVars
    <2>2. QED
      BY <2>1
  <1>4. CASE QueryFails \/ (OtherSteps /\ (CreateFails \/ WriteFails))
    <2>1. /\ step' = "report" /\ step \in {"fetch", "create", "write", "finish"}
          /\ UNCHANGED <<query, replay, file>>
      BY <1>4 DEF QueryFails, FetchFails, OtherSteps, CreateFails, WriteFails, GiveUp,
                  replayVars, fetchVars
    <2>2. step \in {"fetch", "create"} => file.by # replay
      BY <1>0
    <2>3. QED
      BY <2>1, <2>2
  <1>5. CASE OtherSteps /\ CreateFile
    <2>1. /\ step = "create" /\ step' = "write" /\ file'.by = replay
          /\ UNCHANGED <<query, replay>>
      BY <1>5 DEF OtherSteps, CreateFile, replayVars, fetchVars
    <2>2. QED
      BY <1>0, <2>1
  <1>6. CASE WriteLineOrBlock \/ (OtherSteps /\ FinishFile)
    <2>1. /\ step \in {"write", "finish"} /\ step' \in {"write", "finish", "report"}
          /\ file'.by = file.by /\ UNCHANGED <<query, replay>>
      BY <1>0, <1>6 DEF WriteLineOrBlock, WriteBlock, OtherSteps, FinishFile, replayVars, fetchVars
    <2>2. QED
      BY <2>1
  <1>7. CASE UpdateGameStats \/ (OtherSteps /\ Crash)
    <2>1. step # "idle" /\ step' = "idle" /\ UNCHANGED <<query, replay, file>>
      BY <1>7 DEF UpdateGameStats, Report, ReportFails, OtherSteps, Crash, replayVars, fetchVars
    <2>2. step = "fetch" => file.by # replay
      BY <1>0
    <2>3. QED
      BY <2>1, <2>2
  <1>8. CASE (OtherSteps /\ Terminated) \/ StopAnswering \/ ResumeAnswering
    BY <1>8 DEF OtherSteps, Terminated, StopAnswering, ResumeAnswering, vars, replayVars, fetchVars
  <1>9. QED
    BY <1>1, <1>2, <1>3, <1>4, <1>5, <1>6, <1>7, <1>8 DEF SavingNext, OtherSteps

\* A step that ends the save on disk, or the save, without a file of the replay
\* that is or will be offered, is one that something befalls.
LEMMA ReasonsAreKept ==
    ASSUME VaultInv, FileInOrder, FileOrReason, OutcomeNext
    PROVE  FileOrReason'
  <1> USE DEF FileOrReason
  <1>0. /\ file \in [by : 0 .. MaxReplays, blocks : 0 .. MaxBlocks + 1, whole : BOOLEAN]
        /\ replay \in Nat /\ MaxReplays \in Nat /\ file.by \in Nat
        /\ step # "idle" => replay > 0
        /\ hit' = (replay' = replay /\ (hit \/ Befalls))
    BY VaultAssumption DEF VaultInv, TypeOK, SaverOwnsFile, OutcomeNext
  <1>1. CASE \E header \in BOOLEAN, n \in 1 .. MaxBlocks : StartSave(header, n)
    BY <1>1 DEF StartSave, BeginSave
  <1>2. CASE QueryStats \/ QueryCount \/ QueryTeams \/ QueryMods
    BY <1>2 DEF QueryStats, QueryCount, QueryTeams, QueryMods, Asks, Fetch, vars
  <1>3. CASE QueryFails
    <2>1. /\ step = "fetch" /\ step' = "report" /\ query # "mods"
          /\ ~up \/ GameStatRow(db, Id) = {}
          /\ UNCHANGED <<db, query, replay>>
      BY <1>3 DEF QueryFails, FetchFails, GiveUp, replayVars, dbVars, fetchVars
    <2>2. CASE ~up
      <3>1. Befalls
        BY <2>1, <2>2 DEF Befalls, Depends
      <3>2. QED
        BY <1>0, <2>1, <3>1
    <2>3. QED
      BY <2>1, <2>2
  <1>4. CASE OtherSteps /\ CreateFails
    <2>1. /\ step = "create" /\ UNCHANGED <<file, replay>>
          /\ CreateFails
      BY <1>4 DEF OtherSteps, CreateFails, GiveUp, replayVars
    <2>2. file = NoFile => hit'
      BY <1>0, <2>1 DEF Befalls
    <2>3. file'.by # replay'
      BY <1>0, <2>1 DEF FileInOrder
    <2>4. QED
      BY <2>1, <2>2, <2>3
  <1>5. CASE OtherSteps /\ (WriteFails \/ Crash)
    <2>1. replay' = replay /\ Befalls
      BY <1>5 DEF OtherSteps, WriteFails, GiveUp, Crash, replayVars, Befalls
    <2>2. QED
      BY <1>0, <2>1
  <1>6. CASE OtherSteps /\ CreateFile
    BY <1>6 DEF OtherSteps, CreateFile
  <1>7. CASE WriteLineOrBlock
    BY <1>7 DEF WriteLineOrBlock, WriteBlock
  <1>8. CASE OtherSteps /\ FinishFile
    <2>1. step' = "report" /\ saved' /\ file'.by = replay /\ replay > 0
      BY <1>0, <1>8 DEF OtherSteps, FinishFile, VaultInv, SaverOwnsFile
    <2>2. file' # NoFile
      BY <2>1 DEF NoFile
    <2>3. QED
      BY <2>1, <2>2
  <1>9. CASE UpdateGameStats
    <2>1. step = "report" /\ step' = "idle" /\ UNCHANGED <<db, file, replay, hasHeader, saved>>
      BY <1>9 DEF UpdateGameStats, Report, ReportFails, replayVars, dbVars
    <2>2. CASE up
      <3>1. row'.by = replay /\ row'.available = saved
        BY <1>9, <2>2 DEF UpdateGameStats, Report
      <3>2. ~hit' => ~hit
        BY <1>0, <2>1
      <3>3. QED
        BY <2>1, <3>1, <3>2
    <2>3. CASE ~up
      <3>1. Befalls
        BY <2>1, <2>3 DEF Befalls, Depends
      <3>2. QED
        BY <1>0, <2>1, <3>1
    <2>4. QED
      BY <2>2, <2>3
  <1>10. CASE (OtherSteps /\ Terminated) \/ StopAnswering \/ ResumeAnswering
    <2>1. UNCHANGED vars /\ db' = db
      BY <1>10 DEF OtherSteps, Terminated, StopAnswering, ResumeAnswering, dbVars
    <2>2. ~hit' => ~hit
      BY <1>0, <2>1 DEF vars, replayVars
    <2>3. QED
      BY <2>1, <2>2 DEF vars, replayVars
  <1>11. QED
    BY <1>1, <1>2, <1>3, <1>4, <1>5, <1>6, <1>7, <1>8, <1>9, <1>10
    DEF OutcomeNext, SavingNext, OtherSteps

\* A replay of a known game is lost to an outage that meets an answer it needs,
\* to the disk or to a crash only; and one that is lost to the database leaves no
\* file that would keep the next one of its id out (save_replay_to_disk asks
\* before it creates).
THEOREM LostReplaysHaveACause == OutcomeSpec => []LostForCauseOnly
  <1>1. OutcomeSpec => SavingSpec
    <2>1. OutcomeInit => SavingInit
      BY DEF OutcomeInit
    <2>2. [OutcomeNext]_<<savingVars, hit>> => [SavingNext]_savingVars
      BY DEF OutcomeNext
    <2>3. QED
      BY <2>1, <2>2, PTL DEF OutcomeSpec, SavingSpec
  <1>2. VaultInv /\ OutcomeInv /\ [OutcomeNext]_<<savingVars, hit>> => OutcomeInv'
    <2> SUFFICES ASSUME VaultInv, OutcomeInv, [OutcomeNext]_<<savingVars, hit>>
                 PROVE  OutcomeInv'
      OBVIOUS
    <2>1. CASE OutcomeNext
      BY <2>1, FileStaysInOrder, ReasonsAreKept DEF OutcomeInv, OutcomeNext
    <2>2. CASE UNCHANGED <<savingVars, hit>>
      BY <2>2 DEF OutcomeInv, FileInOrder, FileOrReason, savingVars, vars, replayVars,
                  dbVars, fetchVars
    <2>3. QED
      BY <2>1, <2>2
  <1>3. OutcomeInv => LostForCauseOnly
    BY DEF OutcomeInv, FileInOrder, FileOrReason, LostForCauseOnly
  <1>4. QED
    BY <1>1, <1>2, <1>3, SavingInvariant, InitOutcomeInv, PTL DEF OutcomeSpec

-----------------------------------------------------------------------------
(* What the queries find                                                   *)

\* A set of naturals that is not empty has a least element.
LEMMA LeastNumber ==
    ASSUME NEW T \in SUBSET Nat, T # {}
    PROVE  \E m \in T : \A k \in T : m <= k
  <1>1. PICK m \in T : \A k \in T : ~ (<<k, m>> \in OpToRel(<, Nat))
    BY NatLessThanWellFounded, WFMin
  <1>2. \A k \in T : ~ (k < m)
    BY <1>1 DEF OpToRel
  <1>3. QED
    BY <1>2

IsGreatest(m, S) == m \in S /\ \A k \in S : m >= k

\* A finite set of integers that is not empty has a greatest element: of one
\* without, and with the fewest elements, take one away.
LEMMA GreatestNumber ==
    ASSUME NEW S \in SUBSET Int, IsFiniteSet(S), S # {}
    PROVE  \E m : IsGreatest(m, S)
  <1> SUFFICES ASSUME ~\E m : IsGreatest(m, S) PROVE FALSE
    OBVIOUS
  <1> DEFINE Bad(T) == T \in SUBSET S /\ T # {} /\ ~\E m : IsGreatest(m, T)
             sizes == {Cardinality(T) : T \in {U \in SUBSET S : Bad(U)}}
  <1>1. \A T \in SUBSET S : IsFiniteSet(T) /\ Cardinality(T) \in Nat
    BY FS_Subset, FS_CardinalityType
  <1>2. sizes \in SUBSET Nat /\ sizes # {}
    <2>1. Bad(S)
      OBVIOUS
    <2>2. QED
      BY <1>1, <2>1
  <1>3. PICK T \in SUBSET S : Bad(T) /\ \A U \in SUBSET S : Bad(U) => Cardinality(T) <= Cardinality(U)
    <2> HIDE DEF Bad
    <2>1. PICK m \in sizes : \A k \in sizes : m <= k
      BY <1>2, LeastNumber
    <2>2. QED
      BY <2>1
  <1>4. PICK x \in T : TRUE
    BY <1>3
  <1>5. Cardinality(T \ {x}) = Cardinality(T) - 1
    BY <1>1, <1>3, FS_RemoveElement
  <1>6. ~Bad(T \ {x})
    <2> HIDE DEF Bad
    <2>1. T \ {x} \in SUBSET S /\ Cardinality(T) \in Nat
      BY <1>1
    <2>2. QED
      BY <1>3, <1>5, <2>1
  <1>7. CASE T \ {x} = {}
    <2>1. T = {x} /\ x \in Int
      BY <1>7
    <2>2. IsGreatest(x, T)
      BY <2>1 DEF IsGreatest
    <2>3. QED
      BY <1>3, <2>2
  <1>8. CASE T \ {x} # {}
    <2>1. PICK m : IsGreatest(m, T \ {x})
      BY <1>6, <1>8
    <2>2. m \in Int /\ x \in Int /\ T \subseteq Int
      BY <2>1 DEF IsGreatest
    <2>3. CASE m >= x
      <3>1. IsGreatest(m, T)
        BY <2>1, <2>2, <2>3 DEF IsGreatest
      <3>2. QED
        BY <1>3, <3>1
    <2>4. CASE x > m
      <3>1. IsGreatest(x, T)
        BY <2>1, <2>2, <2>4 DEF IsGreatest
      <3>2. QED
        BY <1>3, <3>1
    <2>5. QED
      BY <2>2, <2>3, <2>4
  <1>9. QED
    BY <1>7, <1>8

\* Max is that element.
LEMMA MaxIsGreatest ==
    ASSUME NEW S, \E m : IsGreatest(m, S)
    PROVE  IsGreatest(Max(S), S)
  <1>1. \E m \in S : \A k \in S : m >= k
    BY DEF IsGreatest
  <1>2. Max(S) \in S /\ \A k \in S : Max(S) >= k
    BY <1>1, Zenon DEF Max
  <1>3. QED
    BY <1>2 DEF IsGreatest

\* get_mod_versions: a listed file's version is the newest there is of it.
LEMMA VersionsAreNewest ==
    ASSUME NEW d \in Database, NEW mod,
           NEW f \in DOMAIN ModVersions(d, mod)
    PROVE  /\ \E r \in d.updates[mod].files :
                  r.file = f /\ r.version = ModVersions(d, mod)[f]
           /\ \A r \in d.updates[mod].files :
                  r.file = f => r.version <= ModVersions(d, mod)[f]
  <1> DEFINE rows == ModVersionList(d, mod)
             ofFile == {x \in rows : x.file = f}
             versions == {x.version : x \in ofFile}
  <1>1. f \in {x.file : x \in rows} /\ ModVersions(d, mod)[f] = Max(versions)
    BY DEF ModVersions
  <1>2. PICK x \in rows : x.file = f
    BY <1>1
  <1>3. /\ mod \in DOMAIN d.updates
        /\ rows = {y \in d.updates[mod].files : y.file \in d.updates[mod].ids}
    BY <1>2 DEF ModVersionList
  <1>4. x \in ofFile /\ \A r \in d.updates[mod].files : r.file = f => r \in ofFile
    BY <1>2, <1>3
  <1>5. IsFiniteSet(d.updates[mod].files) /\ \A y \in d.updates[mod].files : y.version \in Int
    BY <1>3, DatabaseAssumption
  <1>6. IsFiniteSet(versions) /\ versions \subseteq Int /\ versions # {}
    <2>1. IsFiniteSet(ofFile)
      BY <1>3, <1>5, FS_Subset
    <2>2. IsFiniteSet(versions)
      <3> DEFINE version == [y \in ofFile |-> y.version]
      <3> HIDE DEF ofFile
      <3>1. version \in [ofFile -> versions] /\ \A v \in versions : \E y \in ofFile : version[y] = v
        OBVIOUS
      <3>2. version \in Surjection(ofFile, versions)
        BY <3>1, Fun_IsSurj
      <3>3. QED
        BY <2>1, <3>2, FS_Surjection
    <2>3. QED
      BY <1>3, <1>4, <1>5, <2>2
  <1>7. IsGreatest(Max(versions), versions)
    <2> HIDE DEF versions
    <2>1. \E m : IsGreatest(m, versions)
      BY <1>6, GreatestNumber
    <2>2. QED
      BY <2>1, MaxIsGreatest
  <1>8. PICK m : m = Max(versions) /\ IsGreatest(m, versions)
    BY <1>7
  <1>9. \E r \in ofFile : r.version = m
    BY <1>8 DEF IsGreatest
  <1>10. ASSUME NEW r \in ofFile PROVE r.version <= m
    <2>1. r.version \in versions
      OBVIOUS
    <2>2. r.version \in Int /\ m \in Int /\ m >= r.version
      BY <1>6, <1>8, <2>1 DEF IsGreatest
    <2>3. QED
      BY <2>2
  <1>11. QED
    BY <1>1, <1>3, <1>4, <1>8, <1>9, <1>10

\* The last position of a character in a name.
LEMMA LastPosition ==
    ASSUME NEW S \in SUBSET Nat, NEW m, IsGreatest(m, S)
    PROVE  Max(S) = m
  <1>1. IsGreatest(Max(S), S)
    BY MaxIsGreatest
  <1>2. PICK k : k = Max(S)
    OBVIOUS
  <1>3. k \in S /\ m \in S /\ k >= m /\ m >= k
    BY <1>1, <1>2 DEF IsGreatest
  <1>4. k = m
    BY <1>3
  <1>5. QED
    BY <1>2, <1>4

\* Two sequences one after the other.
Cat(a, b) == a \o b

IsJoined(c, a, b, m, n) ==
    /\ c = Cat(a, b) /\ Len(c) = m + n
    /\ \A i \in 1 .. m + n : c[i] = IF i <= m THEN a[i] ELSE b[i - m]

\* Their elements are those of the first, and then those of the second.
LEMMA Joined ==
    ASSUME NEW S, NEW a \in Seq(S), NEW b \in Seq(S), NEW m \in Nat, NEW n \in Nat,
           Len(a) = m, Len(b) = n
    PROVE  \E c \in Seq(S) : IsJoined(c, a, b, m, n)
  <1>1. PICK c \in Seq(S) : c = a \o b /\ c = Cat(a, b)
    BY ConcatProperties DEF Cat
  <1>2. /\ Len(c) = Len(a) + Len(b)
        /\ \A i \in 1 .. Len(a) + Len(b) :
                c[i] = IF i <= Len(a) THEN a[i] ELSE b[i - Len(a)]
    <2>1. /\ Len(a \o b) = Len(a) + Len(b)
          /\ \A i \in 1 .. Len(a) + Len(b) :
                (a \o b)[i] = IF i <= Len(a) THEN a[i] ELSE b[i - Len(a)]
      BY ConcatProperties, Zenon
    <2>2. QED
      BY <1>1, <2>1, Zenon
  <1>3. Len(c) = m + n /\ \A i \in 1 .. m + n : c[i] = IF i <= m THEN a[i] ELSE b[i - m]
    BY <1>2, Zenon
  <1>4. QED
    BY <1>1, <1>3, Zenon DEF IsJoined

\* A sequence of two.
LEMMA Pair ==
    ASSUME NEW S, NEW a \in S, NEW b \in S
    PROVE  \E c \in Seq(S) : c = <<a, b>> /\ Len(c) = 2 /\ c[1] = a /\ c[2] = b
  <1>1. <<a, b>> \in Seq(S) /\ Len(<<a, b>>) = 2 /\ <<a, b>>[1] = a /\ <<a, b>>[2] = b
    OBVIOUS
  <1>2. QED
    BY <1>1, Zenon

\* unmangle_map_name makes <stuff> of maps/<stuff>.zip.
LEMMA MapNameIsStuff ==
    ASSUME NEW stuff \in Stuff
    PROVE  UnmangleMapName(MapFile(stuff)) = stuff
  <1>0. PICK Char : Char = Range(stuff) \cup {"m", "/", ".", "z"}
    OBVIOUS
  <1>1. PICK s \in Seq(Char), l \in Nat :
            s = stuff /\ l = Len(s) /\ \A i \in 1 .. l : s[i] # "/"
    <2>1. stuff \in Seq(STRING) /\ "/" \notin Range(stuff)
      BY StuffAssumption
    <2>2. stuff \in [1 .. Len(stuff) -> STRING] /\ Len(stuff) \in Nat
      BY <2>1, LenProperties
    <2>3. \A i \in 1 .. Len(stuff) : stuff[i] \in Range(stuff)
      BY <2>2 DEF Range
    <2>4. stuff \in [1 .. Len(stuff) -> Char]
      BY <1>0, <2>2, <2>3
    <2>5. stuff \in Seq(Char)
      BY <2>2, <2>4, SeqDef
    <2>6. QED
      BY <2>1, <2>2, <2>3, <2>5
  <1>2. PICK head \in Seq(Char) :
            head = <<"m", "/">> /\ Len(head) = 2 /\ head[1] = "m" /\ head[2] = "/"
    <2>1. "m" \in Char /\ "/" \in Char
      BY <1>0
    <2>2. QED
      BY <2>1, Pair
  <1>3. PICK tail \in Seq(Char) :
            tail = <<".", "z">> /\ Len(tail) = 2 /\ tail[1] = "." /\ tail[2] = "z"
    <2>1. "." \in Char /\ "z" \in Char
      BY <1>0
    <2>2. QED
      BY <2>1, Pair
  <1>4. PICK front \in Seq(Char) : IsJoined(front, head, s, 2, l)
    BY <1>1, <1>2, Joined
  <1>5. PICK name \in Seq(Char) : IsJoined(name, front, tail, 2 + l, 2)
    <2>1. Len(front) = 2 + l /\ 2 + l \in Nat
      BY <1>4 DEF IsJoined
    <2>2. QED
      BY <1>3, <2>1, Joined
  <1> USE <1>4, <1>5 DEF IsJoined
  <1>6. name = MapFile(stuff)
    BY <1>1, <1>2, <1>3, <1>4, <1>5, Zenon DEF MapFile, Cat
  <1> DEFINE dots == {i \in 1 .. Len(name) : name[i] = "."}
  <1>7. Max(dots) = l + 3 /\ dots # {}
    <2>1. l + 3 \in dots
      <3>1. l + 3 \in 1 .. (2 + l) + 2 /\ ~(l + 3 <= 2 + l) /\ l + 3 - (2 + l) = 1
        OBVIOUS
      <3>2. QED
        BY <1>3, <1>5, <3>1
    <2>2. l + 4 \notin dots
      <3>1. l + 4 \in 1 .. (2 + l) + 2 /\ ~(l + 4 <= 2 + l) /\ l + 4 - (2 + l) = 2
        OBVIOUS
      <3>2. name[l + 4] = "z"
        BY <1>3, <1>5, <3>1
      <3>3. QED
        BY <3>2
    <2>3. \A i \in dots : i \in Nat /\ i <= (2 + l) + 2
      BY <1>5
    <2>4. \A i \in dots : l + 3 >= i
      BY <2>2, <2>3
    <2>5. IsGreatest(l + 3, dots) /\ dots \in SUBSET Nat
      BY <2>1, <2>3, <2>4 DEF IsGreatest
    <2>6. QED
      <3> HIDE DEF dots
      <3>1. QED
        BY <2>1, <2>5, LastPosition
  <1>8. PICK stem \in Seq(Char) :
            /\ stem = SubSeq(name, 1, (l + 3) - 1) /\ Len(stem) = 2 + l
            /\ \A i \in 1 .. 2 + l : stem[i] = front[i]
    <2>1. \A i \in 1 .. (l + 3) - 1 : name[i] \in Char
      BY <1>5, ElementOfSeq
    <2>2. /\ SubSeq(name, 1, (l + 3) - 1) \in Seq(Char)
          /\ Len(SubSeq(name, 1, (l + 3) - 1)) =
                IF 1 <= (l + 3) - 1 THEN (l + 3) - 1 - 1 + 1 ELSE 0
          /\ \A i \in 1 .. (l + 3) - 1 - 1 + 1 :
                SubSeq(name, 1, (l + 3) - 1)[i] = name[1 + i - 1]
      BY <2>1, SubSeqProperties
    <2>3. PICK t \in Seq(Char) : t = SubSeq(name, 1, (l + 3) - 1)
      BY <2>2
    <2>4. Len(t) = 2 + l /\ \A i \in 1 .. 2 + l : t[i] = name[i]
      <3>1. /\ (l + 3) - 1 = 2 + l /\ (l + 3) - 1 - 1 + 1 = 2 + l /\ 1 <= 2 + l
            /\ \A i \in 1 .. 2 + l : 1 + i - 1 = i
        OBVIOUS
      <3>2. /\ Len(t) = IF 1 <= (l + 3) - 1 THEN (l + 3) - 1 - 1 + 1 ELSE 0
            /\ \A i \in 1 .. (l + 3) - 1 - 1 + 1 : t[i] = name[1 + i - 1]
        BY <2>2, <2>3, Zenon
      <3>3. QED
        BY <3>1, <3>2
    <2>5. \A i \in 1 .. 2 + l : name[i] = front[i]
      BY <1>5
    <2>6. \A i \in 1 .. 2 + l : t[i] = front[i]
      BY <2>4, <2>5, Zenon
    <2>7. QED
      BY <2>3, <2>4, <2>6, Zenon
  <1> DEFINE slashes == {i \in 1 .. Len(stem) : stem[i] = "/"}
  <1>9. Max(slashes) = 2 /\ slashes # {}
    <2>1. 2 \in slashes
      <3>1. 2 \in 1 .. 2 + l
        OBVIOUS
      <3>2. QED
        BY <1>2, <1>4, <1>8, <3>1
    <2>2. ASSUME NEW i \in slashes PROVE i \in Nat /\ 2 >= i
      <3>1. i \in 1 .. 2 + l /\ front[i] = "/"
        BY <1>8
      <3>2. CASE ~(i <= 2)
        <4>1. i - 2 \in 1 .. l
          BY <3>1, <3>2
        <4>2. front[i] = s[i - 2]
          BY <1>4, <3>1, <3>2
        <4>3. QED
          BY <1>1, <3>1, <4>1, <4>2
      <3>3. QED
        BY <3>1, <3>2
    <2>3. IsGreatest(2, slashes) /\ slashes \in SUBSET Nat
      BY <2>1, <2>2 DEF IsGreatest
    <2>4. QED
      <3> HIDE DEF slashes
      <3>1. QED
        BY <2>1, <2>3, LastPosition
  <1>10. SubSeq(stem, 2 + 1, Len(stem)) = s
    <2>1. \A i \in 3 .. 2 + l : stem[i] \in Char
      BY <1>8, ElementOfSeq
    <2>2. /\ SubSeq(stem, 3, 2 + l) \in Seq(Char)
          /\ Len(SubSeq(stem, 3, 2 + l)) = IF 3 <= 2 + l THEN 2 + l - 3 + 1 ELSE 0
          /\ \A i \in 1 .. 2 + l - 3 + 1 : SubSeq(stem, 3, 2 + l)[i] = stem[3 + i - 1]
      BY <2>1, SubSeqProperties
    <2>3. PICK t \in Seq(Char) : t = SubSeq(stem, 3, 2 + l)
      BY <2>2
    <2>4. Len(t) = l /\ \A i \in 1 .. l : t[i] = stem[i + 2]
      BY <2>2, <2>3
    <2>5. ASSUME NEW i \in 1 .. l PROVE t[i] = s[i]
      <3>1. i + 2 \in 1 .. 2 + l /\ ~(i + 2 <= 2) /\ (i + 2) - 2 = i
        OBVIOUS
      <3>2. QED
        BY <1>4, <1>8, <2>4, <3>1
    <2>6. t = s
      BY <1>1, <2>4, <2>5, SeqEqual
    <2>7. QED
      BY <1>8, <2>3, <2>6, SMTT(30)
  <1>11. name # NULL
    BY <1>6, StuffAssumption
  <1>12. QED
    <2>1. SelectLastInSeq(name, LAMBDA c : c = ".") = l + 3
      BY <1>7 DEF SelectLastInSeq
    <2>2. SelectLastInSeq(stem, LAMBDA c : c = "/") = 2
      BY <1>9 DEF SelectLastInSeq
    <2>3. l + 3 # 0
      OBVIOUS
    <2>4. UnmangleMapName(name) = s
      <3> HIDE DEF dots, slashes
      <3>1. QED
        BY <1>8, <1>10, <1>11, <2>1, <2>2, <2>3, Zenon DEF UnmangleMapName
    <2>5. QED
      BY <1>1, <1>6, <2>4, Zenon

\* The json header of a finished file is right about the players, the mod and
\* the map of its game, whatever the database did while it was made: it is
\* written only after every query of ReplayJsonHeader::from_id_and_db.
THEOREM JsonIsRight == SavingSpec => []JsonDescribesTheGame
  <1>1. VaultInv /\ QueriesInv => JsonDescribesTheGame
    <2> SUFFICES ASSUME QueriesInv, file.whole PROVE JsonDescribesTheGame
      BY DEF JsonDescribesTheGame
    <2> DEFINE people == {p \in db.players : p.game = Id /\ ~p.ai}
               game == CHOOSE g \in db.games : g.id = Id
    <2>1. db \in Database /\ Describes(json)
      BY DEF QueriesInv
    <2>2. PICK g \in db.games :
            g.id = Id /\ json.mod = g.mod /\ json.mapname = UnmangleMapName(g.map)
      BY <2>1 DEF Describes, HasStats, GameStatRow
    <2>3. game = g
      <3>1. \A h \in db.games : h.id = Id => h = g
        BY <2>1, <2>2, DatabaseAssumption
      <3>2. QED
        BY <2>2, <3>1
    <2>4. json.teams = Teams(people)
      <3>1. GameStatRow(db, Id) # {}
        BY <2>2 DEF GameStatRow
      <3>2. TeamPlayers(db, Id) = people
        BY <3>1 DEF TeamPlayers
      <3>3. QED
        BY <2>1, <3>2 DEF Describes, HasTeams
    <2>5. /\ \A p \in people : p.team \in DOMAIN json.teams /\ p.login \in json.teams[p.team]
          /\ \A t \in DOMAIN json.teams : \A login \in json.teams[t] :
                \E p \in people : p.team = t /\ p.login = login
      BY <2>4 DEF Teams
    <2>6. json.players = Cardinality({p \in db.players : p.game = Id})
      BY <2>1 DEF Describes, HasCount, PlayerCount
    <2>7. ASSUME NEW stuff \in Stuff, game.map = MapFile(stuff)
          PROVE  json.mapname = stuff
      <3>1. g.map = MapFile(stuff)
        BY <2>3, <2>7
      <3>2. QED
        BY <2>2, <3>1, MapNameIsStuff
    <2>8. ASSUME NEW f \in DOMAIN json.versions
          PROVE  LET ofFile == {r \in db.updates[game.mod].files : r.file = f}
                 IN  /\ \E r \in ofFile : r.version = json.versions[f]
                     /\ \A r \in ofFile : r.version <= json.versions[f]
      <3>1. json.versions = ModVersions(db, g.mod)
        <4>1. json.versions # NoVersions
          BY <2>8 DEF NoVersions
        <4>2. QED
          BY <2>1, <2>2, <4>1 DEF Describes, HasVersions
      <3>2. f \in DOMAIN ModVersions(db, g.mod)
        BY <2>8, <3>1
      <3>3. /\ \E r \in db.updates[g.mod].files :
                  r.file = f /\ r.version = ModVersions(db, g.mod)[f]
            /\ \A r \in db.updates[g.mod].files :
                  r.file = f => r.version <= ModVersions(db, g.mod)[f]
        BY <2>1, <3>2, VersionsAreNewest
      <3>4. QED
        BY <2>3, <3>1, <3>3
    <2>9. QED
      BY <2>5, <2>6, <2>7, <2>8 DEF JsonDescribesTheGame
  <1>2. QED
    BY <1>1, SavingInvariant, PTL
=============================================================================
