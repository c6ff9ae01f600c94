---------------------------- MODULE ReplaySaving ----------------------------
(***************************************************************************)
(* ReplayVault with its Fetch taken apart: the queries of                  *)
(* ReplayJsonHeader::from_id_and_db, a database that stops and resumes     *)
(* answering between any two of them, and the json header in the file.     *)
(***************************************************************************)
EXTENDS Integers, ReplayVault, GameRecord

CONSTANTS
    Database,   \* what the tables may hold
    Id,         \* the id whose replays are saved
    Stuff       \* names of maps, which are in maps/<stuff>.zip

\* Tables are finite, versions are numbers, and the id of a game is its key.
ASSUME DatabaseAssumption ==
    \A d \in Database :
        /\ IsFiniteSet(d.players)
        /\ \A g, h \in d.games : g.id = h.id => g = h
        /\ \A mod \in DOMAIN d.updates :
               /\ IsFiniteSet(d.updates[mod].files)
               /\ \A r \in d.updates[mod].files : r.version \in Int

\* "Mapname looks like this: maps/<stuff>.zip" (queries.rs).
MapFile(stuff) == <<"m", "/">> \o stuff \o <<".", "z">>

ASSUME StuffAssumption ==
    \A stuff \in Stuff :
        stuff \in Seq(STRING) /\ "/" \notin Range(stuff) /\ MapFile(stuff) # NULL

VARIABLES
    db,         \* the tables
    up,         \* the database answers
    query,      \* the next query of from_id_and_db
    record,     \* what the queries before it gave
    json        \* the first line of the file

dbVars == <<db, up>>
fetchVars == <<query, record>>
savingVars == <<vars, dbVars, fetchVars, json>>

NoRecord == [mod |-> NULL, ended |-> NULL, mapname |-> None, players |-> 0,
             teams |-> NoVersions, versions |-> NoVersions]

-----------------------------------------------------------------------------
(* The queries                                                             *)

StartSave(header, n) ==
    /\ BeginSave(header, n)
    /\ query' = "stats" /\ record' = NoRecord
    /\ UNCHANGED <<dbVars, json>>

Asks(q) == step = "fetch" /\ query = q

\* get_game_stats asks twice.  A game that has not ended ends now, and one
\* without a map is saved anyway.
QueryStats ==
    /\ Asks("stats") /\ up
    /\ \E g \in GameStatRow(db, Id) :
           record' = [record EXCEPT !.mod = g.mod, !.mapname = UnmangleMapName(g.map),
                                    !.ended = IF g.ended = NULL THEN "now" ELSE g.ended]
    /\ query' = "count"
    /\ UNCHANGED <<vars, dbVars, json>>

QueryCount ==
    /\ Asks("count") /\ up
    /\ record' = [record EXCEPT !.players = PlayerCount(db, Id)]
    /\ query' = "teams"
    /\ UNCHANGED <<vars, dbVars, json>>

QueryTeams ==
    /\ Asks("teams") /\ up
    /\ record' = [record EXCEPT !.teams = Teams(TeamPlayers(db, Id))]
    /\ query' = "mods"
    /\ UNCHANGED <<vars, dbVars, json>>

\* The last query, if there is a mod to ask about.  Its failure is no rows.
QueryMods ==
    /\ Asks("mods") /\ Fetch
    /\ record' = [record EXCEPT !.versions =
                      IF up /\ record.mod # NULL THEN ModVersions(db, record.mod)
                                                 ELSE NoVersions]
    /\ UNCHANGED <<dbVars, query, json>>

\* Mutant of QueryFails: the error of the last query is passed on, too.
AnyQueryFails ==
    /\ ~up \/ (query = "stats" /\ GameStatRow(db, Id) = {})
    /\ FetchFails
    /\ UNCHANGED <<dbVars, fetchVars, json>>

QueryFails ==
    /\ query # "mods"
    /\ ~up \/ (query = "stats" /\ GameStatRow(db, Id) = {})
    /\ FetchFails
    /\ UNCHANGED <<dbVars, fetchVars, json>>

-----------------------------------------------------------------------------
(* The file and the row of the game                                        *)

\* The first block is the line with the json header.
WriteLineOrBlock ==
    /\ WriteBlock
    /\ json' = IF file.blocks = 0 THEN record ELSE json
    /\ UNCHANGED <<dbVars, fetchVars>>

UpdateGameStats ==
    /\ IF up THEN \E ticks \in BOOLEAN : Report(ticks) ELSE ReportFails
    /\ UNCHANGED <<dbVars, fetchVars, json>>

OtherSteps ==
    /\ CreateFile \/ FinishFile \/ CreateFails \/ WriteFails \/ Crash \/ Terminated
    /\ UNCHANGED <<dbVars, fetchVars, json>>

-----------------------------------------------------------------------------
(* The database                                                            *)

StopAnswering == up /\ up' = FALSE /\ UNCHANGED <<vars, db, fetchVars, json>>
ResumeAnswering == ~up /\ up' = TRUE /\ UNCHANGED <<vars, db, fetchVars, json>>

-----------------------------------------------------------------------------
SavingInit ==
    /\ Init
    /\ db \in Database /\ up = TRUE
    /\ query = "stats" /\ record = NoRecord /\ json = NoRecord

SavingNext ==
    \/ \E header \in BOOLEAN, n \in 1 .. MaxBlocks : StartSave(header, n)
    \/ QueryStats \/ QueryCount \/ QueryTeams \/ QueryMods \/ QueryFails
    \/ WriteLineOrBlock \/ UpdateGameStats \/ OtherSteps
    \/ StopAnswering \/ ResumeAnswering

SavingSpec == SavingInit /\ [][SavingNext]_savingVars

-----------------------------------------------------------------------------
(* Properties                                                              *)

SavingTypeOK ==
    /\ TypeOK
    /\ up \in BOOLEAN
    /\ query \in {"stats", "count", "teams", "mods"}
    /\ {record.players, json.players} \subseteq Nat

\* A finished file describes its own game, in the tables' words: the players of
\* each team that are people, the number of all players, the map by the name of
\* its archive, and for each file of the mod it lists the newest version there is.
JsonDescribesTheGame ==
    file.whole =>
        LET people == {p \in db.players : p.game = Id /\ ~p.ai}
            game == CHOOSE g \in db.games : g.id = Id
        IN  /\ \A p \in people :
                   p.team \in DOMAIN json.teams /\ p.login \in json.teams[p.team]
            /\ \A t \in DOMAIN json.teams : \A login \in json.teams[t] :
                   \E p \in people : p.team = t /\ p.login = login
            /\ json.players = Cardinality({p \in db.players : p.game = Id})
            /\ \A stuff \in Stuff :
                   game.map = MapFile(stuff) => json.mapname = stuff
            /\ \A f \in DOMAIN json.versions :
                   LET ofFile == {r \in db.updates[game.mod].files : r.file = f}
                   IN  /\ \E r \in ofFile : r.version = json.versions[f]
                       /\ \A r \in ofFile : r.version <= json.versions[f]
=============================================================================
