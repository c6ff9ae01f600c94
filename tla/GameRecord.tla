----------------------------- MODULE GameRecord -----------------------------
(***************************************************************************)
(* What the database says about a game (database/database.rs) and what the *)
(* json header of its replay makes of that (database/queries.rs,           *)
(* replay/save/json_header.rs).  A database is a record of tables:         *)
(*   games    rows of game_stats, with the names that are joined to them   *)
(*   players  rows of game_player_stats                                    *)
(*   updates  per featured mod that has them, updates_<mod> and its _files *)
(* Names are sequences of characters only where they are taken apart.      *)
(***************************************************************************)
EXTENDS Naturals, Sequences, FiniteSets, SequencesExt

CONSTANTS
    PlainName,      \* names of mods made of a-z, A-Z, 0-9, _ and -
    NULL            \* of SQL

None == <<"N", "o", "n", "e">>
NoVersions == [f \in {} |-> 0]

\* get_game_stat_row: one row, or none and thus an error.
GameStatRow(db, id) == {g \in db.games : g.id = id}

\* get_player_count: computers too.
PlayerCount(db, id) == Cardinality({p \in db.players : p.game = id})

\* get_team_players
TeamPlayers(db, id) ==
    {p \in db.players : p.game = id /\ ~p.ai /\ GameStatRow(db, id) # {}}

\* get_mod_version_list.  A failing query is one without rows.
ModVersionList(db, mod) ==
    IF mod \in PlainName /\ mod # "ladder1v1" /\ mod \in DOMAIN db.updates
    THEN {r \in db.updates[mod].files : r.file \in db.updates[mod].ids}
    ELSE {}

\* ... its GROUP BY, and get_mod_versions.
ModVersions(db, mod) ==
    LET rows == ModVersionList(db, mod)
    IN  [f \in {r.file : r \in rows} |->
            Max({r.version : r \in {x \in rows : x.file = f}})]

\* get_teams_in_game and fixup_team_dict.
Teams(rows) ==
    [t \in {p.team : p \in rows} |-> {p.login : p \in {x \in rows : x.team = t}}]

\* Mutant of UnmangleMapName: everything from the first dot is cut.
UnmangleToFirstDot(name) ==
    IF name = NULL THEN None
    ELSE LET dot == SelectInSeq(name, LAMBDA c : c = ".")
             stem == IF dot = 0 THEN name ELSE SubSeq(name, 1, dot - 1)
             slash == SelectLastInSeq(stem, LAMBDA c : c = "/")
         IN  SubSeq(stem, slash + 1, Len(stem))

\* unmangle_map_name: up to the last dot, and after the last slash in that.
UnmangleMapName(name) ==
    IF name = NULL THEN None
    ELSE LET dot == SelectLastInSeq(name, LAMBDA c : c = ".")
             stem == IF dot = 0 THEN name ELSE SubSeq(name, 1, dot - 1)
             slash == SelectLastInSeq(stem, LAMBDA c : c = "/")
         IN  SubSeq(stem, slash + 1, Len(stem))
=============================================================================
