--------------------------- MODULE MCReplaySaving ---------------------------
(***************************************************************************)
(* Databases for SaveOutcome: the game is there or not, with and without   *)
(* a map, a mod and an end, next to another game; with people, computers   *)
(* and both; and mods with a table, without one, with a name that is not   *)
(* asked about, and the one that is left out.                              *)
(***************************************************************************)
EXTENDS SaveOutcome

MCStuff == {<<"a">>, <<"a", ".", "v">>}
MCPlainName == {"faf", "ladder1v1", "gone"}

Map == {NULL} \cup {MapFile(stuff) : stuff \in MCStuff}
Game == [id : {Id}, map : Map, mod : MCPlainName \cup {"odd;name", NULL}, ended : {NULL, "end"}]
OtherGame == [id |-> Id + 1, map |-> NULL, mod |-> "faf", ended |-> "end"]

Player == {[game |-> Id, login |-> "ann", team |-> 1, ai |-> FALSE],
           [game |-> Id, login |-> "bob", team |-> 2, ai |-> FALSE],
           [game |-> Id, login |-> "bob", team |-> 1, ai |-> TRUE],
           [game |-> Id + 1, login |-> "cid", team |-> 1, ai |-> FALSE]}

Updates == [faf |-> [ids |-> {50, 60},
                     files |-> {[file |-> 50, version |-> 1], [file |-> 50, version |-> 3],
                                [file |-> 60, version |-> 2], [file |-> 70, version |-> 9]}]]

MCDatabase ==
    {[games |-> {OtherGame} \cup g, players |-> p, updates |-> Updates] :
        g \in {{}} \cup {{x} : x \in Game},
        p \in {Player, {x \in Player : x.ai}, {x \in Player : ~x.ai}}}
=============================================================================
