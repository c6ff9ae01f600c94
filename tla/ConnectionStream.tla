-------------------------- MODULE ConnectionStream --------------------------
(***************************************************************************)
(* The bytes of one connection, from the frames of a websocket to the      *)
(* replay they are put into: the StreamReader over the frames              *)
(* (server/websocket_stream.rs) that a Connection reads through            *)
(* (server/connection.rs), the connection header (accept/header.rs), the   *)
(* header of the replay (replay/streams/header.rs), and read_data          *)
(* (replay/streams/writer_replay.rs).                                      *)
(*                                                                         *)
(* Frames end anywhere; every parser reads through them.  A raw TCP        *)
(* connection is the same with the fills of its BufReader for frames, none *)
(* of them empty.                                                          *)
(***************************************************************************)
EXTENDS Integers, Sequences

CONSTANTS
    Payload,        \* what a client may send in all: sequences of bytes
    WriterType, ReaderType,     \* "P/" and "G/"
    Slash, Digit, NotText,      \* '/', and the bytes of numbers and of no text
    LineLimit,      \* 1024, for the rest of the connection header
    MaxSize,        \* MAX_SIZE, of a replay header
    CopySize,       \* 4096, the buffer of read_data
    CountSize,      \* 4, the bytes of an u32
    VersionGap, MapGap,         \* 3 and 4, the bytes skipped in the header
    NoPlayer        \* 255, the player of an army nobody plays

ASSUME StreamAssumption ==
    /\ \A p \in Payload : p \in Seq(0 .. 255)
    /\ Len(WriterType) = 2 /\ Len(ReaderType) = 2 /\ WriterType # ReaderType
    /\ {LineLimit, MaxSize, CopySize} \subseteq Nat \ {0}
    /\ CountSize \in 1 .. 4
    /\ {VersionGap, MapGap} \subseteq Nat

VARIABLES
    payload,    \* all the client sends, frame after frame
    sent,       \* how many bytes of it have reached the StreamReader
    chunk,      \* the rest of the StreamReader's current frame
    input,      \* "open", "closed" normally, or "failed"
    stage,      \* what is being read
    todo,       \* the reads the stage has left, the pending one first
    got,        \* what the pending read has so far
    line,       \* the connection header
    header,     \* the completed reads of the replay header
    data,       \* the replay's data after its header
    result      \* how reading ended, or "reading"

streamVars == <<payload, sent, chunk, input>>
parserVars == <<stage, todo, got, line, header, data, result>>
vars == <<streamVars, parserVars>>

-----------------------------------------------------------------------------
(* The reads headers are made of                                           *)

\* read_until_exact(0), read_exact(n) and skip(n), and read_u8 and
\* read_u32_le of a value that says what to read next.
Until == [upto |-> "nul", count |-> 0, of |-> "nothing"]
Skip(n) == [upto |-> "count", count |-> n, of |-> "nothing"]
Value(n, of) == [upto |-> "count", count |-> n, of |-> of]

\* The number that bytes, at most four, are, the lowest first.
Little(bytes) ==
    LET Byte(i) == IF i <= Len(bytes) THEN bytes[i] ELSE 0
    IN  Byte(1) + 256 * (Byte(2) + 256 * (Byte(3) + 256 * Byte(4)))

Repeat(n, reads) ==
    [i \in 1 .. n * Len(reads) |-> reads[((i - 1) % Len(reads)) + 1]]

\* do_from_connection, in order.
HeaderReads ==
    << Until, Skip(VersionGap), Until, Skip(MapGap),
       Value(CountSize, "bytes"), Value(CountSize, "bytes"), Value(1, "players"),
       Skip(1), Value(1, "armies"), Skip(CountSize) >>

\* Mutant of Following: every army has a player.
FollowingAlwaysPlayed(of, n) ==
    CASE of = "bytes" -> <<Skip(n)>>
      [] of = "players" -> Repeat(n, <<Until, Skip(CountSize)>>)
      [] of = "armies" -> Repeat(n, <<Value(CountSize, "bytes"), Value(1, "player")>>)
      [] of = "player" -> <<Skip(1)>>
      [] OTHER -> <<>>

\* What has to be read because a value is n.
Following(of, n) ==
    CASE of = "bytes" -> <<Skip(n)>>
      [] of = "players" -> Repeat(n, <<Until, Skip(CountSize)>>)
      [] of = "armies" -> Repeat(n, <<Value(CountSize, "bytes"), Value(1, "player")>>)
      [] of = "player" -> IF n = NoPlayer THEN <<>> ELSE <<Skip(1)>>
      [] OTHER -> <<>>

\* read_game_data: an id, a slash, and a name, which may have slashes.  That
\* an id fits an u64 is left out.
IsGameData(bytes) ==
    \E i \in 1 .. Len(bytes) - 1 :
        /\ bytes[i] = Slash
        /\ i > 1 /\ \A j \in 1 .. i - 1 : bytes[j] \in Digit
        /\ \A j \in i + 1 .. Len(bytes) - 1 : bytes[j] \notin NotText

Pending == todo[1]

IsComplete ==
    IF Pending.upto = "nul" THEN got # <<>> /\ got[Len(got)] = 0
                            ELSE Len(got) = Pending.count

\* How much more take() lets through.
Room == CASE stage = "type" -> 2 - Len(got)
          [] stage = "line" -> LineLimit - Len(got)
          [] stage = "header" -> MaxSize - Len(header) - Len(got)
          [] stage = "data" -> CopySize

Lesser(a, b) == IF a < b THEN a ELSE b

\* How much of the chunk the pending read consumes.
Taken ==
    LET there == Lesser(Len(chunk), Room)
        nuls == {i \in 1 .. there : chunk[i] = 0}
    IN  CASE stage = "data" -> there
          [] stage # "data" /\ Pending.upto = "count" ->
                 Lesser(there, Pending.count - Len(got))
          [] stage # "data" /\ Pending.upto = "nul" ->
                 IF nuls = {} THEN there ELSE CHOOSE i \in nuls : \A j \in nuls : i <= j

-----------------------------------------------------------------------------
(* The stream of frames                                                    *)

\* The task waits for more than the chunk has.
Starved ==
    /\ result = "reading" /\ chunk = <<>>
    /\ stage # "data" => ~IsComplete /\ Room > 0

\* Mutant of Frame: an empty frame reads as the end of the stream.
FrameMayEnd(n) ==
    /\ Starved /\ input = "open" /\ sent + n <= Len(payload)
    /\ chunk' = SubSeq(payload, sent + 1, sent + n)
    /\ sent' = sent + n
    /\ input' = IF n = 0 THEN "closed" ELSE input
    /\ UNCHANGED <<payload, parserVars>>

\* A message of n bytes.  Pings, pongs and empty messages have none: the
\* StreamReader polls for the next one.
Frame(n) ==
    /\ Starved /\ input = "open" /\ sent + n <= Len(payload)
    /\ chunk' = SubSeq(payload, sent + 1, sent + n)
    /\ sent' = sent + n
    /\ UNCHANGED <<payload, input, parserVars>>

\* The stream ends after a normal close, and fails with any other and when
\* the socket does.
Close(how) ==
    /\ Starved /\ input = "open" /\ sent = Len(payload)
    /\ input' = how
    /\ UNCHANGED <<payload, sent, chunk, parserVars>>

-----------------------------------------------------------------------------
(* The parsers                                                             *)

\* One poll of the pending read, with data there.
Consume ==
    /\ result = "reading" /\ chunk # <<>>
    /\ stage # "data" => ~IsComplete /\ Room > 0
    /\ chunk' = SubSeq(chunk, Taken + 1, Len(chunk))
    /\ LET bytes == SubSeq(chunk, 1, Taken)
       IN  IF stage = "data"
           THEN data' = data \o bytes /\ UNCHANGED got
           ELSE got' = got \o bytes /\ UNCHANGED data
    /\ UNCHANGED <<payload, sent, input, stage, todo, line, header, result>>

Complete(at) == result = "reading" /\ stage = at /\ IsComplete

\* Mutant of ReadType: it reads through a buffer of its own, dropped with it.
ReadTypeBuffered ==
    /\ Complete("type") /\ got \in {WriterType, ReaderType}
    /\ stage' = "line" /\ todo' = <<Until>>
    /\ line' = got /\ got' = <<>> /\ chunk' = <<>>
    /\ UNCHANGED <<payload, sent, input, header, data, result>>

ReadType ==
    /\ Complete("type")
    /\ IF got \in {WriterType, ReaderType}
       THEN /\ stage' = "line" /\ todo' = <<Until>>
            /\ line' = got /\ got' = <<>>
            /\ UNCHANGED result
       ELSE result' = "bad data" /\ UNCHANGED <<stage, todo, line, got>>
    /\ UNCHANGED <<streamVars, header, data>>

\* read_game_data and set_header.  Nothing is read from a reader afterwards;
\* a writer's replay reads on when it gets to the connection.
ReadLine ==
    /\ Complete("line")
    /\ IF IsGameData(got)
       THEN /\ line' = line \o got /\ got' = <<>>
            /\ IF line = WriterType
               THEN stage' = "header" /\ todo' = HeaderReads /\ UNCHANGED result
               ELSE result' = "reader" /\ UNCHANGED <<stage, todo>>
       ELSE result' = "bad data" /\ UNCHANGED <<stage, todo, line, got>>
    /\ UNCHANGED <<streamVars, header, data>>

\* The replay gets the header once its last part has been read.
ReadField ==
    /\ Complete("header")
    /\ header' = header \o got
    /\ got' = <<>>
    /\ todo' = Following(Pending.of, Little(got)) \o Tail(todo)
    /\ stage' = IF todo' = <<>> THEN "data" ELSE "header"
    /\ UNCHANGED <<streamVars, line, data, result>>

\* What the pending read makes of the end of the stream, or of its limit.
Shortage ==
    CASE stage = "type" -> IF input = "closed" THEN "no data" ELSE "io error"
      [] stage = "line" -> "bad data"
      [] stage = "header" -> "io error"
      [] stage = "data" -> IF input = "closed" THEN "done" ELSE "io error"

RunShort ==
    /\ result = "reading"
    /\ \/ Starved /\ input # "open"
       \/ stage \in {"line", "header"} /\ ~IsComplete /\ Room = 0
    /\ result' = Shortage
    /\ UNCHANGED <<streamVars, stage, todo, got, line, header, data>>

\* read_initial_header
TimeOut ==
    /\ result = "reading" /\ stage \in {"type", "line"}
    /\ result' = "timed out"
    /\ UNCHANGED <<streamVars, stage, todo, got, line, header, data>>

-----------------------------------------------------------------------------
Init ==
    /\ payload \in Payload
    /\ sent = 0 /\ chunk = <<>> /\ input = "open"
    /\ stage = "type" /\ todo = <<Skip(2)>>
    /\ got = <<>> /\ line = <<>> /\ header = <<>> /\ data = <<>>
    /\ result = "reading"

Ended == result # "reading" /\ UNCHANGED vars

Next ==
    \/ \E n \in 0 .. Len(payload) : Frame(n)
    \/ \E how \in {"closed", "failed"} : Close(how)
    \/ Consume \/ ReadType \/ ReadLine \/ ReadField \/ RunShort \/ TimeOut
    \/ Ended

Spec == Init /\ [][Next]_vars

-----------------------------------------------------------------------------
(* Properties                                                              *)

TypeOK ==
    /\ payload \in Payload /\ sent \in 0 .. Len(payload)
    /\ input \in {"open", "closed", "failed"}
    /\ stage \in {"type", "line", "header", "data"}
    /\ \A i \in DOMAIN todo : todo[i].upto \in {"nul", "count"} /\ todo[i].count \in Nat
    /\ {chunk, got, line, header, data} \subseteq Seq(0 .. 255)
    /\ result \in {"reading", "reader", "done", "no data", "bad data", "io error",
                   "timed out"}

\* However the frames fall, the readers that follow each other on a connection
\* pass every byte on exactly once: what a read leaves of a frame is where the
\* next one starts, from one header to the other and into the data.
NothingLostOrReread ==
    /\ TypeOK
    /\ line \o header \o got \o data \o chunk = SubSeq(payload, 1, sent)

\* A replay is complete only if all the client sent is in it: neither an
\* empty frame nor a broken connection passes for its end.
CompleteIsWhole ==
    result = "done" => line \o header \o data = payload /\ input = "closed"
=============================================================================
