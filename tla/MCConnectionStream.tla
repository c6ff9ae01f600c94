------------------------- MODULE MCConnectionStream -------------------------
(***************************************************************************)
(* ConnectionStream with numbers of one byte, and the language of headers  *)
(* written down for itself.  0 is NUL, 1 a digit and 2 a slash; numbers    *)
(* are 0 to 2, and 2 is NoPlayer.                                          *)
(***************************************************************************)
EXTENDS ConnectionStream

P == <<1, 2>>
G == <<0, 2>>

\* What game data may be, within LineLimit: an id and a name without the byte
\* 3, which is no text.  The others are too long, have no id, have no slash,
\* have a bad name, or do not end.
GoodLines == {<<1, 2, 0>>, <<1, 2, 1, 0>>, <<1, 2, 2, 0>>, <<1, 1, 2, 0>>}
BadLines == {<<1, 2, 1, 1, 0>>, <<2, 1, 0>>, <<1, 1, 0>>, <<1, 2, 3, 0>>, <<1, 2>>, <<0>>}

Words(n, B) == UNION {[1 .. k -> B] : k \in 0 .. n}
StartsOf(s) == {SubSeq(s, 1, k) : k \in 0 .. Len(s)}

\* All short inputs after the start of a header; some with two players or two
\* armies, one as long as MaxSize and one longer, and what is short of them.
Start == <<1, 0, 0, 0, 1>>
Long == {<<0, 0, 0, 1, 0, 0, 2, 0, 1, 1, 0, 0, 1, 0, 1>>,
         <<0, 0, 0, 1, 0, 0, 0, 1, 2, 0, 2, 1, 0, 1, 1, 1>>,
         <<0, 0, 0, 1, 0, 0, 0, 1, 2, 0, 2, 0, 2, 1>>,
         <<0, 0, 0, 1, 2, 1, 0, 1, 2, 0, 0, 0, 1, 1>>,
         <<0, 2, 0, 0, 2, 1, 1, 2, 0, 0, 0, 1, 0, 0, 0, 0, 0, 0>>,
         <<0, 0, 0, 1, 0, 0, 0, 1, 2, 0, 1, 1, 1, 0, 1, 1, 1>>}
Replays == {Start \o w : w \in Words(7, 0 .. 1)} \cup UNION {StartsOf(l) : l \in Long}

\* The language of replay headers of at most MaxSize bytes, as far as it has
\* prefixes of Replays.  Join(A, B) has what starts with an A and ends with a B.
Joined(A, B) == {a \o b : a \in A, b \in B}
Known == {p \in UNION {StartsOf(r) : r \in Replays} : Len(p) <= MaxSize}
Join(A, B) == {p \in Known : \E k \in 0 .. Len(p) :
                   SubSeq(p, 1, k) \in A /\ SubSeq(p, k + 1, Len(p)) \in B}

Byte == {<<b>> : b \in 0 .. 2}
Text == {w \o <<0>> : w \in Words(2, 1 .. 2)}
Sized == UNION {Joined({<<n>>}, [1 .. n -> 0 .. 2]) : n \in 0 .. 2}
Times(A) == {<<0>>} \cup Joined({<<1>>}, A) \cup Joined({<<2>>}, Joined(A, A))
Players == Times(Joined(Text, Byte))
Armies == Times(Joined(Sized, {<<NoPlayer>>} \cup Joined({<<0>>, <<1>>}, Byte)))
Header ==
    Join(Join(Join(Join(Join(Join(Join(Join(Join(
        Text, Byte), Text), Byte), Sized), Sized), Players), Byte), Armies), Byte)

MCPayload ==
    {<<>>, <<1>>, <<1, 1, 1, 2, 0>>}
    \cup {t \o l : t \in {P, G}, l \in GoodLines \cup BadLines}
    \cup {P \o <<1, 2, 0>> \o r : r \in Replays}
MCDigit == {1}
MCNotText == {3}

Accepted == {G \o l : l \in GoodLines}
            \cup {P \o l \o h : l \in GoodLines, h \in Header}

\* Which connections and replay headers are accepted depends on the bytes
\* alone: what is accepted is in the language, and what is refused, unless
\* the connection broke or ran out of time, starts with nothing that is.
HeadersAreTheLanguage ==
    /\ stage = "data" \/ result = "reader" => line \o header \in Accepted
    /\ result \in {"no data", "bad data", "io error"} /\ input # "failed" =>
           \A k \in 0 .. Len(payload) : SubSeq(payload, 1, k) \notin Accepted
=============================================================================
