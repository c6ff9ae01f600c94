--------------------------- MODULE MergeContract ---------------------------
(***************************************************************************)
(* What a merge strategy promises (replay/receive/merge_strategy.rs):      *)
(* writers send data, and a canonical stream grows out of it.  How the     *)
(* strategy picks between writers that disagree is left open.              *)
(***************************************************************************)
EXTENDS Integers, Sequences

CONSTANTS Writer, NoHeader

VARIABLES
    sent,       \* the data each writer has sent
    header,     \* the writer whose header the stream carries
    stream,     \* the merged data
    exposed,    \* how much of it readers may see
    finished

contractVars == <<sent, header, stream, exposed, finished>>

Extends(t, s) == Len(s) <= Len(t) /\ \A i \in 1 .. Len(s) : s[i] = t[i]

Start ==
    /\ sent = [w \in Writer |-> <<>>]
    /\ header = NoHeader
    /\ stream = <<>>
    /\ exposed = 0
    /\ finished = FALSE

\* A replay's data can only be appended to.
Send(w) ==
    /\ Extends(sent'[w], sent[w])
    /\ \A v \in Writer \ {w} : sent'[v] = sent[v]
    /\ UNCHANGED <<header, stream, exposed, finished>>

\* The header comes once, before any data.
AddHeader(w) ==
    /\ header = NoHeader /\ header' = w
    /\ stream = <<>> /\ ~finished
    /\ UNCHANGED <<sent, stream, exposed, finished>>

\* "Not inventing data from thin air": each byte was sent at that position.
Sent(i, byte) == \E w \in Writer : i <= Len(sent[w]) /\ sent[w][i] = byte

\* Merge more data, expose more of what is merged, or both.
Merge ==
    /\ ~finished
    /\ header # NoHeader
    /\ Extends(stream', stream)
    /\ \A i \in (Len(stream) + 1) .. Len(stream') : Sent(i, stream'[i])
    /\ exposed <= exposed' /\ exposed' <= Len(stream')
    /\ UNCHANGED <<sent, header, finished>>

\* At finish all outstanding data is merged and exposed: no writer sent a
\* continuation of the stream that the stream lacks.
Finish ==
    /\ ~finished /\ finished' = TRUE
    /\ exposed = Len(stream)
    /\ \A w \in Writer : Extends(sent[w], stream) => Len(sent[w]) = Len(stream)
    /\ UNCHANGED <<sent, header, stream, exposed>>

ContractNext ==
    \/ \E w \in Writer : ~finished /\ (Send(w) \/ AddHeader(w))
    \/ Merge
    \/ Finish

Contract == Start /\ [][ContractNext]_contractVars
=============================================================================
