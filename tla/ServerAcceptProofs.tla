------------------------- MODULE ServerAcceptProofs -------------------------
(***************************************************************************)
(* Proofs about ServerAccept, for any number of clients of either port:    *)
(* the gauge of connections is exact in every state.                       *)
(***************************************************************************)
EXTENDS ServerAccept, FiniteSetTheorems, SequenceTheorems, TLAPS

-----------------------------------------------------------------------------
(* The inductive invariant                                                 *)

Counted == {"header", "sending", "handed"}
ClientStage == {"away", "backlog", "handshake", "header", "sending", "handed", "gone"}
Labelled(l) == {c \in Client : stage[c] \in Counted /\ label[c] = l}

\* A listener's backlog holds each of its waiting clients once, and nobody else.
BacklogsHold ==
    \A p \in Port : \A i \in 1 .. Len(backlog[p]) :
        /\ stage[backlog[p][i]] = "backlog" /\ PortOf(backlog[p][i]) = p
        /\ \A j \in 1 .. Len(backlog[p]) : backlog[p][j] = backlog[p][i] => i = j

\* The pending handshake is with a client that has no Connection yet.
HandshakeHolds == handshake # NoOne => stage[handshake] = "handshake"

\* A Connection is labelled "initial" until its header is set.
NewAreInitial == \A c \in Client : stage[c] = "header" => label[c] = "initial"

AcceptInv == GaugesAreExact /\ BacklogsHold /\ HandshakeHolds /\ NewAreInitial

Exact == active \in [Label -> Nat] /\ \A l \in Label : active[l] = Cardinality(Labelled(l))

-----------------------------------------------------------------------------
(* Counting connections                                                    *)

\* There are finitely many clients, so each label has a number of them.
LEMMA LabelledIsFinite ==
    \A l \in Label : /\ IsFiniteSet(Labelled(l)) /\ Cardinality(Labelled(l)) \in Nat
                     /\ Cardinality(Labelled(l)') \in Nat
  <1> SUFFICES ASSUME NEW l \in Label
               PROVE  /\ IsFiniteSet(Labelled(l)) /\ Cardinality(Labelled(l)) \in Nat
                      /\ Cardinality(Labelled(l)') \in Nat
    OBVIOUS
  <1>1. IsFiniteSet(Client)
    BY ClientAssumption, FS_Union DEF Client
  <1>2. Labelled(l) \in SUBSET Client /\ Labelled(l)' \in SUBSET Client
    BY DEF Labelled
  <1>3. IsFiniteSet(Labelled(l)) /\ IsFiniteSet(Labelled(l)')
    BY <1>1, <1>2, FS_Subset
  <1>4. QED
    BY <1>3, FS_CardinalityType

\* GaugesAreExact in terms of Labelled.
LEMMA GaugesInShort ==
    /\ GaugesAreExact => TypeOK /\ Exact
    /\ TypeOK' /\ Exact' => GaugesAreExact'
  BY DEF GaugesAreExact, TypeOK, Exact, Labelled, Counted

\* What the gauge and the labels say of a client that changes its stage.
LEMMA GaugeUntouched ==
    ASSUME GaugesAreExact, UNCHANGED gaugeVars,
           \A d \in Client : stage'[d] \in Counted <=> stage[d] \in Counted
    PROVE  Exact'
  <1>1. \A l \in Label : Labelled(l)' = Labelled(l)
    BY DEF gaugeVars, Labelled
  <1>2. QED
    BY <1>1, GaugesInShort DEF gaugeVars, Exact

\* Connection::new_from: one more connection, under "initial".
LEMMA GaugeOpened ==
    ASSUME GaugesAreExact, NEW c \in Client, Opened(c),
           stage[c] \notin Counted, stage' = [stage EXCEPT ![c] = "header"]
    PROVE  Exact'
  <1> TypeOK
    BY DEF GaugesAreExact
  <1>1. \A d \in Client : /\ d # c => stage'[d] = stage[d] /\ label'[d] = label[d]
                          /\ d = c => stage'[d] = "header" /\ label'[d] = "initial"
    BY DEF Opened, TypeOK
  <1>2. /\ Labelled("initial")' = Labelled("initial") \cup {c}
        /\ c \notin Labelled("initial")
    BY <1>1 DEF Labelled, Counted
  <1>3. \A l \in Label : l # "initial" => Labelled(l)' = Labelled(l)
    BY <1>1 DEF Labelled, Counted
  <1>4. "initial" \in Label
    BY DEF Label
  <1>5. Cardinality(Labelled("initial")') = Cardinality(Labelled("initial")) + 1
    BY <1>2, <1>4, LabelledIsFinite, FS_AddElement
  <1>6. \A l \in Label : active'[l] = IF l = "initial" THEN active[l] + 1 ELSE active[l]
    BY <1>4 DEF Opened, TypeOK
  <1>7. \A l \in Label : active'[l] = Cardinality(Labelled(l)')
    BY <1>3, <1>5, <1>6, GaugesInShort DEF Exact
  <1>8. QED
    BY <1>6, <1>7, LabelledIsFinite, ZenonT(60) DEF Exact, TypeOK, Opened

\* Drop: those that are dropped are no longer counted.
LEMMA GaugeDropped ==
    ASSUME GaugesAreExact, NEW C \in SUBSET Client, Dropped(C),
           \A d \in C : stage[d] \in Counted,
           \A d \in Client : stage'[d] \in Counted <=> stage[d] \in Counted /\ d \notin C
    PROVE  Exact'
  <1> SUFFICES ASSUME NEW l \in Label
               PROVE  active'[l] = Cardinality(Labelled(l)')
    BY LabelledIsFinite DEF Exact, Dropped
  <1> DEFINE D == {d \in C : label[d] = l}
  <1>1. Labelled(l)' = Labelled(l) \ D /\ Labelled(l) \cap D = D
    BY DEF Labelled, Dropped
  <1>2. Cardinality(Labelled(l)') = Cardinality(Labelled(l)) - Cardinality(D)
    BY <1>1, LabelledIsFinite, FS_Difference
  <1>3. active'[l] = active[l] - Cardinality(D)
    BY DEF Dropped
  <1>4. QED
    BY <1>2, <1>3, GaugesInShort DEF Exact

\* set_header: a connection moves from one label to another.
LEMMA GaugeMoved ==
    ASSUME GaugesAreExact, NEW c \in Client, NEW type \in Label, SetHeader(c, type),
           stage[c] \in Counted, label[c] # type,
           \A d \in Client : stage'[d] \in Counted <=> stage[d] \in Counted
    PROVE  Exact'
  <1> TypeOK
    BY DEF GaugesAreExact
  <1> PICK old \in Label : old = label[c]
    BY DEF TypeOK
  <1>1. \A d \in Client : label'[d] = IF d = c THEN type ELSE label[d]
    BY DEF TypeOK, SetHeader
  <1>2. /\ Labelled(old)' = Labelled(old) \ {c} /\ c \in Labelled(old)
        /\ Labelled(type)' = Labelled(type) \cup {c} /\ c \notin Labelled(type)
        /\ \A l \in Label : l # old /\ l # type => Labelled(l)' = Labelled(l)
    BY <1>1 DEF Labelled
  <1>3. Cardinality(Labelled(old)') = Cardinality(Labelled(old)) - 1
    <2>1. PICK S : S = Labelled(old)
      OBVIOUS
    <2>2. IsFiniteSet(S) /\ c \in S /\ Labelled(old)' = S \ {c}
      BY <1>2, <2>1, LabelledIsFinite, Zenon
    <2>3. Cardinality(S \ {c}) = Cardinality(S) - 1
      BY <2>2, FS_RemoveElement
    <2>4. QED
      BY <2>1, <2>2, <2>3, Zenon
  <1>4. Cardinality(Labelled(type)') = Cardinality(Labelled(type)) + 1
    <2>1. PICK S : S = Labelled(type)
      OBVIOUS
    <2>2. IsFiniteSet(S) /\ c \notin S /\ Labelled(type)' = S \cup {c}
      BY <1>2, <2>1, LabelledIsFinite, Zenon
    <2>3. Cardinality(S \cup {c}) = Cardinality(S) + 1
      BY <2>2, FS_AddElement
    <2>4. QED
      BY <2>1, <2>2, <2>3, Zenon
  <1>5. \A l \in Label : active'[l] = IF l = old THEN active[l] - 1
                                      ELSE IF l = type THEN active[l] + 1 ELSE active[l]
    BY <1>1 DEF TypeOK, SetHeader
  <1>6. \A l \in Label : active'[l] = Cardinality(Labelled(l)')
    BY <1>2, <1>3, <1>4, <1>5, GaugesInShort DEF Exact
  <1>7. QED
    <2>1. active' = [l \in Label |-> active'[l]]
      BY DEF TypeOK, SetHeader
    <2>2. \A l \in Label : active'[l] \in Nat
      BY <1>6, LabelledIsFinite
    <2>3. active' \in [Label -> Nat]
      BY <2>1, <2>2
    <2>4. QED
      BY <1>6, <2>3 DEF Exact

-----------------------------------------------------------------------------
(* The listeners                                                           *)

\* What is at the head of a listener's backlog.
LEMMA WaitingClient ==
    ASSUME AcceptInv, NEW p \in Port, backlog[p] # <<>>
    PROVE  /\ backlog[p] \in Seq(Client) /\ Head(backlog[p]) \in Client
           /\ stage[Head(backlog[p])] = "backlog" /\ PortOf(Head(backlog[p])) = p
           /\ \A i \in 1 .. Len(Tail(backlog[p])) :
                /\ i + 1 \in 1 .. Len(backlog[p])
                /\ Tail(backlog[p])[i] = backlog[p][i + 1]
                /\ Tail(backlog[p])[i] # Head(backlog[p])
           /\ Tail(backlog[p]) \in Seq(Client)
  <1> DEFINE q == backlog[p]
  <1>1. q \in Seq(Client)
    BY DEF AcceptInv, GaugesAreExact, TypeOK
  <1>2. \A i \in 1 .. Len(q) : /\ stage[q[i]] = "backlog" /\ PortOf(q[i]) = p
                               /\ \A j \in 1 .. Len(q) : q[j] = q[i] => i = j
    BY DEF AcceptInv, BacklogsHold
  <1> HIDE DEF q
  <1>3. q # <<>>
    BY DEF q
  <1>4. Len(q) \in Nat \ {0} /\ 1 \in 1 .. Len(q)
    BY <1>1, <1>3, EmptySeq
  <1>5. Head(q) = q[1] /\ Head(q) \in Client /\ Tail(q) \in Seq(Client)
    BY <1>1, <1>3, HeadTailProperties
  <1>6. Len(Tail(q)) = Len(q) - 1 /\ \A i \in 1 .. Len(Tail(q)) : Tail(q)[i] = q[i + 1]
    BY <1>1, <1>3, HeadTailProperties
  <1>7. \A i \in 1 .. Len(Tail(q)) : i + 1 \in 1 .. Len(q) /\ i + 1 # 1
    BY <1>4, <1>6
  <1>8. \A i \in 1 .. Len(Tail(q)) : Tail(q)[i] # Head(q)
    BY <1>2, <1>4, <1>5, <1>6, <1>7
  <1>9. QED
    BY <1>1, <1>2, <1>4, <1>5, <1>6, <1>7, <1>8 DEF q

\* Clients that wait in no backlog may do as they please.
LEMMA BacklogUntouched ==
    ASSUME AcceptInv, UNCHANGED backlog,
           \A d \in Client : stage[d] = "backlog" => stage'[d] = "backlog"
    PROVE  BacklogsHold'
  <1>1. \A p \in Port : backlog[p] \in Seq(Client)
    BY DEF AcceptInv, GaugesAreExact, TypeOK
  <1>2. \A p \in Port : \A i \in 1 .. Len(backlog[p]) : backlog[p][i] \in Client
    BY <1>1, ElementOfSeq
  <1>3. QED
    BY <1>2 DEF AcceptInv, BacklogsHold

\* A stream takes the first client out of its listener's backlog.
LEMMA BacklogAccepts ==
    ASSUME AcceptInv, NEW p \in Port, NEW c, NEW next \in ClientStage, Accepts(p, c, next)
    PROVE  /\ c \in Client /\ stage[c] = "backlog" /\ PortOf(c) = p
           /\ stage' = [stage EXCEPT ![c] = next]
           /\ UNCHANGED <<server, listening, shutdown>>
           /\ backlog' \in [Port -> Seq(Client)]
           /\ next # "backlog" => BacklogsHold'
  <1>1. /\ backlog[p] # <<>> /\ c = Head(backlog[p])
        /\ backlog' = [backlog EXCEPT ![p] = Tail(backlog[p])]
        /\ stage' = [stage EXCEPT ![c] = next]
        /\ UNCHANGED <<server, listening, shutdown>>
    BY DEF Accepts, MayAccept
  <1>2. c \in Client /\ stage[c] = "backlog" /\ PortOf(c) = p
    BY <1>1, WaitingClient
  <1> DEFINE q == backlog[p]
             t == Tail(q)
  <1>3. /\ t \in Seq(Client)
        /\ \A i \in 1 .. Len(t) : i + 1 \in 1 .. Len(q) /\ t[i] = q[i + 1] /\ t[i] # c
    BY <1>1, WaitingClient
  <1>4. backlog \in [Port -> Seq(Client)] /\ stage \in [Client -> ClientStage]
    BY DEF AcceptInv, GaugesAreExact, TypeOK, ClientStage
  <1> HIDE DEF q, t
  <1>5. /\ backlog' \in [Port -> Seq(Client)]
        /\ \A r \in Port : backlog'[r] = IF r = p THEN t ELSE backlog[r]
    BY <1>1, <1>3, <1>4 DEF t, q
  <1>6. ASSUME next # "backlog" PROVE BacklogsHold'
    <2>1. \A d \in Client : d # c => stage'[d] = stage[d]
      BY <1>1, <1>4
    <2> SUFFICES ASSUME NEW r \in Port, NEW i \in 1 .. Len(backlog'[r])
                 PROVE  /\ stage'[backlog'[r][i]] = "backlog" /\ PortOf(backlog'[r][i]) = r
                        /\ \A j \in 1 .. Len(backlog'[r]) :
                                backlog'[r][j] = backlog'[r][i] => i = j
      BY DEF BacklogsHold
    <2>2. CASE r = p
      <3>1. /\ i \in 1 .. Len(t) /\ i + 1 \in 1 .. Len(q) /\ t[i] = q[i + 1] /\ t[i] # c
            /\ backlog'[r] = t
        BY <1>3, <1>5, <2>2
      <3>2. /\ q[i + 1] \in Client
            /\ stage[q[i + 1]] = "backlog" /\ PortOf(q[i + 1]) = p
            /\ \A j \in 1 .. Len(q) : q[j] = q[i + 1] => i + 1 = j
        BY <1>4, <3>1, ElementOfSeq DEF AcceptInv, BacklogsHold, q
      <3>3. \A j \in 1 .. Len(t) : t[j] = t[i] => i = j
        <4>1. \A j \in 1 .. Len(t) : t[j] = t[i] => i + 1 = j + 1
          BY <1>3, <3>1, <3>2
        <4>2. QED
          BY <1>3, <4>1, LenProperties
      <3>4. QED
        BY <2>1, <2>2, <3>1, <3>2, <3>3
    <2>3. CASE r # p
      <3>1. backlog'[r] = backlog[r]
        BY <1>5, <2>3
      <3>2. /\ backlog[r][i] \in Client
            /\ stage[backlog[r][i]] = "backlog" /\ PortOf(backlog[r][i]) = r
            /\ \A j \in 1 .. Len(backlog[r]) : backlog[r][j] = backlog[r][i] => i = j
        BY <1>4, <3>1, ElementOfSeq DEF AcceptInv, BacklogsHold
      <3>3. backlog[r][i] # c
        BY <1>2, <2>3, <3>2
      <3>4. QED
        BY <2>1, <3>1, <3>2, <3>3
    <2>4. QED
      BY <2>2, <2>3
  <1>7. QED
    BY <1>1, <1>2, <1>5, <1>6

\* The kernel queues a client behind those that wait.
LEMMA BacklogConnects ==
    ASSUME AcceptInv, NEW c \in Client, Connect(c)
    PROVE  backlog' \in [Port -> Seq(Client)] /\ BacklogsHold'
  <1> DEFINE p == PortOf(c)
             q == backlog[p]
             s == Append(q, c)
  <1>0. p \in Port
    BY DEF PortOf, Port
  <1>1. /\ stage[c] = "away" /\ stage' = [stage EXCEPT ![c] = "backlog"]
        /\ backlog' = [backlog EXCEPT ![p] = s]
    BY DEF Connect
  <1>2. backlog \in [Port -> Seq(Client)] /\ stage \in [Client -> ClientStage]
    BY DEF AcceptInv, GaugesAreExact, TypeOK, ClientStage
  <1> HIDE DEF p
  <1>3. q \in Seq(Client) /\ Len(q) \in Nat
    BY <1>0, <1>2, LenProperties
  <1>4. /\ s \in Seq(Client) /\ Len(s) = Len(q) + 1
        /\ \A i \in 1 .. Len(q) : s[i] = q[i]
        /\ s[Len(q) + 1] = c
    BY <1>3, AppendProperties
  <1>5. \A r \in Port : \A i \in 1 .. Len(backlog[r]) :
            /\ backlog[r][i] \in Client /\ stage[backlog[r][i]] = "backlog"
            /\ PortOf(backlog[r][i]) = r
            /\ \A j \in 1 .. Len(backlog[r]) : backlog[r][j] = backlog[r][i] => i = j
    BY <1>2, ElementOfSeq DEF AcceptInv, BacklogsHold
  <1>6. \A i \in 1 .. Len(q) :
            /\ q[i] \in Client /\ stage[q[i]] = "backlog" /\ PortOf(q[i]) = p /\ q[i] # c
            /\ \A j \in 1 .. Len(q) : q[j] = q[i] => i = j
    BY <1>0, <1>1, <1>5
  <1>7. /\ \A d \in Client : d # c => stage'[d] = stage[d]
        /\ stage'[c] = "backlog"
    BY <1>1, <1>2
  <1> HIDE DEF s
  <1>8. /\ backlog' \in [Port -> Seq(Client)]
        /\ \A r \in Port : backlog'[r] = IF r = p THEN s ELSE backlog[r]
    BY <1>0, <1>1, <1>2, <1>4
  <1> HIDE DEF q
  <1>9. \A i \in 1 .. Len(s) : (i \in 1 .. Len(q) /\ s[i] = q[i]) \/ (i = Len(q) + 1 /\ s[i] = c)
    BY <1>3, <1>4
  <1>10. \A i \in 1 .. Len(s) :
            /\ stage'[s[i]] = "backlog" /\ PortOf(s[i]) = p
            /\ \A j \in 1 .. Len(s) : s[j] = s[i] => i = j
    <2>1. PortOf(c) = p
      BY DEF p
    <2>2. QED
      BY <1>6, <1>7, <1>9, <2>1
  <1>11. BacklogsHold'
    <2> SUFFICES ASSUME NEW r \in Port, NEW i \in 1 .. Len(backlog'[r])
                 PROVE  /\ stage'[backlog'[r][i]] = "backlog" /\ PortOf(backlog'[r][i]) = r
                        /\ \A j \in 1 .. Len(backlog'[r]) :
                                backlog'[r][j] = backlog'[r][i] => i = j
      BY DEF BacklogsHold
    <2>1. CASE r = p
      BY <1>8, <1>10, <2>1
    <2>2. CASE r # p
      BY <1>1, <1>5, <1>7, <1>8, <2>2
    <2>3. QED
      BY <2>1, <2>2
  <1>12. QED
    BY <1>8, <1>11

-----------------------------------------------------------------------------
(* The gauge is exact                                                      *)

\* No client has come yet.
LEMMA InitAcceptInv == Init => AcceptInv
  <1> SUFFICES ASSUME Init PROVE AcceptInv
    OBVIOUS
  <1>1. \A l \in Label : Labelled(l) = {}
    BY DEF Init, Labelled, Counted
  <1>2. \A l \in Label : active[l] = Cardinality(Labelled(l))
    BY <1>1, FS_EmptySet DEF Init
  <1>3. TypeOK
    BY EmptySeq DEF Init, TypeOK, Label, Port
  <1>4. GaugesAreExact
    BY <1>2, <1>3 DEF GaugesAreExact, Labelled, Counted
  <1>5. Len(<<>>) = 0
    OBVIOUS
  <1>6. BacklogsHold /\ HandshakeHolds /\ NewAreInitial
    BY <1>5 DEF Init, BacklogsHold, HandshakeHolds, NewAreInitial, NoOne
  <1>7. QED
    BY <1>4, <1>6 DEF AcceptInv

\* A step of one client, from a stage that is not "backlog" to one that is not
\* either, and that leaves the handshake alone or ends it.
LEMMA ClientStep ==
    ASSUME AcceptInv, NEW c \in Client, NEW to \in ClientStage,
           stage[c] # "backlog", stage' = [stage EXCEPT ![c] = to],
           UNCHANGED <<listening, backlog, shutdown>>, server' = server,
           \/ handshake' = NoOne
           \/ handshake' = handshake /\ handshake # c,
           to = "header" => label'[c] = "initial",
           \A d \in Client : d # c => label'[d] = label[d],
           label' \in [Client -> Label], Exact'
    PROVE  AcceptInv'
  <1>1. stage \in [Client -> ClientStage] /\ TypeOK
    BY DEF AcceptInv, GaugesAreExact, TypeOK, ClientStage
  <1>2. \A d \in Client : stage'[d] = IF d = c THEN to ELSE stage[d]
    BY <1>1
  <1>3. TypeOK'
    <2>1. stage' \in [Client -> ClientStage]
      BY <1>1
    <2>2. handshake' \in WebsocketClient \cup {NoOne}
      BY <1>1 DEF TypeOK
    <2>3. QED
      BY <1>1, <2>1, <2>2 DEF TypeOK, Exact, ClientStage
  <1>4. GaugesAreExact'
    BY <1>3, GaugesInShort
  <1>5. BacklogsHold'
    BY <1>2, BacklogUntouched
  <1>6. HandshakeHolds'
    <2>1. handshake # NoOne => handshake \in Client
      BY <1>1 DEF TypeOK, Client
    <2>2. QED
      BY <1>2, <2>1 DEF AcceptInv, HandshakeHolds
  <1>7. NewAreInitial'
    BY <1>2 DEF AcceptInv, NewAreInitial
  <1>8. QED
    BY <1>4, <1>5, <1>6, <1>7 DEF AcceptInv

\* The handshake is over, the header read or not, or the connection done with.
LEMMA ClientKeeps ==
    ASSUME AcceptInv, NEW c \in Client,
           \/ HandshakeSucceeds(c) \/ HandshakeFails(c)
           \/ \E type \in {"reader", "writer"} : HeaderRead(c, type)
           \/ HeaderFails(c) \/ Dispatch(c) \/ Settle(c)
    PROVE  AcceptInv'
  <1> TypeOK /\ GaugesAreExact /\ c # NoOne
    BY NoOneAssumption DEF AcceptInv, GaugesAreExact
  <1>1. stage \in [Client -> ClientStage] /\ label \in [Client -> Label]
    BY DEF TypeOK, ClientStage
  <1>2. stage[c] # "handshake" => handshake # c
    BY DEF AcceptInv, HandshakeHolds
  <1>3. CASE HandshakeSucceeds(c)
    <2>1. /\ stage' = [stage EXCEPT ![c] = "header"] /\ handshake = c /\ handshake' = NoOne
          /\ Opened(c) /\ UNCHANGED <<server, listening, backlog, shutdown>>
      BY <1>3 DEF HandshakeSucceeds
    <2>2. stage[c] = "handshake"
      BY <2>1 DEF AcceptInv, HandshakeHolds
    <2>3. Exact'
      BY <2>1, <2>2, GaugeOpened DEF Counted
    <2>4. label' \in [Client -> Label] /\ \A d \in Client : label'[d] = IF d = c THEN "initial" ELSE label[d]
      BY <1>1, <2>1 DEF Opened, Label
    <2>5. QED
      BY <2>1, <2>2, <2>3, <2>4, ClientStep DEF ClientStage
  <1>4. CASE HandshakeFails(c)
    <2>1. /\ stage' = [stage EXCEPT ![c] = "gone"] /\ handshake = c /\ handshake' = NoOne
          /\ UNCHANGED <<server, listening, backlog, gaugeVars, shutdown>>
      BY <1>4 DEF HandshakeFails
    <2>2. stage[c] = "handshake"
      BY <2>1 DEF AcceptInv, HandshakeHolds
    <2>3. \A d \in Client : stage'[d] \in Counted <=> stage[d] \in Counted
      BY <1>1, <2>1, <2>2 DEF Counted
    <2>4. Exact'
      BY <2>1, <2>3, GaugeUntouched
    <2>5. QED
      BY <1>1, <2>1, <2>2, <2>4, ClientStep DEF ClientStage, gaugeVars
  <1>5. ASSUME NEW type \in {"reader", "writer"}, HeaderRead(c, type)
        PROVE  AcceptInv'
    <2>1. /\ stage[c] = "header" /\ stage' = [stage EXCEPT ![c] = "sending"]
          /\ SetHeader(c, type) /\ UNCHANGED <<server, listening, backlog, handshake, shutdown>>
      BY <1>5 DEF HeaderRead
    <2>2. label[c] # type /\ type \in Label
      BY <2>1 DEF AcceptInv, NewAreInitial, Label
    <2>3. \A d \in Client : stage'[d] \in Counted <=> stage[d] \in Counted
      BY <1>1, <2>1 DEF Counted
    <2>4. Exact'
      BY <2>1, <2>2, <2>3, GaugeMoved DEF Counted
    <2>5. label' \in [Client -> Label] /\ \A d \in Client : d # c => label'[d] = label[d]
      BY <1>1, <2>1, <2>2 DEF SetHeader
    <2>6. QED
      BY <1>2, <2>1, <2>4, <2>5, ClientStep DEF ClientStage
  <1>6. CASE Dispatch(c)
    <2>1. /\ stage[c] = "sending" /\ stage' = [stage EXCEPT ![c] = "handed"]
          /\ UNCHANGED <<server, listening, backlog, handshake, gaugeVars, shutdown>>
      BY <1>6 DEF Dispatch
    <2>2. \A d \in Client : stage'[d] \in Counted <=> stage[d] \in Counted
      BY <1>1, <2>1 DEF Counted
    <2>3. Exact'
      BY <2>1, <2>2, GaugeUntouched
    <2>4. QED
      BY <1>1, <1>2, <2>1, <2>3, ClientStep DEF ClientStage, gaugeVars
  <1>7. CASE HeaderFails(c) \/ Settle(c)
    <2>1. /\ stage[c] \in {"header", "handed"} /\ stage' = [stage EXCEPT ![c] = "gone"]
          /\ Dropped({c})
          /\ UNCHANGED <<server, listening, backlog, handshake, shutdown>>
      BY <1>7 DEF HeaderFails, Settle
    <2>2. \A d \in Client : stage'[d] \in Counted <=> stage[d] \in Counted /\ d \notin {c}
      BY <1>1, <2>1 DEF Counted
    <2>3. Exact'
      BY <2>1, <2>2, GaugeDropped DEF Counted
    <2>4. QED
      BY <1>1, <1>2, <2>1, <2>3, ClientStep DEF ClientStage, Dropped
  <1>8. QED
    BY <1>3, <1>4, <1>5, <1>6, <1>7

\* A client is queued, and then accepted by the stream of its listener.
LEMMA ListenersKeep ==
    ASSUME AcceptInv, NEW c \in Client,
           Connect(c) \/ AcceptFails(c) \/ AcceptTcp(c) \/ AcceptWebsocket(c)
    PROVE  AcceptInv'
  <1> TypeOK /\ GaugesAreExact /\ c # NoOne
    BY NoOneAssumption DEF AcceptInv, GaugesAreExact
  <1>1. stage \in [Client -> ClientStage] /\ label \in [Client -> Label]
    BY DEF TypeOK, ClientStage
  <1>2. stage[c] # "handshake" => handshake # c
    BY DEF AcceptInv, HandshakeHolds
  <1>3. PortOf(c) \in Port /\ "tcp" \in Port /\ "websocket" \in Port
    BY DEF PortOf, Port
  <1>4. handshake # NoOne => handshake \in Client
    BY DEF TypeOK, Client
  <1>5. CASE Connect(c)
    <2>1. /\ stage[c] = "away" /\ stage' = [stage EXCEPT ![c] = "backlog"]
          /\ UNCHANGED <<server, listening, handshake, gaugeVars, shutdown>>
      BY <1>5 DEF Connect
    <2>2. \A d \in Client : stage'[d] = IF d = c THEN "backlog" ELSE stage[d]
      BY <1>1, <2>1
    <2>3. Exact'
      BY <2>1, <2>2, GaugeUntouched DEF Counted
    <2>4. TypeOK' /\ BacklogsHold'
      BY <1>5, <2>1, <2>3, BacklogConnects DEF TypeOK, Exact, gaugeVars
    <2>5. HandshakeHolds' /\ NewAreInitial'
      BY <1>2, <1>4, <2>1, <2>2 DEF AcceptInv, HandshakeHolds, NewAreInitial, gaugeVars
    <2>6. QED
      BY <2>3, <2>4, <2>5, GaugesInShort DEF AcceptInv
  <1>6. CASE AcceptFails(c)
    <2>1. Accepts(PortOf(c), c, "gone") /\ UNCHANGED <<handshake, gaugeVars>>
      BY <1>6 DEF AcceptFails
    <2>2. /\ stage[c] = "backlog" /\ stage' = [stage EXCEPT ![c] = "gone"]
          /\ UNCHANGED <<server, listening, shutdown>>
          /\ backlog' \in [Port -> Seq(Client)] /\ BacklogsHold'
      BY <1>3, <2>1, BacklogAccepts DEF ClientStage
    <2>3. \A d \in Client : stage'[d] = IF d = c THEN "gone" ELSE stage[d]
      BY <1>1, <2>2
    <2>4. Exact'
      BY <2>1, <2>2, <2>3, GaugeUntouched DEF Counted
    <2>5. TypeOK'
      BY <2>1, <2>2, <2>4 DEF TypeOK, Exact, gaugeVars
    <2>6. HandshakeHolds' /\ NewAreInitial'
      BY <1>2, <1>4, <2>1, <2>2, <2>3
      DEF AcceptInv, HandshakeHolds, NewAreInitial, gaugeVars
    <2>7. QED
      BY <2>2, <2>4, <2>5, <2>6, GaugesInShort DEF AcceptInv
  <1>7. CASE AcceptTcp(c)
    <2>1. Accepts("tcp", c, "header") /\ Opened(c) /\ UNCHANGED handshake
      BY <1>7 DEF AcceptTcp
    <2>2. /\ stage[c] = "backlog" /\ stage' = [stage EXCEPT ![c] = "header"]
          /\ UNCHANGED <<server, listening, shutdown>>
          /\ backlog' \in [Port -> Seq(Client)] /\ BacklogsHold'
      BY <1>3, <2>1, BacklogAccepts DEF ClientStage
    <2>3. \A d \in Client : stage'[d] = IF d = c THEN "header" ELSE stage[d]
      BY <1>1, <2>2
    <2>4. Exact'
      BY <2>1, <2>2, GaugeOpened DEF Counted
    <2>5. label' \in [Client -> Label] /\ \A d \in Client : label'[d] = IF d = c THEN "initial" ELSE label[d]
      BY <1>1, <2>1 DEF Opened, Label
    <2>6. TypeOK'
      BY <2>1, <2>2, <2>4, <2>5 DEF TypeOK, Exact
    <2>7. HandshakeHolds' /\ NewAreInitial'
      BY <1>2, <1>4, <2>1, <2>2, <2>3, <2>5 DEF AcceptInv, HandshakeHolds, NewAreInitial
    <2>8. QED
      BY <2>2, <2>4, <2>6, <2>7, GaugesInShort DEF AcceptInv
  <1>8. CASE AcceptWebsocket(c)
    <2>1. Accepts("websocket", c, "handshake") /\ handshake' = c /\ UNCHANGED gaugeVars
      BY <1>8 DEF AcceptWebsocket
    <2>2. /\ stage[c] = "backlog" /\ stage' = [stage EXCEPT ![c] = "handshake"]
          /\ UNCHANGED <<server, listening, shutdown>> /\ PortOf(c) = "websocket"
          /\ backlog' \in [Port -> Seq(Client)] /\ BacklogsHold'
      BY <1>3, <2>1, BacklogAccepts DEF ClientStage
    <2>3. \A d \in Client : stage'[d] = IF d = c THEN "handshake" ELSE stage[d]
      BY <1>1, <2>2
    <2>4. Exact'
      BY <2>1, <2>2, <2>3, GaugeUntouched DEF Counted
    <2>5. c \in WebsocketClient
      BY <2>2 DEF PortOf, Client
    <2>6. TypeOK'
      BY <2>1, <2>2, <2>4, <2>5 DEF TypeOK, Exact, gaugeVars
    <2>7. HandshakeHolds' /\ NewAreInitial'
      BY <2>1, <2>3 DEF AcceptInv, HandshakeHolds, NewAreInitial, gaugeVars
    <2>8. QED
      BY <2>2, <2>4, <2>6, <2>7, GaugesInShort DEF AcceptInv
  <1>9. QED
    BY <1>5, <1>6, <1>7, <1>8

\* Starting up and a signal concern no client.
LEMMA StartKeeps ==
    ASSUME AcceptInv,
           \/ \E config \in Config : LoadConfig(config)
           \/ StartPrometheus \/ Bind \/ Signal \/ UNCHANGED vars
    PROVE  AcceptInv'
  <1>1. UNCHANGED <<clientVars, gaugeVars>>
    BY DEF LoadConfig, StartPrometheus, Bind, Signal, vars
  <1>2. TypeOK'
    <2>1. TypeOK
      BY DEF AcceptInv, GaugesAreExact
    <2>2. ASSUME NEW config \in Config, LoadConfig(config) PROVE TypeOK'
      <3>1. config.ports \in SUBSET Port
        BY DEF Config
      <3>2. QED
        BY <1>1, <2>1, <2>2, <3>1 DEF LoadConfig, TypeOK, clientVars, gaugeVars
    <2>3. QED
      BY <1>1, <2>1, <2>2
      DEF StartPrometheus, Bind, Signal, vars, TypeOK, clientVars, gaugeVars
  <1>3. GaugesAreExact'
    BY <1>1, <1>2, GaugeUntouched, GaugesInShort DEF AcceptInv, clientVars
  <1>4. BacklogsHold' /\ HandshakeHolds' /\ NewAreInitial'
    BY <1>1 DEF AcceptInv, BacklogsHold, HandshakeHolds, NewAreInitial, clientVars, gaugeVars
  <1>5. QED
    BY <1>3, <1>4 DEF AcceptInv

\* cancellable drops the loop with everything in it.
LEMMA StopKeeps ==
    ASSUME AcceptInv, StopServer
    PROVE  AcceptInv'
  <1> DEFINE C == {d \in Client : stage[d] \in {"header", "sending"}}
  <1>0. TypeOK /\ GaugesAreExact
    BY DEF AcceptInv, GaugesAreExact
  <1>1. /\ backlog' = [p \in Port |-> <<>>] /\ handshake' = NoOne
        /\ stage' = [c \in Client |->
                    IF stage[c] \in {"away", "handed"} THEN stage[c] ELSE "gone"]
        /\ Dropped(C) /\ UNCHANGED <<listening, shutdown>> /\ server' = "stopped"
    BY DEF StopServer
  <1>2. \A d \in Client : stage'[d] \in Counted <=> stage[d] \in Counted /\ d \notin C
    BY <1>1 DEF Counted
  <1>3. \A d \in C : stage[d] \in Counted
    BY DEF Counted
  <1>4. Exact'
    <2> HIDE DEF C
    <2>1. C \in SUBSET Client
      BY DEF C
    <2>2. QED
      BY <1>0, <1>1, <1>2, <1>3, <2>1, GaugeDropped
  <1>5. TypeOK'
    <2>1. stage' \in [Client -> ClientStage]
      BY <1>1 DEF ClientStage
    <2>2. backlog' \in [Port -> Seq(Client)]
      BY <1>1, EmptySeq
    <2>3. QED
      BY <1>0, <1>1, <1>4, <2>1, <2>2 DEF TypeOK, Exact, ClientStage, Dropped
  <1>6. Len(<<>>) = 0
    OBVIOUS
  <1>7. BacklogsHold' /\ HandshakeHolds' /\ NewAreInitial'
    BY <1>1, <1>6 DEF BacklogsHold, HandshakeHolds, NewAreInitial
  <1>8. QED
    BY <1>4, <1>5, <1>7, GaugesInShort DEF AcceptInv

\* ACTIVE_CONNS counts the connections that exist, under the labels that they
\* have: Connection::new_from, set_header and Drop, wherever a connection ends.
THEOREM GaugesCount == Spec => []GaugesAreExact
  <1>1. AcceptInv /\ [Next]_vars => AcceptInv'
    BY ClientKeeps, ListenersKeep, StartKeeps, StopKeeps DEF Next, Terminated
  <1>2. AcceptInv => GaugesAreExact
    BY DEF AcceptInv
  <1>3. QED
    BY InitAcceptInv, <1>1, <1>2, PTL DEF Spec
=============================================================================
