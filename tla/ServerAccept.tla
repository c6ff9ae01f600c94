---------------------------- MODULE ServerAccept ----------------------------
(***************************************************************************)
(* From the start of the process to a connection that has its header: the  *)
(* configuration (config.rs), the listening sockets and the websocket      *)
(* handshake (accept/producer.rs, server/websocket_stream.rs), the accept  *)
(* loop (server/server.rs), and the gauge every Connection keeps up to     *)
(* date (server/connection.rs, metrics.rs).                                *)
(*                                                                         *)
(* All of this is one task on the main thread.  A step is what it does     *)
(* between two awaits.  ReplayServer has the workers behind `handed'.      *)
(***************************************************************************)
EXTENDS Integers, Sequences, FiniteSets

CONSTANTS
    TcpClient,          \* clients of server.port
    WebsocketClient     \* clients of server.websocket_port

ASSUME ClientAssumption ==
    /\ IsFiniteSet(TcpClient) /\ IsFiniteSet(WebsocketClient)
    /\ TcpClient \cap WebsocketClient = {}

Client == TcpClient \cup WebsocketClient
Port == {"tcp", "websocket"}
PortOf(c) == IF c \in TcpClient THEN "tcp" ELSE "websocket"

NoOne == "none"
ASSUME NoOneAssumption == NoOne \notin Client

\* Labels of ACTIVE_CONNS: the state of the header of a Connection.
Label == {"initial", "reader", "writer"}

VARIABLES
    server,     \* how far do_run_server and Server::run are
    listening,  \* the ports of the configuration that was loaded
    backlog,    \* per port: connections its listener has not accepted
    handshake,  \* whom the websocket stream's pending future is about
    stage,      \* where each client is
    label,      \* per client: header2label of its Connection
    active,     \* ACTIVE_CONNS
    shutdown    \* shutdown_token

clientVars == <<backlog, handshake, stage>>
gaugeVars == <<label, active>>
vars == <<server, listening, clientVars, gaugeVars, shutdown>>

-----------------------------------------------------------------------------
(* Starting up                                                             *)

\* What the environment and the file may hold, as far as loading looks at it;
\* of the durations, the shortest.
Config == [file : BOOLEAN, password : BOOLEAN, shortest : -1 .. 1, ports : SUBSET Port]

\* float_to_duration
IsDuration(seconds) == seconds > 0

\* InnerSettings::do_from_env
IsValid(config) ==
    /\ config.file /\ config.password
    /\ IsDuration(config.shortest)
    /\ config.ports # {}

LoadConfig(config) ==
    /\ server = "starting"
    /\ IF IsValid(config)
       THEN server' = "configured" /\ listening' = config.ports
       ELSE server' = "exited" /\ UNCHANGED listening
    /\ UNCHANGED <<clientVars, gaugeVars, shutdown>>

\* start_prometheus_server, whose failure ends do_run_server.
StartPrometheus ==
    /\ server = "configured"
    /\ server' \in {"binding", "exited"}
    /\ UNCHANGED <<listening, clientVars, gaugeVars, shutdown>>

\* collect_server_connections; a port that is taken panics.
Bind ==
    /\ server = "binding"
    /\ server' \in {"running", "exited"}
    /\ UNCHANGED <<listening, clientVars, gaugeVars, shutdown>>

-----------------------------------------------------------------------------
(* The gauge                                                               *)

\* Connection::new_from: a connection without a header.
Opened(c) ==
    /\ label' = [label EXCEPT ![c] = "initial"]
    /\ active' = [active EXCEPT !["initial"] = @ + 1]

\* Mutant of SetHeader: set_metric without the reset_metric before it.
SetHeaderOnly(c, type) ==
    /\ label' = [label EXCEPT ![c] = type]
    /\ active' = [active EXCEPT ![type] = @ + 1]

\* set_header moves it from one label to the other.
SetHeader(c, type) ==
    /\ label' = [label EXCEPT ![c] = type]
    /\ active' = [active EXCEPT ![label[c]] = @ - 1, ![type] = @ + 1]

\* Drop, for every Connection in C.
Dropped(C) ==
    /\ active' = [l \in Label |->
                     active[l] - Cardinality({c \in C : label[c] = l})]
    /\ UNCHANGED label

-----------------------------------------------------------------------------
(* The listening streams                                                   *)

\* A client connects; the kernel queues it.
Connect(c) ==
    /\ server = "running" /\ PortOf(c) \in listening
    /\ stage[c] = "away"
    /\ stage' = [stage EXCEPT ![c] = "backlog"]
    /\ backlog' = [backlog EXCEPT ![PortOf(c)] = Append(@, c)]
    /\ UNCHANGED <<server, listening, handshake, gaugeVars, shutdown>>

\* Mutant of MayAccept: the handshake happens on the merged stream.
MayAcceptWhenIdle(port) ==
    /\ server = "running"
    /\ backlog[port] # <<>>
    /\ handshake = NoOne

\* filter_map takes one item at a time: nothing is polled from the listener
\* while the future of the item before it is pending.
MayAccept(port) ==
    /\ server = "running"
    /\ backlog[port] # <<>>
    /\ port = "websocket" => handshake = NoOne

Accepts(port, c, next) ==
    /\ MayAccept(port)
    /\ c = Head(backlog[port])
    /\ backlog' = [backlog EXCEPT ![port] = Tail(@)]
    /\ stage' = [stage EXCEPT ![c] = next]
    /\ UNCHANGED <<server, listening, shutdown>>

\* accept() failed for the next connection; it is filtered out.
AcceptFails(c) == Accepts(PortOf(c), c, "gone") /\ UNCHANGED <<handshake, gaugeVars>>

AcceptTcp(c) == Accepts("tcp", c, "header") /\ Opened(c) /\ UNCHANGED handshake

\* The future of websocket_listen's filter_map: ServerBuilder::accept.
AcceptWebsocket(c) ==
    /\ Accepts("websocket", c, "handshake")
    /\ handshake' = c
    /\ UNCHANGED gaugeVars

HandshakeSucceeds(c) ==
    /\ server = "running" /\ handshake = c
    /\ handshake' = NoOne
    /\ stage' = [stage EXCEPT ![c] = "header"]
    /\ Opened(c)
    /\ UNCHANGED <<server, listening, backlog, shutdown>>

\* The client sent something else, or hung up.
HandshakeFails(c) ==
    /\ server = "running" /\ handshake = c
    /\ handshake' = NoOne
    /\ stage' = [stage EXCEPT ![c] = "gone"]
    /\ UNCHANGED <<server, listening, backlog, gaugeVars, shutdown>>

-----------------------------------------------------------------------------
(* The accept loop                                                         *)

HeaderRead(c, type) ==
    /\ server = "running" /\ stage[c] = "header"
    /\ stage' = [stage EXCEPT ![c] = "sending"]
    /\ SetHeader(c, type)
    /\ UNCHANGED <<server, listening, backlog, handshake, shutdown>>

\* Mutant of HeaderFails: no timeout around reading the header.
HeaderNeverTimesOut(c) == FALSE /\ stage[c] = "header" /\ UNCHANGED vars

\* No data, bad data, an error, or connection_accept_timeout_s.
HeaderFails(c) ==
    /\ server = "running" /\ stage[c] = "header"
    /\ stage' = [stage EXCEPT ![c] = "gone"]
    /\ Dropped({c})
    /\ UNCHANGED <<server, listening, backlog, handshake, shutdown>>

\* The worker has room.
Dispatch(c) ==
    /\ server = "running" /\ stage[c] = "sending"
    /\ stage' = [stage EXCEPT ![c] = "handed"]
    /\ UNCHANGED <<server, listening, backlog, handshake, gaugeVars, shutdown>>

\* A worker refused the connection or is done with it.
Settle(c) ==
    /\ stage[c] = "handed"
    /\ stage' = [stage EXCEPT ![c] = "gone"]
    /\ Dropped({c})
    /\ UNCHANGED <<server, listening, backlog, handshake, shutdown>>

Signal ==
    /\ server = "running" /\ ~shutdown
    /\ shutdown' = TRUE
    /\ UNCHANGED <<server, listening, clientVars, gaugeVars>>

\* cancellable drops the streams and every future of the loop.
StopServer ==
    /\ server = "running" /\ shutdown
    /\ server' = "stopped"
    /\ backlog' = [p \in Port |-> <<>>]
    /\ handshake' = NoOne
    /\ stage' = [c \in Client |->
                    IF stage[c] \in {"away", "handed"} THEN stage[c] ELSE "gone"]
    /\ Dropped({c \in Client : stage[c] \in {"header", "sending"}})
    /\ UNCHANGED <<listening, shutdown>>

-----------------------------------------------------------------------------
Init ==
    /\ server = "starting"
    /\ listening = {}
    /\ backlog = [p \in Port |-> <<>>]
    /\ handshake = NoOne
    /\ stage = [c \in Client |-> "away"]
    /\ label = [c \in Client |-> "initial"]
    /\ active = [l \in Label |-> 0]
    /\ shutdown = FALSE

\* Nothing is left to do for the process.
Terminated ==
    /\ server \in {"stopped", "exited"}
    /\ \A c \in Client : stage[c] \in {"away", "gone"}
    /\ UNCHANGED vars

Next ==
    \/ \E config \in Config : LoadConfig(config)
    \/ StartPrometheus \/ Bind \/ Signal \/ StopServer \/ Terminated
    \/ \E c \in Client :
        \/ Connect(c) \/ AcceptFails(c) \/ AcceptTcp(c) \/ AcceptWebsocket(c)
        \/ HandshakeSucceeds(c) \/ HandshakeFails(c)
        \/ \E type \in {"reader", "writer"} : HeaderRead(c, type)
        \/ HeaderFails(c) \/ Dispatch(c) \/ Settle(c)

Spec == Init /\ [][Next]_vars

\* The task is polled, the accept timeout fires, and workers take what they
\* are handed (ReplayServer!NobodyIsStuck).  A client need not finish its
\* handshake, nor a worker its connection.
Fairness ==
    /\ WF_vars(StopServer)
    /\ \A c \in Client :
        /\ WF_vars(AcceptTcp(c)) /\ WF_vars(AcceptWebsocket(c))
        /\ WF_vars(HeaderFails(c)) /\ WF_vars(Dispatch(c))

FairSpec == Spec /\ Fairness

-----------------------------------------------------------------------------
(* Properties                                                              *)

TypeOK ==
    /\ server \in {"starting", "configured", "binding", "running", "stopped", "exited"}
    /\ listening \in SUBSET Port
    /\ backlog \in [Port -> Seq(Client)]
    /\ handshake \in WebsocketClient \cup {NoOne}
    /\ stage \in [Client -> {"away", "backlog", "handshake", "header", "sending",
                             "handed", "gone"}]
    /\ label \in [Client -> Label]
    /\ active \in [Label -> Nat]
    /\ shutdown \in BOOLEAN

\* However a connection ends, before its header, in a worker or in a
\* shutdown, ACTIVE_CONNS counts exactly those that exist under the label
\* they have: nothing leaks when set_header moves one from label to label.
GaugesAreExact ==
    /\ TypeOK
    /\ \A l \in Label :
        active[l] = Cardinality({c \in Client :
                        stage[c] \in {"header", "sending", "handed"} /\ label[c] = l})

\* Clients of the raw port are accepted and then dispatched or dropped,
\* whatever clients of the websocket port do: each listener has a stream, and
\* a filter_map, of its own.
TcpClientsAreAnswered ==
    \A c \in TcpClient : stage[c] = "backlog" ~> stage[c] \in {"handed", "gone"}

\* The same for websockets, as long as nobody stays in the handshake for good.
WebsocketsAreAnswered ==
    (\A c \in WebsocketClient : []<>(handshake # c))
    => \A c \in WebsocketClient : stage[c] = "backlog" ~> stage[c] \in {"handed", "gone"}

\* docs/documented_config.yml: connection_accept_timeout_s is the time "after
\* which a connection that did not yet send an initial connection header is
\* dropped".
SilentClientsAreDropped ==
    \A c \in Client :
        stage[c] \in {"backlog", "handshake", "header"}
            ~> stage[c] \in {"sending", "handed", "gone"}
=============================================================================
