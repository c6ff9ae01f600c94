SPECIFICATION FairSpec
CONSTANTS
    TcpClient = {t1, t2}
    WebsocketClient = {w1, w2}
INVARIANTS
    GaugesAreExact
PROPERTIES
    TcpClientsAreAnswered
    WebsocketsAreAnswered
