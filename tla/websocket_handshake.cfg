SPECIFICATION FairSpec
CONSTANTS
    TcpClient = {t1}
    WebsocketClient = {w1, w2}
PROPERTIES
    SilentClientsAreDropped
