\* The node against the connection it runs on.
SPECIFICATION NodeSpec
CONSTANTS
    Ports = {p1, p2}
    SeqMod = 2
    TcpMss = 2
    Windows = {2}
    Rto = 1
    Rtos = {1}
    MaxRtx = 1
    MaxSynRtx = 1
    TimeWait = 2
    Cap = 0
    AppData <- MCAppData
    PeerData <- MCShortPeerData
    Connect <- MCConnect
    Online <- MCOnline
    Humidity <- MCHumidity
    Temperature <- MCTemperature
    Ping <- MCPing
    TxSize = 2
    SendSize = 2
    KeepAlive = 1
    PublishPeriod = 0
    ReconnectWait = 0
    SigInterval = 0
PROPERTY ImplementsTcp
