\* The open node: any segment at any time, one retry of each kind.
SPECIFICATION NodeSpec
CONSTANTS
    Ports = {p1, p2}
    SeqMod = 2
    TcpMss = 2
    Windows = {2}
    Rto = 1
    Rtos = {1}
    MaxRtx = 2
    MaxSynRtx = 1
    TimeWait = 2
    Cap = 0
    AppData <- MCAppData
    PeerData <- MCPeerData
    Connect <- MCConnect
    Online <- MCOnline
    Humidity <- MCHumidity
    Temperature <- MCTemperature
    Ping <- MCPing
    TxSize = 4
    SendSize = 2
    KeepAlive = 2
    PublishPeriod = 1
    ReconnectWait = 0
    SigInterval = 1
SYMMETRY PortSymmetry
INVARIANTS
    NodeTypeOK
    SessionMatchesTransport
    SessionPhase
    LedShowsNormal
    RetransmitSafe
