\* Nothing fails, and the broker's stack answers with piggybacked acknowledgements.
SPECIFICATION SystemFairSpec
CONSTANTS
    Ports = {0, 1}
    NumPorts = 2
    SeqMod = 4
    TcpMss = 2
    Windows = {2}
    Rto = 1
    Rtos = {1}
    MaxRtx = 1
    MaxSynRtx = 1
    TimeWait = 2
    Cap = 2
    AppData <- MCAppData
    PeerData <- MCPeerData
    Connect <- MCConnect
    Online <- MCOnline
    Humidity <- MCHumidity
    Temperature <- MCTemperature
    Ping <- MCPing
    TxSize = 4
    SendSize = 2
    KeepAlive = 1
    PublishPeriod = 0
    ReconnectWait = 0
    SigInterval = 0
    Piggyback = TRUE
    Crashes = FALSE
    Faults = 0
PROPERTY Publishes
