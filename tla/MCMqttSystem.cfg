\* The node, a slow and lossy network and a broker that may close or crash.
SPECIFICATION SystemSpec
CONSTANTS
    Ports = {0, 1, 2}
    NumPorts = 3
    SeqMod = 3
    TcpMss = 2
    Windows = {2}
    Rto = 1
    Rtos = {1}
    MaxRtx = 1
    MaxSynRtx = 1
    TimeWait = 2
    Cap = 2
    AppData <- MCAppData
    PeerData <- MCPeerData
    Connect <- MCConnect
    Online <- MCOnline
    Humidity <- MCHumidity
    Temperature <- MCTemperature
    Ping <- MCPing
    TxSize = 4
    SendSize = 2
    KeepAlive = 1
    PublishPeriod = 0
    ReconnectWait = 0
    SigInterval = 0
    Piggyback = TRUE
    Crashes = TRUE
    Faults = 2
VIEW NetView
INVARIANTS
    BrokerConforms
    ConnectedIsKnown
PROPERTY AckedWasReceived
