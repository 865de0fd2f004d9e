\* Bounds of the components that must make progress; see MCProgress.tla.
SPECIFICATION ProgressSpec
CONSTANTS
    \* Enc28j60: a ring with room for two frames
    Base = 8
    TxStart = 0
    RxStart = 8
    RxStop = 27
    MaxLen = 2
    HeadLen = 1
    RxFrames <- MCRxFrames
    TxFrames <- MCTxFrames
    \* Dht: one bit error in a message
    ByteBits = 3
    MaxWait = 1
    WordMod = 8
    Measurements <- MCMeasurements
    Flips = 1
    \* DhcpOptions: an index that is a byte of base five
    IndexMod = 5
    Cookie = 1
    Codes = {0, 1, 2, 3}
    Wanted = 1
    Limits = {1, 3, 4, 5, 8}
    \* UipTcp: any application over any peer
    Ports = {p1, p2}
    SeqMod = 2
    TcpMss = 2
    Windows = {1, 2}
    Rto = 1
    Rtos = {0, 2}
    MaxRtx = 3
    MaxSynRtx = 2
    TimeWait = 3
    Cap = 0
    AppData <- MCAppData
    PeerData <- MCPeerData
    \* DhcpNode: one server, which offers any address
    Address = {a1, a2}
    NoAddr = zero
    Server = {s1}
    NoServer = none
    RetryPeriod = 2
    SecTicks = 2
    LeaseSeconds = 2
    QueueCap = 2
    Faults = 5
INVARIANTS
    RxInSync
    Configured
    HandshakeArmed
    RetryBound
    RequestedUnlessOverwritten
    OverlayRespected
PROPERTIES
    FramesIntact
    WireFramesWhole
    FramesRead
    ReadingTrusted
    FindsOption
    HalfOpenEnds
    LeaseNotShort
    RetriesSpaced
    LeaseCompletes
