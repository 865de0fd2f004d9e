\* Bounds of the parts of uIP and of the MQTT library; see MCParts.tla.
SPECIFICATION PartsSpec
CONSTANTS
    \* ArpTable
    h1 = h1
    h2 = h2
    half = half
    m1 = m1
    m2 = m2
    NoMac = none
    NoAddr = zero
    Hosts <- MCHosts
    Half <- MCHalf
    OnLink <- MCOnLink
    Mac <- MCMac
    TableSize = 2
    MaxAge = 3
    ByteMod = 5
    \* UipNeighbor
    Entries = 3
    MaxTime = 3
    NbAddr = {"a", "b", "zero", "other"}
    Zero = "zero"
    Link = {"l1", "l2"}
    Prefix <- MCPrefix
    \* UipArith: a byte of base three
    Radix = 3
    \* UipFw
    FwCacheSize = 2
    FwTime = 2
    UipTtl = 2
    Netifs = {"n1", "n2"}
    NoNetif = "nn"
    Within <- MCWithin
    Host = "host"
    Broadcast = "ones"
    Arriving <- MCArriving
    Departing <- MCDeparting
    \* UipSplit
    MaxSegment = 7
    Lengths = {1, 2, 4, 7}
    \* IpInput
    IpAddr <- MCIpAddr
    Zeroes = "zero"
    AllOnes = "ones"
    AddrWord <- MCAddrWord
    Echo = 2
    IdMod = 2
    UdpHead = 1
    Packets <- MCPackets
    Frames = {1, 2}
    UdpConns = 2
    Port = {1, 3, 4, 5, 6}
    NoPort = 0
    PortInit = 3
    PortFirst = 4
    PortLimit = 7
    BindPorts = {1}
    HostAddrs <- MCHostAddrs
    Remotes <- MCRemotes
    DataLens = {1}
    \* CircBuffer
    Byte = {0, 1}
    Size = 3
    Inputs <- MCInputs
    Wants <- MCWants
    \* UmqttRx
    LenBase = 3
    RxSize = 14
    PublishLens = {2, 3, 9}
    MaxPings = 1
    MaxPackets = 2
    PingMod = 4
    \* Psock
    Mss = 2
    BufSize = 2
    Messages = {1, 2, 3}
    Segments = {1, 2, 3}
    Markers = {1, 4, 7, 8}
    Limit = 8
    \* Clock: two bytes
    ClockBase = 3
    Bytes = 2
    Intervals = {1, 3}
SYMMETRY MacSymmetry
INVARIANTS
    ForgottenInTime
    TakenRightly
    SentVerifies
    PortsDistinct
    TestsRight
PROPERTIES
    FramesReachHost
    NeverTooEarly
    EvictsOldest
    NeighborsKept
    RelaysOnce
    SegmentsAdjoin
    ImplementsFifo
    TakesPackets
    
