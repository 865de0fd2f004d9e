\* Lengths of one and of two bytes; a byte is of base three.
SPECIFICATION IpSpec
CONSTANTS
    Radix = 3
    IpAddr <- MCIpAddr
    Zeroes = "zero"
    AllOnes = "ones"
    AddrWord <- MCAddrWord
    Echo = 2
    IdMod = 2
    UdpHead = 1
    Packets <- MCPackets
    Frames = {1, 2}
    UdpConns = 1
    Port = {1, 3, 4, 5, 6}
    NoPort = 0
    PortInit = 3
    PortFirst = 4
    PortLimit = 7
    BindPorts = {1}
    HostAddrs <- MCHostAddrs
    Remotes <- MCRemotes
    DataLens = {1}
INVARIANT TruncatedDropped
