------------------------------ MODULE IpInput ------------------------------
(***************************************************************************)
(* What uip_process (src/src/uip/uip.c) does with an IP packet before TCP  *)
(* sees it: the checks of the header, the answer to a ping, and the UDP    *)
(* "connections" that datagrams are handed to and sent from.  A call of    *)
(* uip_process is one step; `last' is what it leaves to its caller.        *)
(*                                                                         *)
(* The CPU is little-endian: a word of a packet has its first byte low.    *)
(***************************************************************************)
EXTENDS UipArith, FiniteSets

CONSTANTS
    IpAddr, Zeroes, AllOnes,\* addresses; all_zeroes_addr and all_ones_addr
    AddrWord,               \* the sum of an address's two words
    Echo,                   \* ICMP_ECHO: 8
    IdMod,                  \* ipid is a word: 65536
    UdpHead,                \* UIP_IPUDPH_LEN: 28
    Packets,                \* what arrives, as it is in uip_buf
    Frames,                 \* how many bytes of it arrive
    UdpConns,               \* UIP_UDP_CONNS: 1
    Port, NoPort,           \* port numbers; 0
    PortInit,               \* what uip_init sets lastport to: 1024
    PortFirst, PortLimit,   \* 4096, 32000
    BindPorts,              \* ports uip_udp_bind is called with: 67 and 68
    HostAddrs,              \* addresses the host is given, Zeroes among them
    Remotes,                \* what uip_udp_new is called with
    DataLens                \* uip_slen of the datagrams the application sends

\* A packet by the fields that input looks at: other is the sum of the header
\* words that no check looks at, rest that of the words after the ICMP checksum.
IpPacket ==
    [vhlOk : BOOLEAN, length : Word, fragment : BOOLEAN, proto : {"tcp", "udp", "icmp", "other"},
     src : IpAddr, dest : IpAddr, other : Word, chksum : Word,
     sport : Port \cup {NoPort}, dport : Port \cup {NoPort},
     type : Digit, icmpchksum : Word, rest : Word]

ASSUME IpAssumption ==
    /\ {Zeroes, AllOnes} \subseteq IpAddr /\ AddrWord \in [IpAddr -> Word]
    /\ Echo \in Digit \ {0} /\ IdMod \in 1 .. WordMod /\ UdpHead \in Nat /\ UdpConns \in Nat \ {0}
    /\ {PortInit, PortFirst, PortLimit} \subseteq Nat /\ Port \subseteq Nat
    /\ PortInit < PortLimit /\ PortFirst < PortLimit
    /\ PortInit .. PortLimit - 1 \subseteq Port /\ PortFirst .. PortLimit - 1 \subseteq Port
    /\ PortLimit - PortFirst > UdpConns
    /\ NoPort \notin Port /\ BindPorts \subseteq Port
    /\ BindPorts \cap (PortInit .. PortLimit - 1 \cup PortFirst .. PortLimit - 1) = {}
    /\ HostAddrs \subseteq IpAddr \ {AllOnes}
    /\ Remotes \subseteq [ripaddr : IpAddr, rport : Port \cup {NoPort}]
    /\ Packets \subseteq IpPacket /\ Frames \subseteq Nat
    /\ DataLens \subseteq 1 .. WordMod - 1 - UdpHead

VARIABLES
    hostaddr,   \* uip_hostaddr
    udpConns,   \* uip_udp_conns
    lastport,
    ipid,       \* the identification of the last packet sent
    last        \* the last call: the packet, its bytes, what became of it

ipVars == <<hostaddr, udpConns, lastport, ipid, last>>

Conns == 1 .. UdpConns

Unbound == [lport |-> NoPort, rport |-> NoPort, ripaddr |-> Zeroes]

NoCall == [outcome |-> "none"]

IpInit ==
    /\ hostaddr = Zeroes
    /\ udpConns = [c \in Conns |-> Unbound]
    /\ lastport = PortInit /\ ipid = 0
    /\ last = NoCall

Outcome(p, n, o) == last' = [packet |-> p, received |-> n, outcome |-> o]

HeadBytes(p) ==
    WordBytes(p.other) \o WordBytes(AddrWord[p.src]) \o WordBytes(AddrWord[p.dest]) \o WordBytes(p.chksum)

-----------------------------------------------------------------------------
(* Input *)

\* The cast to uint8_t takes the length modulo Radix.  UIP_REASSEMBLY is 0.
HeaderOk(p, n) == p.vhlOk /\ p.length % Radix <= n /\ ~p.fragment

\* Seeded bug: only a segment is asked for its destination.
ForUsSegment(p) == p.proto /= "tcp" \/ hostaddr = Zeroes \/ p.dest = hostaddr

\* UIP_PINGADDRCONF and UIP_BROADCAST are 0: without an address of its own the
\* host takes every packet, with one only its own.
ForUs(p) == hostaddr = Zeroes \/ p.dest = hostaddr

Accepted(p, n) == HeaderOk(p, n) /\ ForUs(p) /\ Verifies(0, HeadBytes(p))

\* The UDP demultiplexer takes the first connection that fits.
Fits(p) == {c \in Conns : LET u == udpConns[c] IN
                /\ u.lport /= NoPort /\ p.dport = u.lport
                /\ u.rport \in {NoPort, p.sport}
                /\ u.ripaddr \in {Zeroes, AllOnes, p.src}}

Least(S) == CHOOSE s \in S : \A t \in S : s <= t

Drop(p, n) == Outcome(p, n, "drop") /\ UNCHANGED ipid

\* tcp_input is what UipTcp models.
TcpInput(p, n) == p.proto = "tcp" /\ Outcome(p, n, "tcp") /\ UNCHANGED ipid

\* The type is in the low byte of its word; the header's checksum stays.
EchoReply(p) ==
    [p EXCEPT !.type = 0, !.dest = p.src, !.src = hostaddr,
              !.icmpchksum = PlusChksum(@, Echo)]

EchoInput(p, n) ==
    /\ p.proto = "icmp" /\ p.type = Echo
    /\ last' = [packet |-> p, received |-> n, outcome |-> "echo", sent |-> EchoReply(p)]
    /\ UNCHANGED ipid

\* udp_send and ip_send_nolen; ipid stands for the words that vary.
UdpPacket(c, slen) ==
    LET u == udpConns[c]
        p == [vhlOk |-> TRUE, length |-> slen + UdpHead, fragment |-> FALSE, proto |-> "udp",
              src |-> hostaddr, dest |-> u.ripaddr, sport |-> u.lport, dport |-> u.rport,
              other |-> ipid', chksum |-> 0]
    IN [p EXCEPT !.chksum = ChksumField(0, HeadBytes(p))]

\* UIP_UDP_APPCALL has left uip_slen 0, or the length of its answer.
UdpAppCall(c, call) ==
    \/ last' = call /\ UNCHANGED ipid
    \/ \E slen \in DataLens :
        /\ ipid' = (ipid + 1) % IdMod
        /\ last' = [packet |-> call.packet, received |-> call.received, outcome |-> call.outcome,
                    datalen |-> call.datalen, conn |-> c, sent |-> UdpPacket(c, slen)]

UdpInput(p, n) ==
    /\ p.proto = "udp" /\ Fits(p) /= {}
    /\ UdpAppCall(Least(Fits(p)),
                  [packet |-> p, received |-> n, outcome |-> "udp", conn |-> Least(Fits(p)),
                   datalen |-> (p.length - UdpHead) % WordMod])

NoTaker(p) ==
    \/ p.proto = "udp" /\ Fits(p) = {}
    \/ p.proto = "icmp" /\ p.type /= Echo
    \/ p.proto \notin {"tcp", "udp", "icmp"}

\* uip_process(UIP_DATA)
Input(p, n) ==
    /\ last = NoCall
    /\ IF Accepted(p, n)
       THEN TcpInput(p, n) \/ UdpInput(p, n) \/ EchoInput(p, n) \/ (NoTaker(p) /\ Drop(p, n))
       ELSE Drop(p, n)
    /\ UNCHANGED <<hostaddr, udpConns, lastport>>

\* uip_process(UIP_UDP_TIMER), of a connection in use
UdpTimer ==
    /\ last = NoCall
    /\ \E c \in Conns, slen \in DataLens :
        /\ udpConns[c].lport /= NoPort
        /\ ipid' = (ipid + 1) % IdMod
        /\ last' = [outcome |-> "poll", sent |-> UdpPacket(c, slen)]
    /\ UNCHANGED <<hostaddr, udpConns, lastport>>

\* The caller transmits what is there, if anything.
CallerSends == last /= NoCall /\ last' = NoCall /\ UNCHANGED <<hostaddr, udpConns, lastport, ipid>>

-----------------------------------------------------------------------------
(* The calls of the application *)

LocalPorts == {udpConns[c].lport : c \in Conns} \ {NoPort}

\* Ports in the order in which lastport takes them.
Following(q) == IF q + 1 >= PortLimit THEN PortFirst ELSE q + 1

\* Seeded bug: a port in use is not skipped.
UnusedPortNext == Following(lastport)

\* Every used port makes the code try again.
UnusedPort ==
    LET port[k \in 0 .. UdpConns + 1] == IF k = 0 THEN lastport ELSE Following(port[k - 1])
    IN port[Least({k \in 1 .. UdpConns + 1 : port[k] \notin LocalPorts})]

\* uip_udp_new: lastport moves on even if no connection is free.
UdpNew(remote) ==
    LET free == {c \in Conns : udpConns[c].lport = NoPort}
    IN /\ lastport' = UnusedPort
       /\ udpConns' = IF free = {} THEN udpConns
                      ELSE [udpConns EXCEPT ![Least(free)] =
                                [lport |-> lastport', rport |-> remote.rport, ripaddr |-> remote.ripaddr]]
       /\ last = NoCall
       /\ UNCHANGED <<hostaddr, ipid, last>>

\* uip_udp_remove and uip_udp_bind, of a connection in use
UdpSetPort(port) ==
    /\ \E c \in Conns :
        udpConns[c].lport /= NoPort /\ udpConns' = [udpConns EXCEPT ![c].lport = port]
    /\ last = NoCall
    /\ UNCHANGED <<hostaddr, lastport, ipid, last>>

SetHostAddr(a) ==
    /\ hostaddr' = a /\ last = NoCall
    /\ UNCHANGED <<udpConns, lastport, ipid, last>>

IpNext ==
    \/ \E p \in Packets, n \in Frames : Input(p, n)
    \/ UdpTimer \/ CallerSends
    \/ \E r \in Remotes : UdpNew(r)
    \/ \E q \in BindPorts \cup {NoPort} : UdpSetPort(q)
    \/ \E a \in HostAddrs : SetHostAddr(a)

IpSpec == IpInit /\ [][IpNext]_ipVars

-----------------------------------------------------------------------------
(* Properties *)

Taken == last.outcome \in {"tcp", "udp", "echo"}

\* Part of TakenRightly: a packet that is handled arrived whole if its length is of
\* one byte (the others are TruncatedDropped's), and a UDP application is not told
\* of more data than there is - unless the header itself is cut short, which
\* nothing checks.
TakenIsWhole ==
    Taken /\ last.packet.length < Radix =>
        /\ last.packet.length <= last.received
        /\ last.outcome = "udp" /\ last.packet.length >= UdpHead => last.datalen + UdpHead <= last.received

\* An unfragmented packet whose header sums to zero and, once the host has an
\* address, that is for it.
Ours(p) == p.vhlOk /\ ~p.fragment /\ SumsToZero(HeadBytes(p)) /\ hostaddr \in {Zeroes, p.dest}

\* Part of TakenRightly: what is handled is for this host, be it a segment, a
\* datagram or a ping; and of what is for this host and arrived whole nothing is
\* dropped but what has no taker.
TakenIsOurs ==
    /\ Taken => Ours(last.packet)
    /\ last.outcome = "drop" /\ last.packet.length <= last.received /\ Ours(last.packet)
          => NoTaker(last.packet)

\* What IP input hands on, to TCP, UDP or ICMP, is for this host and arrived
\* whole as far as one byte of its length tells, and no such packet is left
\* out, whatever is configured in between.
TakenRightly == TakenIsWhole /\ TakenIsOurs

\* uip.c:806: "If the size reported to us in uip_len is smaller the size reported
\* in the IP header, we assume that the packet has been corrupted in transit",
\* and it is to be dropped.  One byte of the length is compared.
TruncatedDropped == Taken => last.packet.length <= last.received

\* The sum of an ICMP message whose other words sum to its field rest.
IcmpSumsToZero(p) == (p.type + p.icmpchksum + p.rest) % (WordMod - 1) = 0

\* Part of SentVerifies: both checksums of an echo are only adjusted, and hold in the answer if they
\* held in the request.  A host without an address answers any ping with source
\* address 0 and a header that does not verify: it is left out.
EchoVerifies ==
    last.outcome = "echo" =>
        /\ IcmpSumsToZero(last.packet) => IcmpSumsToZero(last.sent)
        /\ hostaddr /= Zeroes => SumsToZero(HeadBytes(last.sent))

\* Part of SentVerifies: a datagram that is sent passes the receiver's check, and goes to the other
\* end of its connection.
DatagramVerifies ==
    last.outcome \in {"udp", "poll"} /\ "sent" \in DOMAIN last =>
        /\ SumsToZero(HeadBytes(last.sent)) /\ last.sent.sport \in LocalPorts
        /\ last.outcome = "udp" /\ udpConns[last.conn].ripaddr \notin {Zeroes, AllOnes} =>
              last.sent.dest = last.packet.src

\* Whatever IP sends - an echo built in the request, a datagram built in a
\* buffer that held another - the receiver's checks accept.
SentVerifies == EchoVerifies /\ DatagramVerifies

\* However connections come and go while lastport wraps, no two have the same
\* local port, unless the application bound one of them to it.
PortsDistinct ==
    \A c, d \in Conns :
        c /= d /\ udpConns[c].lport = udpConns[d].lport => udpConns[c].lport \in BindPorts \cup {NoPort}

=============================================================================
