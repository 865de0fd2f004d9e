------------------------------ MODULE UmqttRx ------------------------------
(***************************************************************************)
(* What src/src/umqtt/umqtt.c makes of the bytes a broker sends: uIP hands *)
(* over a segment, the client pushes it into rxbuff and umqtt_process takes*)
(* packets out of it.  A step is one packet.  The ring buffer is the queue *)
(* that CircBuffer is shown to implement.                                  *)
(*                                                                         *)
(* A byte of a length field holds a digit to the base LenBase, and LenBase *)
(* is added when more follow.                                              *)
(***************************************************************************)
EXTENDS Integers, Sequences, FiniteSets

CONSTANTS
    LenBase,        \* 128
    PingMod,        \* values of nack_ping, an int16_t: 65536
    RxSize,         \* SHAREDBUF_NODE_UMQTT_RX_SIZE: 150
    PublishLens,    \* remaining lengths of PUBLISH packets of the broker
    MaxPackets,     \* bound: packets the broker has on their way
    MaxPings        \* bound: PINGREQs without an answer

ASSUME RxAssumption ==
    /\ LenBase \in Nat \ {0, 1} /\ PingMod \in Nat \ {0} /\ RxSize \in Nat /\ MaxPackets \in Nat /\ MaxPings \in Nat
    /\ PublishLens \subseteq 2 .. LenBase ^ 4 - 1

VARIABLES
    rxbuff,     \* conn->rxbuff
    connState,  \* conn->state
    nackPing,   \* conn->nack_ping
    asked,      \* PINGREQs the broker has not answered
    inLoop,     \* umqtt_process runs
    onTheWay,   \* packets the broker sent and uIP has not handed over
    offset,     \* bytes of the first of them that uIP has handed over
    expected,   \* observer: packets that are in rxbuff from end to end
    inStep      \* observer: every segment so far was whole packets, and had room

rxbuffVars == <<rxbuff, connState, nackPing, asked, inLoop, onTheWay, offset, expected, inStep>>

RxInit ==
    /\ rxbuff = <<>> /\ connState = "CONNECTING" /\ nackPing = 0 /\ asked = 0 /\ inLoop = FALSE
    /\ onTheWay = <<>> /\ offset = 0
    /\ expected = <<>> /\ inStep = TRUE

FirstBytes(s, n) == SubSeq(s, 1, IF n < Len(s) THEN n ELSE Len(s))
AllBut(s, n) == SubSeq(s, n + 1, Len(s))

\* Bytes of a length field.
More(b) == (b \div LenBase) % 2 = 1

\* _umqtt_encode_length
EncodeLength(n) ==
    LET k == CHOOSE k \in 1 .. 4 : n < LenBase ^ k /\ \A j \in 1 .. k - 1 : n >= LenBase ^ j
    IN [i \in 1 .. k |-> ((n \div LenBase ^ (i - 1)) % LenBase) + (IF i < k THEN LenBase ELSE 0)]

\* Seeded bug: the most significant digit comes first.
DecodeLengthReversed(bytes) ==
    LET val[i \in 0 .. Len(bytes)] == IF i = 0 THEN 0 ELSE (val[i - 1] * LenBase) + (bytes[i] % LenBase)
    IN val[Len(bytes)]

\* umqtt_decode_length, of the bytes up to the one nothing follows
DecodeLength(bytes) ==
    LET val[i \in 0 .. Len(bytes)] ==
          IF i = 0 THEN 0 ELSE val[i - 1] + (bytes[i] % LenBase) * LenBase ^ (i - 1)
    IN val[Len(bytes)]

-----------------------------------------------------------------------------
(* The broker *)

\* The type is the upper half of the first byte: 2 CONNACK, 3 PUBLISH, 13 PINGRESP.
Packet(type, body) == <<type>> \o EncodeLength(Len(body)) \o body

BrokerPackets ==
    {Packet(2, <<0, code>>) : code \in {0, 1}}
    \cup {Packet(3, [i \in 1 .. n |-> 0]) : n \in PublishLens}

PingResp == Packet(13, <<>>)

BrokerPacket ==
    /\ Len(onTheWay) < MaxPackets
    /\ \/ \E p \in BrokerPackets : onTheWay' = Append(onTheWay, p) /\ UNCHANGED asked
       \/ asked > 0 /\ asked' = asked - 1 /\ onTheWay' = Append(onTheWay, PingResp)
    /\ UNCHANGED <<rxbuff, connState, nackPing, inLoop, offset, expected, inStep>>

-----------------------------------------------------------------------------
(* The client *)

\* umqtt_ping
PingReq ==
    /\ ~inLoop /\ asked < MaxPings
    /\ nackPing' = (nackPing + 1) % PingMod /\ asked' = asked + 1
    /\ UNCHANGED <<rxbuff, connState, inLoop, onTheWay, offset, expected, inStep>>

\* A segment that ends n packets on, or c bytes into the next one; what does
\* not fit rxbuff is dropped.
Segment(n, c) ==
    LET whole[i \in 0 .. n] == IF i = 0 THEN <<>> ELSE whole[i - 1] \o onTheWay[i]
        bytes == AllBut(whole[n] \o (IF c > 0 THEN FirstBytes(onTheWay[n + 1], c) ELSE <<>>), offset)
    IN /\ bytes /= <<>>
       /\ rxbuff' = rxbuff \o FirstBytes(bytes, RxSize - Len(rxbuff))
       /\ inStep' = (inStep /\ c = 0 /\ offset = 0 /\ Len(rxbuff) + Len(bytes) <= RxSize)
       /\ expected' = IF inStep' THEN expected \o FirstBytes(onTheWay, n) ELSE <<>>
       /\ onTheWay' = AllBut(onTheWay, n)
       /\ offset' = c

\* _mqttclient_handle_new_data, up to the loop of umqtt_process
NewSegment ==
    /\ ~inLoop
    /\ \E n \in 0 .. Len(onTheWay) :
         \E c \in 0 .. (IF n < Len(onTheWay) THEN Len(onTheWay[n + 1]) - 1 ELSE 0) :
             /\ n > 0 \/ c > offset
             /\ Segment(n, c)
    /\ inLoop' = TRUE
    /\ UNCHANGED <<connState, nackPing, asked>>

\* The length field: bytes as long as one says that more follow, at most four;
\* a byte that is not there yet is whatever the local variable held.
LengthFields ==
    LET have == FirstBytes(Tail(rxbuff), 4)
        ends == {i \in DOMAIN have : ~More(have[i])}
    IN IF ends = {} /\ Len(have) < 4
       THEN {Append(have, b) : b \in 0 .. LenBase - 1}
       ELSE {FirstBytes(have, IF ends = {} THEN 4 ELSE CHOOSE i \in ends : \A j \in ends : i <= j)}

\* umqtt_packet_arrived: the body is popped, and may be shorter than it says.
PacketArrived(type, body) ==
    /\ connState' \in (IF type /= 2 THEN {connState}
                      ELSE IF Len(body) < 2 THEN {"CONNECTED", "FAILED"}   \* uninitialised
                      ELSE IF body[2] = 0 THEN {"CONNECTED"} ELSE {"FAILED"})
    /\ nackPing' = IF type = 13 THEN (nackPing - 1) % PingMod ELSE nackPing

ProcessPacket ==
    /\ inLoop /\ Len(rxbuff) >= 2
    /\ \E field \in LengthFields :
        LET after == AllBut(rxbuff, 1 + Len(field))
            len == DecodeLength(field)
        IN /\ PacketArrived(Head(rxbuff), FirstBytes(after, len))
           /\ rxbuff' = AllBut(after, len)
           /\ expected' = IF expected = <<>> THEN <<>> ELSE Tail(expected)
    /\ UNCHANGED <<asked, inLoop, onTheWay, offset, inStep>>

ProcessEnds ==
    /\ inLoop /\ Len(rxbuff) < 2
    /\ inLoop' = FALSE
    /\ UNCHANGED <<rxbuff, connState, nackPing, asked, onTheWay, offset, expected, inStep>>

RxNext == BrokerPacket \/ PingReq \/ NewSegment \/ ProcessPacket \/ ProcessEnds

-----------------------------------------------------------------------------
(* Properties *)

\* The PINGREQs whose answer has not been taken, wherever the answer is.
PingsCounted ==
    inStep => nackPing = asked + Cardinality({i \in DOMAIN onTheWay : onTheWay[i] = PingResp})
                               + Cardinality({i \in DOMAIN expected : expected[i] = PingResp})

\* As long as segments end where packets do, the client takes exactly the
\* broker's packets out of rxbuff, one by one, and leaves nothing in it; and
\* nack_ping counts the pings that are not answered.
TakesPackets ==
    [][inStep => /\ rxbuff' /= rxbuff /\ inLoop => rxbuff = Head(expected) \o rxbuff'
                 /\ inLoop /\ ~inLoop' => rxbuff = <<>> /\ expected = <<>>
                 /\ PingsCounted']_rxbuffVars

=============================================================================
