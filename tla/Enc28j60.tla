----------------------------- MODULE Enc28j60 -----------------------------
(***************************************************************************)
(* The Ethernet driver, src/src/enc28j60/enc28j60.c, and its callers in    *)
(* network.c.  The chip is reached over SPI one transaction at a time, and *)
(* works on its own between any two of them: it stores frames that arrive  *)
(* in a ring, and takes the frame being sent from its memory byte by byte. *)
(*                                                                         *)
(* A call of the driver is the sequence of its transactions, `ops'; a step *)
(* performs the first.  A register is <<bank, address>>, with the numbers  *)
(* of enc28j60-registers.h.  The chip is external and modelled as far as   *)
(* the driver uses it; polls for readiness are a single read.              *)
(***************************************************************************)
EXTENDS Integers, Sequences

CONSTANTS
    Base,       \* values of a byte: 256
    TxStart,    \* TXSTART_INIT: 0
    RxStart,    \* RXSTART_INIT: 0x0600
    RxStop,     \* RXSTOP_INIT: 0x1FFF
    MaxLen,     \* UIP_BUFSIZE: 600, what network_read asks for
    HeadLen,    \* bytes of the first part in network_send: 54
    RxFrames,   \* frames that arrive, their CRC included
    TxFrames    \* frames uIP sends

ASSUME EncAssumption ==
    /\ Base \in Nat \ {0} /\ MaxLen \in Nat /\ HeadLen \in Nat \ {0}
    /\ TxStart \in Nat /\ RxStart \in Nat /\ RxStop \in Nat
    /\ TxStart < RxStart /\ RxStart < RxStop
    /\ RxStart % 2 = 0 /\ RxStop % 2 = 1
    /\ RxFrames \subseteq Seq(0 .. Base - 1)
    /\ \A f \in TxFrames :
         /\ f \in Seq(0 .. Base - 1) /\ f /= <<>>      \* uip_len > 0
         /\ TxStart + Len(f) < RxStart                \* 600 < 0x0600

VARIABLES
    ops,        \* transactions the call in progress has left
    bank,       \* enc28j60_bank
    packetPtr,  \* enc28j60_packet_ptr
    rxLen,      \* len of enc28j60_packet_receive
    uipBuf,     \* the frame in uip_buf
    econ1,      \* bits of ECON1 that are set
    regs,       \* the other registers, by bank and address
    mem,        \* the chip's memory
    rxEnd,      \* ERXRDPT as the receiver sees it: both halves at once
    writePtr,   \* ERXWRPT
    txPos,      \* where the transmitter reads next, 0 when it rests
    wire,       \* observer: bytes of the current frame that left the chip
    unread,     \* observer: frames stored and not released, with their place
    handed      \* observer: the frame the transmitter was started for

driverVars == <<bank, packetPtr, rxLen, uipBuf>>
rxVars == <<rxEnd, writePtr, unread>>
txVars == <<txPos, wire, handed>>
encVars == <<ops, driverVars, econ1, regs, mem, rxVars, txVars>>

\* MAADR stands for the six registers of the Ethernet address.
Reg == [ERDPTL |-> <<0, 0>>, ERDPTH |-> <<0, 1>>, EWRPTL |-> <<0, 2>>, EWRPTH |-> <<0, 3>>,
        ETXSTL |-> <<0, 4>>, ETXSTH |-> <<0, 5>>, ETXNDL |-> <<0, 6>>, ETXNDH |-> <<0, 7>>,
        ERXSTL |-> <<0, 8>>, ERXSTH |-> <<0, 9>>, ERXNDL |-> <<0, 10>>, ERXNDH |-> <<0, 11>>,
        ERXRDPTL |-> <<0, 12>>, ERXRDPTH |-> <<0, 13>>, EIE |-> <<0, 27>>,
        ESTAT |-> <<0, 29>>, ECON2 |-> <<0, 30>>, ECON1 |-> <<0, 31>>, EPKTCNT |-> <<1, 25>>,
        MACON1 |-> <<2, 0>>, MACON2 |-> <<2, 1>>, MACON3 |-> <<2, 2>>, MABBIPG |-> <<2, 4>>,
        MAIPGL |-> <<2, 6>>, MAIPGH |-> <<2, 7>>, MAMXFLL |-> <<2, 10>>, MAMXFLH |-> <<2, 11>>,
        MIREGADR |-> <<2, 20>>, MIWRL |-> <<2, 22>>, MIWRH |-> <<2, 23>>,
        MAADR |-> <<3, 0>>, MISTAT |-> <<3, 10>>]

Low(n) == n % Base
High(n) == n \div Base
Word(l, h) == regs[Reg[l]] + Base * regs[Reg[h]]

\* The bits of ECON1 that select a bank.
BankBits(b) == (IF b % 2 = 1 THEN {"BSEL0"} ELSE {}) \cup (IF b \div 2 = 1 THEN {"BSEL1"} ELSE {})

\* The register an address means in the selected bank: from 0x1B on they are
\* the same in all of them.
Reached(r) ==
    IF r[2] >= 27 THEN r
    ELSE <<CHOOSE b \in 0 .. 3 : BankBits(b) = econ1 \cap {"BSEL0", "BSEL1"}, r[2]>>

Contents(r) == IF Reached(r) \in DOMAIN regs THEN regs[Reached(r)] ELSE 0

\* Addresses in the receive ring.
RingSize == RxStop - RxStart + 1
Moved(a, n) == RxStart + ((a - RxStart + n) % RingSize)

\* What a frame takes of the ring: a header of six bytes, and an even end.
Room(f) == 6 + Len(f) + (Len(f) % 2)

Shorter(f, n) == IF Len(f) <= n THEN f ELSE SubSeq(f, 1, n)

-----------------------------------------------------------------------------
(* The transactions of each call. *)

Write(r, v) == [op |-> "write", reg |-> Reg[r], val |-> v]
Read(r) == [op |-> "read", reg |-> Reg[r], val |-> 0]
Pointer(half, r) == [op |-> half, reg |-> Reg[r], val |-> 0]     \* packet_ptr as it is then
Bits(op, r, bits) == [op |-> op, reg |-> Reg[r], val |-> bits]   \* BIT_FIELD_SET, BIT_FIELD_CLR
Get(what) == [op |-> what, reg |-> Reg.ECON1, val |-> 0]         \* READ_BUF_MEM
Put(bytes) == [op |-> "put", reg |-> Reg.ECON1, val |-> bytes]   \* WRITE_BUF_MEM

WriteWord(l, h, v) == <<Write(l, Low(v)), Write(h, High(v))>>

PhyWrite(r, v) == <<Write("MIREGADR", r), Write("MIWRL", v), Write("MIWRH", 0), Read("MISTAT")>>

\* enc28j60_init and network_init; a value that only configures the chip is 1.
NetworkInit ==
    <<Read("ESTAT")>>
    \o WriteWord("ERXSTL", "ERXSTH", RxStart)
    \o WriteWord("ERXRDPTL", "ERXRDPTH", RxStart)
    \o WriteWord("ERXNDL", "ERXNDH", RxStop)
    \o WriteWord("ETXSTL", "ETXSTH", TxStart)
    \o <<Write("MACON1", 1), Write("MACON2", 0), Bits("set", "MACON3", 1),
         Write("MAIPGL", 1), Write("MAIPGH", 1), Write("MABBIPG", 1),
         Write("MAMXFLL", 1), Write("MAMXFLH", 1), Write("MAADR", 1)>>
    \o PhyWrite(1, 1)
    \o <<Bits("bank", "ECON1", 0), Bits("set", "EIE", 1), Bits("set", "ECON1", {"RXEN"})>>
    \o PhyWrite(2, 1)

\* packet_receive, from its test of EPKTCNT to PKTDEC.
OpenFrame == <<Read("EPKTCNT"), Pointer("low", "ERDPTL"), Pointer("high", "ERDPTH"),
               Get("nextLow"), Get("nextHigh"), Get("lenLow"), Get("lenHigh"), Get("stat"), Get("stat")>>
FreeFrame == <<Pointer("low", "ERXRDPTL"), Pointer("high", "ERXRDPTH")>>
CountFrame == <<Bits("set", "ECON2", "PKTDEC")>>

\* Seeded bugs: the frame's place is given back before it is copied, or never.
PacketReceiveFreed == OpenFrame \o FreeFrame \o <<Get("copy")>> \o CountFrame
PacketReceiveKept == OpenFrame \o <<Get("copy")>> \o CountFrame

PacketReceive == OpenFrame \o <<Get("copy")>> \o FreeFrame \o CountFrame

\* network_send: the second part from uip_appdata.
Parts(f) == IF Len(f) <= HeadLen THEN <<f>>
            ELSE <<Shorter(f, HeadLen), SubSeq(f, HeadLen + 1, Len(f))>>

StopTransmitter == <<Bits("set", "ECON1", {"TXRST"}), Bits("clr", "ECON1", {"TXRST"})>>

LoadFrame(f) ==
    WriteWord("EWRPTL", "EWRPTH", TxStart)
    \o WriteWord("ETXNDL", "ETXNDH", TxStart + Len(f))
    \o <<Put(<<0>>)>>
    \o [i \in DOMAIN Parts(f) |-> Put(Parts(f)[i])]
    \o <<Bits("set", "ECON1", {"TXRTS"})>>

\* Seeded bug: the transmitter is not stopped first.
PacketSendRunning(f) == LoadFrame(f)

PacketSend(f) == StopTransmitter \o LoadFrame(f)

-----------------------------------------------------------------------------
(* What a transaction does. *)

EncInit ==
    /\ ops = NetworkInit
    /\ bank = 0 /\ packetPtr = RxStart /\ rxLen = 0 /\ uipBuf = <<>>
    /\ econ1 = {}                                        \* after the soft reset
    /\ regs = [r \in {Reg[n] : n \in DOMAIN Reg} |-> 0]
    /\ mem = [a \in TxStart .. RxStop |-> 0]
    /\ rxEnd = 0 /\ writePtr = 0 /\ unread = <<>>
    /\ txPos = 0 /\ wire = <<>> /\ handed = <<>>

\* Seeded bug: the old selection is not cleared.
BankSetAdds(b) ==
    /\ bank' = b
    /\ econ1' = econ1 \cup BankBits(b)
    /\ UNCHANGED <<ops, packetPtr, rxLen, uipBuf, regs, mem, rxVars, txVars>>

\* enc28j60_bank_set: no other transaction comes between its two.
BankSet(b) ==
    /\ bank' = b
    /\ econ1' = (econ1 \ {"BSEL0", "BSEL1"}) \cup BankBits(b)
    /\ UNCHANGED <<ops, packetPtr, rxLen, uipBuf, regs, mem, rxVars, txVars>>

\* The receiver takes its limit when the high half is written, and the place of
\* the next frame from ERXST.
RegWrite(r, v) ==
    LET new == IF Reached(r) \in DOMAIN regs THEN [regs EXCEPT ![Reached(r)] = v] ELSE regs
        word(l, h) == new[Reg[l]] + Base * new[Reg[h]]
    IN /\ regs' = new
       /\ rxEnd' = IF Reached(r) = Reg.ERXRDPTH THEN word("ERXRDPTL", "ERXRDPTH") ELSE rxEnd
       /\ writePtr' = IF Reached(r) \in {Reg.ERXSTL, Reg.ERXSTH} THEN word("ERXSTL", "ERXSTH") ELSE writePtr
       /\ UNCHANGED <<driverVars, econ1, mem, unread, txVars>>

\* Bits of ECON1: the transmitter stops, or starts unless it runs.
Econ1Set(bits) ==
    LET starts == "TXRTS" \in bits \ econ1
    IN /\ econ1' = (econ1 \cup bits) \ (IF "TXRST" \in bits THEN {"TXRTS"} ELSE {})
       /\ txPos' = IF "TXRST" \in bits THEN 0 ELSE IF starts THEN Word("ETXSTL", "ETXSTH") + 1 ELSE txPos
       /\ wire' = IF starts \/ txPos' = 0 THEN <<>> ELSE wire
       /\ handed' = IF starts THEN uipBuf ELSE IF txPos' = 0 THEN <<>> ELSE handed
       /\ UNCHANGED <<driverVars, regs, mem, rxVars>>

PktDec ==
    /\ regs' = [regs EXCEPT ![Reg.EPKTCNT] = @ - 1]
    /\ unread' = Tail(unread)
    /\ UNCHANGED <<driverVars, econ1, mem, rxEnd, writePtr, txVars>>

BufferWrite(bytes) ==
    LET at == Word("EWRPTL", "EWRPTH")
    IN /\ mem' = [a \in DOMAIN mem |-> IF a - at \in 0 .. Len(bytes) - 1 THEN bytes[a - at + 1] ELSE mem[a]]
       /\ regs' = [regs EXCEPT ![Reg.EWRPTL] = Low(at + Len(bytes)), ![Reg.EWRPTH] = High(at + Len(bytes))]
       /\ UNCHANGED <<driverVars, econ1, rxVars, txVars>>

\* A byte of the header, or the frame.
BufferRead(what) ==
    LET at == Word("ERDPTL", "ERDPTH")
        n == IF rxLen < MaxLen THEN rxLen ELSE MaxLen
        next == Moved(at, IF what = "copy" THEN n ELSE 1)
    IN /\ packetPtr' = CASE what = "nextLow" -> mem[at]
                         [] what = "nextHigh" -> packetPtr + Base * mem[at]
                         [] OTHER -> packetPtr
       /\ rxLen' = CASE what = "lenLow" -> mem[at]
                   [] what = "lenHigh" -> rxLen + Base * mem[at]
                   [] what = "copy" -> n
                   [] OTHER -> rxLen
       /\ uipBuf' = IF what = "copy" THEN [i \in 1 .. n |-> mem[Moved(at, i - 1)]] ELSE uipBuf
       /\ regs' = [regs EXCEPT ![Reg.ERDPTL] = Low(next), ![Reg.ERDPTH] = High(next)]
       /\ UNCHANGED <<bank, econ1, mem, rxVars, txVars>>

\* The registers of a bank are reached after bank_set, bit operations and the
\* buffer in whatever bank is selected.
WrongBank(o) == o.op \in {"write", "low", "high", "read", "bank"} /\ o.reg[1] /= bank

Transaction(o) ==
    CASE o.op = "write" -> RegWrite(o.reg, o.val)
      [] o.op = "low" -> RegWrite(o.reg, Low(packetPtr))
      [] o.op = "high" -> RegWrite(o.reg, High(packetPtr))
      [] o.op = "set" /\ o.reg = Reg.ECON1 -> Econ1Set(o.val)
      [] o.op = "set" /\ o.reg = Reg.ECON2 -> PktDec
      [] o.op = "set" /\ o.reg \in {Reg.EIE, Reg.MACON3} -> RegWrite(o.reg, o.val)
      [] o.op = "clr" -> econ1' = econ1 \ o.val /\ UNCHANGED <<driverVars, regs, mem, rxVars, txVars>>
      [] o.op = "put" -> BufferWrite(o.val)
      [] o.op \in {"read", "bank"} -> UNCHANGED <<driverVars, econ1, regs, mem, rxVars, txVars>>
      [] OTHER -> BufferRead(o.op)

\* Seeded bug: the last frame is left until another one arrives.
NoneReceivedButOne == Contents(Reg.EPKTCNT) <= 1

NoneReceived == Contents(Reg.EPKTCNT) = 0

Spi ==
    /\ ops /= <<>>
    /\ IF WrongBank(Head(ops))
       THEN BankSet(Head(ops).reg[1])
       ELSE /\ Transaction(Head(ops))
            /\ ops' = IF Head(ops).reg = Reg.EPKTCNT /\ NoneReceived
                      THEN <<>>                          \* return 0
                      ELSE Tail(ops)

-----------------------------------------------------------------------------
(* The chip on its own, and the calls of the main loop. *)

\* A frame as it is stored: where the next one starts, its length, a status.
Stored(f) ==
    LET next == Moved(writePtr, Room(f))
    IN <<Low(next), High(next), Low(Len(f)), High(Len(f)), 0, 0>> \o f

\* The receiver never reaches rxEnd, where the oldest unread frame starts.
Free == IF writePtr = rxEnd THEN RingSize - 1 ELSE (rxEnd - writePtr - 1) % RingSize

Arrive ==
    /\ "RXEN" \in econ1
    /\ \E f \in RxFrames :
        /\ Room(f) <= Free
        /\ mem' = [a \in DOMAIN mem |->
                     LET n == (a - writePtr) % RingSize
                     IN IF a >= RxStart /\ n < 6 + Len(f) THEN Stored(f)[n + 1] ELSE mem[a]]
        /\ writePtr' = Moved(writePtr, Room(f))
        /\ unread' = Append(unread, [at |-> writePtr, frame |-> f])
        /\ regs' = [regs EXCEPT ![Reg.EPKTCNT] = @ + 1]
    /\ UNCHANGED <<ops, driverVars, econ1, rxEnd, txVars>>

ChipTransmit ==
    /\ txPos > 0
    /\ wire' = Append(wire, mem[txPos])
    /\ IF txPos = Word("ETXNDL", "ETXNDH")
       THEN txPos' = 0 /\ econ1' = econ1 \ {"TXRTS"}
       ELSE txPos' = txPos + 1 /\ UNCHANGED econ1
    /\ UNCHANGED <<ops, driverVars, regs, mem, rxVars, handed>>

NetworkRead ==
    /\ ops = <<>>
    /\ ops' = PacketReceive
    /\ UNCHANGED <<driverVars, econ1, regs, mem, rxVars, txVars>>

NetworkSend ==
    /\ ops = <<>>
    /\ \E f \in TxFrames : ops' = PacketSend(f) /\ uipBuf' = f
    /\ UNCHANGED <<bank, packetPtr, rxLen, econ1, regs, mem, rxVars, txVars>>

EncNext == Spi \/ Arrive \/ ChipTransmit \/ NetworkRead \/ NetworkSend

EncSpec == EncInit /\ [][EncNext]_encVars

\* The main loop does not stop, and calls nethandler_rx in every turn.
EncFairness == WF_encVars(Spi) /\ SF_encVars(NetworkRead)

-----------------------------------------------------------------------------
(* Properties *)

\* Between two calls the driver's pointer is where the oldest unread frame
\* starts, or where the next one will, the receiver may write up to it, and
\* the chip counts the same frames (enc28j60_packet_ptr, ERXRDPT and EPKTCNT
\* are moved by separate transactions, with arrivals between them).
RxInSync ==
    ops = <<>> => /\ packetPtr = IF unread = <<>> THEN writePtr ELSE Head(unread).at
                  /\ rxEnd = packetPtr
                  /\ regs[Reg.EPKTCNT] = Len(unread)

\* When reception starts every register holds what was written for it: no write
\* of enc28j60_init went to the register of the same address in another bank.
Configured ==
    "RXEN" \in econ1 =>
        /\ Word("ERXSTL", "ERXSTH") = RxStart /\ Word("ERXNDL", "ERXNDH") = RxStop
        /\ Word("ETXSTL", "ETXSTH") = TxStart
        /\ \A r \in {"MACON1", "MACON3", "MABBIPG", "MAIPGL", "MAIPGH", "MAMXFLL", "MAMXFLH", "MAADR", "EIE"} :
             regs[Reg[r]] = 1
        /\ regs[Reg.MACON2] = 0
        /\ regs[Reg.MIREGADR] \in 1 .. 2 /\ regs[Reg.MIWRL] = 1       \* the PHY was reached

\* A frame that packet_receive releases was handed to uIP byte for byte as the
\* chip stored it, cut to the size of uip_buf, whatever arrived meanwhile.  Its
\* CRC is still there: the comment at enc28j60.c:262 takes it off ("we reduce the
\* MAC-reported length by 4"), the code does not, and uIP sees four bytes behind
\* each packet, like padding.
FramesIntact == [][Len(unread') < Len(unread) => uipBuf = Shorter(Head(unread).frame, MaxLen)]_encVars

\* A frame that leaves the chip to its last byte is one uIP sent: the writes of
\* the next packet_send never mix into it (it does not wait for the last frame
\* to leave, it stops it).
WireFramesWhole == [][ChipTransmit /\ txPos' = 0 => wire' = handed]_encVars

\* Frames do not stay in the chip: one is released again and again, or none is
\* left.
FramesRead == []<>(unread = <<>>) \/ []<><<Len(unread') < Len(unread)>>_encVars

=============================================================================
