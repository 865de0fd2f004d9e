------------------------------- MODULE Psock -------------------------------
(***************************************************************************)
(* Protosockets, src/src/uip/psock.c: a protothread of an application that *)
(* sends messages or reads lines or blocks, one operation after the other. *)
(* uIP calls the application with flags; the thread runs until a           *)
(* PT_WAIT_UNTIL does not hold, and resumes there in the next call.        *)
(* Compiled into the firmware and called by nothing in it.                 *)
(*                                                                         *)
(* The n-th byte of a stream is the number n.                              *)
(***************************************************************************)
EXTENDS Integers, Sequences

CONSTANTS
    Mss,        \* uip_mss()
    BufSize,    \* psock->bufsize
    Messages,   \* lengths PSOCK_SEND is called with
    Segments,   \* lengths of segments the peer sends
    Markers,    \* which bytes of the peer's stream are the end marker
    Limit       \* bound: bytes of each stream

ASSUME PsockAssumption ==
    /\ Mss \in Nat \ {0} /\ BufSize \in Nat \ {0} /\ Limit \in Nat
    /\ Messages \subseteq Nat \ {0} /\ Segments \subseteq Nat \ {0} /\ Markers \subseteq Nat

VARIABLES
    op,             \* the operation the thread is in, or what it does next
    psState,        \* s->state
    sendNext,       \* the byte s->sendptr points to
    sendLen,        \* s->sendlen
    unreadData,     \* the readlen bytes at s->readptr
    lineBuf,        \* what s->buf holds
    called,         \* uIP is calling the application
    flags,          \* uip_flags of this call
    appData,        \* what arrived with it
    sending,        \* what the last uip_send of this call handed over
    outstanding,    \* the segment uIP has in flight
    handedOut,      \* observer: bytes passed to PSOCK_SEND
    longest,        \* observer: the longest message passed to it
    acknowledged,   \* observer: bytes the peer acknowledged, in order
    arrived,        \* observer: bytes the peer sent
    taken           \* observer: the last byte that a finished read consumed

sendVars == <<sendNext, sendLen, handedOut, longest>>
readVars == <<unreadData, lineBuf, taken>>
callVars == <<called, flags, appData, sending>>
streamVars == <<outstanding, acknowledged, arrived>>
psVars == <<op, psState, sendVars, readVars, callVars, streamVars>>

\* A thread sends, or it reads.
PsockInit ==
    /\ op \in {"sender", "reader"} /\ psState = "NONE"
    /\ sendNext = 1 /\ sendLen = 0 /\ unreadData = <<>> /\ lineBuf = <<>>
    /\ called = FALSE /\ flags = {} /\ appData = <<>> /\ sending = <<>>
    /\ outstanding = <<>> /\ acknowledged = <<>>
    /\ handedOut = 0 /\ longest = 0 /\ arrived = 0 /\ taken = 0

Numbers(first, n) == [i \in 1 .. n |-> first + i - 1]
Smaller(a, b) == IF a < b THEN a ELSE b
Larger(a, b) == IF a < b THEN b ELSE a

-----------------------------------------------------------------------------
(* The calls of uIP *)

AppCall(f, data) ==
    /\ ~called /\ called' = TRUE
    /\ flags' = f /\ appData' = data /\ sending' = <<>>
    /\ UNCHANGED <<op, psState, sendVars, readVars>>

PsPoll == outstanding = <<>> /\ AppCall({}, <<>>) /\ UNCHANGED streamVars

PsAcked ==
    /\ outstanding /= <<>>
    /\ AppCall({"acked"}, <<>>)
    /\ acknowledged' = acknowledged \o outstanding
    /\ outstanding' = <<>>
    /\ UNCHANGED arrived

PsRexmit == outstanding /= <<>> /\ AppCall({"rexmit"}, <<>>) /\ UNCHANGED streamVars

PsNewData ==
    /\ \E n \in Segments :
        /\ arrived + n <= Limit
        /\ AppCall({"newdata"}, Numbers(arrived + 1, n))
        /\ arrived' = arrived + n
    /\ UNCHANGED <<outstanding, acknowledged>>

\* PT_WAIT_UNTIL does not hold: the call returns, and uIP sends what the
\* application left with it.
PsWait ==
    /\ called' = FALSE
    /\ outstanding' = IF outstanding = <<>> THEN sending' ELSE outstanding
    /\ UNCHANGED <<flags, appData, acknowledged, arrived>>

-----------------------------------------------------------------------------
(* psock_send *)

PsStartSend ==
    /\ called /\ op = "sender"
    /\ \E n \in Messages :
        /\ handedOut + n <= Limit
        /\ sendNext' = handedOut + 1 /\ sendLen' = n
        /\ handedOut' = handedOut + n /\ longest' = Larger(longest, n)
    /\ op' = "send" /\ psState' = "NONE"
    /\ UNCHANGED <<readVars, callVars, streamVars>>

\* PSOCK_WAIT_UNTIL: nothing to send yet.
PsIdle ==
    /\ called /\ op = "sender"
    /\ UNCHANGED <<op, psState, sendVars, readVars, sending>>
    /\ PsWait


\* data_acked, and what it leaves to be sent
DataAcked == psState = "DATA_SENT" /\ "acked" \in flags
LenAcked == IF DataAcked THEN sendLen - Smaller(sendLen, Mss) ELSE sendLen
NextAcked == IF DataAcked THEN sendNext + Smaller(sendLen, Mss) ELSE sendNext

\* send_data, which is called after data_acked
SendData == psState /= "DATA_SENT" \/ DataAcked \/ "rexmit" \in flags

\* One evaluation of data_acked(s) & send_data(s): the first implies the other.
PsSend ==
    /\ called /\ op = "send" /\ sendLen > 0
    /\ sendLen' = LenAcked /\ sendNext' = NextAcked
    /\ IF SendData
       THEN sending' = Numbers(NextAcked, Smaller(LenAcked, Mss)) /\ psState' = "DATA_SENT"
       ELSE UNCHANGED <<sending, psState>>
    /\ IF DataAcked
       THEN UNCHANGED <<called, flags, appData, streamVars>>
       ELSE PsWait
    /\ UNCHANGED <<op, readVars, handedOut, longest>>

PsSendEnds ==
    /\ called /\ op = "send" /\ sendLen = 0
    /\ op' = "sender" /\ psState' = "NONE"
    /\ UNCHANGED <<sendVars, readVars, callVars, streamVars>>

-----------------------------------------------------------------------------
(* psock_readto, psock_readbuf *)

PsStartRead ==
    /\ called /\ op = "reader"
    /\ op' \in {"readto", "readbuf"}
    /\ lineBuf' = <<>>
    /\ UNCHANGED <<psState, sendVars, unreadData, taken, callVars, streamVars>>

Reading == called /\ op \in {"readto", "readbuf"}

\* psock_newdata, and what follows when it holds
PsAwaitData ==
    /\ Reading /\ unreadData = <<>>
    /\ IF psState /= "READ" /\ "newdata" \in flags
       THEN /\ psState' = "READ" /\ unreadData' = appData
            /\ UNCHANGED <<callVars, streamVars>>
       ELSE /\ psState' = IF psState = "READ" THEN "BLOCKED_NEWDATA" ELSE psState
            /\ UNCHANGED <<unreadData, sending>>
            /\ PsWait
    /\ UNCHANGED <<op, sendVars, lineBuf, taken>>

\* The bytes up to the first marker, or all of them.
UpToMarker(data) ==
    LET ends == {i \in DOMAIN data : data[i] \in Markers}
    IN IF ends = {} THEN Len(data) ELSE CHOOSE i \in ends : \A j \in ends : i <= j

\* buf_bufto drops what does not fit, up to the marker; buf_bufdata leaves it.
BufTo(data) == [bytes |-> UpToMarker(data), done |-> data[UpToMarker(data)] \in Markers]
BufData(data) == [bytes |-> Smaller(Len(data), BufSize - Len(lineBuf)),
                  done |-> Len(data) >= BufSize - Len(lineBuf)]

PsRead ==
    /\ Reading /\ unreadData /= <<>>
    /\ LET b == IF op = "readto" THEN BufTo(unreadData) ELSE BufData(unreadData)
           all == lineBuf \o SubSeq(unreadData, 1, b.bytes)
       IN /\ lineBuf' = SubSeq(all, 1, Smaller(Len(all), BufSize))
          /\ unreadData' = SubSeq(unreadData, b.bytes + 1, Len(unreadData))
          /\ taken' = IF b.done THEN unreadData[b.bytes] ELSE taken
          /\ op' = IF b.done THEN "reader" ELSE op
    /\ UNCHANGED <<psState, sendVars, callVars, streamVars>>

PsockNext ==
    \/ PsPoll \/ PsAcked \/ PsRexmit \/ PsNewData
    \/ PsStartSend \/ PsIdle \/ PsSend \/ PsSendEnds
    \/ PsStartRead \/ PsAwaitData \/ PsRead

PsockSpec == PsockInit /\ [][PsockNext]_psVars

-----------------------------------------------------------------------------
(* Properties *)

\* Part of StreamsExact: when PSOCK_SEND returns the peer has acknowledged all that was passed to it,
\* in order and once.
SentIsReceived == op = "send" /\ op' = "sender" => acknowledged = Numbers(1, handedOut)

\* Part of StreamsExact: a retransmission is handed the bytes that are in flight.
SameAgain == called /\ ~called' /\ "rexmit" \in flags => sending' = outstanding

\* Part of StreamsExact: however the peer's stream is cut into segments, a reader gets each of its
\* bytes in one read: PSOCK_READTO all up to the marker, as far as the buffer
\* holds them, and PSOCK_READBUF a full buffer.
ReadsWhole ==
    taken' /= taken =>
        LET n == taken' - taken
        IN /\ lineBuf' = Numbers(taken + 1, Smaller(n, BufSize))
           /\ op = "readto" => (taken + 1 .. taken') \cap Markers = {taken'}
           /\ op = "readbuf" => n = BufSize



=============================================================================
