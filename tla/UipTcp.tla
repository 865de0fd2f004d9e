------------------------------- MODULE UipTcp -------------------------------
(***************************************************************************)
(* The TCP half of uip_process (src/src/uip/uip.c) for the single          *)
(* connection slot of this firmware (UIP_CONNS = 1, no listening ports,    *)
(* active open only, no urgent data).  Each action is one path through     *)
(* uip_process or uip_connect, from its entry to the "send" or "drop"      *)
(* label.  UIP_APPCALL runs inside that path: an action that calls the     *)
(* application says so in its comment and takes as parameters what the     *)
(* application did (`req' and the `data' it handed to uip_send).           *)
(*                                                                         *)
(* Abstractions.  Sequence numbers count segments rather than bytes and    *)
(* are relative to the initial ones (the code sends one segment at a time  *)
(* and only compares numbers for equality).  A payload is a sequence of    *)
(* units.  Segments that fail a checksum or a length check are dropped     *)
(* before this code and do not appear.  The round trip estimator of lines  *)
(* 1380-1392 is a choice among Rtos.  PSH is not represented.              *)
(***************************************************************************)
EXTENDS Integers, Sequences

CONSTANTS
    Ports,      \* local ports uip_connect draws from
    SeqMod,     \* sequence numbers are taken modulo this
    TcpMss,     \* UIP_TCP_MSS, in units
    Windows,    \* limits a peer's MSS option or window may impose, in units
    Rto,        \* UIP_RTO
    Rtos,       \* values the round trip estimator may produce
    MaxRtx,     \* UIP_MAXRTX
    MaxSynRtx,  \* UIP_MAXSYNRTX
    TimeWait,   \* UIP_TIME_WAIT_TIMEOUT
    Cap,        \* frames the network holds towards the peer (model bound)
    AppData,    \* payloads an application hands to uip_send
    PeerData    \* payloads a peer sends

ASSUME TcpAssumption ==
    /\ SeqMod \in Nat \ {0, 1}
    /\ TcpMss \in Nat \ {0}
    /\ Windows \subseteq 1 .. TcpMss
    /\ Rto \in 1 .. 15
    /\ Rtos \subseteq 0 .. 255
    /\ MaxRtx \in 1 .. 254
    /\ MaxSynRtx \in 1 .. MaxRtx
    /\ TimeWait \in 1 .. 255
    /\ Cap \in Nat
    /\ <<>> \in AppData /\ \A d \in AppData : Len(d) \in Nat
    /\ \E p, q \in Ports : p # q

VARIABLES
    tcpState,   \* uip_conn->tcpstateflags
    lport,      \* uip_conn->lport
    sndNxt,     \* uip_conn->snd_nxt
    rcvNxt,     \* uip_conn->rcv_nxt
    len,        \* uip_conn->len: units in flight, 0 when all is acknowledged
    mss,        \* uip_conn->mss
    nrtx,       \* uip_conn->nrtx
    rtxTimer,   \* uip_conn->timer
    rto,        \* uip_conn->rto
    toPeer      \* frames handed to network_send and not yet taken by the peer

tcpVars == <<tcpState, lport, sndNxt, rcvNxt, len, mss, nrtx, rtxTimer, rto, toPeer>>

TcpStates == {"CLOSED", "SYN_SENT", "ESTABLISHED", "FIN_WAIT_1", "FIN_WAIT_2",
              "CLOSING", "TIME_WAIT", "LAST_ACK"}

\* The flag combinations a peer's stack puts on a segment.
PeerFlags == {{"SYN", "ACK"}, {"ACK"}, {"FIN", "ACK"}, {"RST"}, {"SYN"}}

\* What this side of the connection can receive.  `mss' is the limit that the
\* segment's MSS option or window imposes, clipped to what uIP can send.
Segment == [port : Ports, flags : PeerFlags, seq : 0 .. SeqMod - 1,
            ack : 0 .. SeqMod - 1, data : PeerData, mss : Windows]

Bump(n) == (n + 1) % SeqMod

Outstanding == len > 0

-----------------------------------------------------------------------------
(* Output: the frame in uip_buf goes to the driver; a full network loses it. *)

Transmit(frame) ==
    toPeer' = IF Len(toPeer) < Cap THEN Append(toPeer, frame) ELSE toPeer

Frame(flags, data) ==
    [port |-> lport, flags |-> flags, seq |-> sndNxt', ack |-> rcvNxt', data |-> data]

SendFinAck == Transmit(Frame({"FIN", "ACK"}, <<>>))

\* The reset label: seqno and ackno of the offending segment are swapped.
SendReset(seg) ==
    IF "RST" \in seg.flags
    THEN UNCHANGED toPeer
    ELSE Transmit([port |-> seg.port, flags |-> {"RST", "ACK"}, seq |-> seg.ack,
                   ack |-> Bump(seg.seq), data |-> <<>>])

-----------------------------------------------------------------------------
(* uip_connect *)

CanConnect == tcpState \in {"CLOSED", "TIME_WAIT"}

UipConnect ==
    /\ CanConnect
    /\ tcpState' = "SYN_SENT"
    /\ lport' \in Ports \ {lport}
    /\ sndNxt' = 0
    /\ len' = 1
    /\ mss' = TcpMss
    /\ nrtx' = 0
    /\ rtxTimer' = 1
    /\ rto' = Rto
    /\ UNCHANGED <<rcvNxt, toPeer>>

-----------------------------------------------------------------------------
(* What follows UIP_APPCALL: the appsend label.  `unacked' is uip_conn->len  *)
(* after acknowledgement processing, `newdata' whether UIP_NEWDATA was set.  *)

AppSend(data, unacked, newdata) ==
    LET size == IF unacked > 0 THEN unacked
                ELSE IF Len(data) > mss' THEN mss' ELSE Len(data)
    IN  /\ len' = IF data = <<>> THEN unacked ELSE size
        /\ nrtx' = 0
        /\ tcpState' = "ESTABLISHED"
        /\ IF data # <<>> THEN Transmit(Frame({"ACK"}, SubSeq(data, 1, size)))
           ELSE IF newdata THEN Transmit(Frame({"ACK"}, <<>>))
           ELSE UNCHANGED toPeer

\* Seeded bug: the FIN is sent without being counted as in flight.
AppCloseUncounted ==
    /\ len' = 0
    /\ nrtx' = 0
    /\ tcpState' = "FIN_WAIT_1"
    /\ SendFinAck

AppClose ==
    /\ len' = 1
    /\ nrtx' = 0
    /\ tcpState' = "FIN_WAIT_1"
    /\ SendFinAck

AppAbort(unacked) ==
    /\ len' = unacked
    /\ tcpState' = "CLOSED"
    /\ Transmit(Frame({"RST", "ACK"}, <<>>))
    /\ UNCHANGED nrtx

AppReturn(req, data, unacked, newdata) ==
    \/ req = "send" /\ AppSend(data, unacked, newdata)
    \/ req = "close" /\ AppClose
    \/ req = "abort" /\ AppAbort(unacked)

-----------------------------------------------------------------------------
(* uip_process(UIP_TIMER): the periodic call *)

\* uip_conn->timer = UIP_RTO << min(nrtx, 4), one byte wide.
Backoff == (Rto * <<1, 2, 4, 8, 16>>[IF nrtx > 4 THEN 5 ELSE nrtx + 1]) % 256

\* Seeded bug: FIN_WAIT_2 is forgotten.
WaitingTimeWait == tcpState = "TIME_WAIT"

Waiting == tcpState \in {"TIME_WAIT", "FIN_WAIT_2"}

\* Seeded bug: no shorter limit for the SYN.
RetriesSpentSynToo == nrtx = MaxRtx

RetriesSpent ==
    \/ nrtx = MaxRtx
    \/ tcpState = "SYN_SENT" /\ nrtx = MaxSynRtx

\* Nothing to time out and nobody to poll.
TimerIdle ==
    /\ \/ tcpState = "CLOSED"
       \/ ~Waiting /\ ~Outstanding /\ tcpState # "ESTABLISHED"
    /\ UNCHANGED tcpVars

\* The states that only wait for the other side; the application is not told.
TimerWait ==
    /\ Waiting
    /\ rtxTimer' = (rtxTimer + 1) % 256
    /\ tcpState' = IF rtxTimer' = TimeWait THEN "CLOSED" ELSE tcpState
    /\ UNCHANGED <<lport, sndNxt, rcvNxt, len, mss, nrtx, rto, toPeer>>

TimerArmed == tcpState # "CLOSED" /\ ~Waiting /\ Outstanding

TimerCountDown ==
    /\ TimerArmed
    /\ rtxTimer > 0
    /\ rtxTimer' = rtxTimer - 1
    /\ UNCHANGED <<tcpState, lport, sndNxt, rcvNxt, len, mss, nrtx, rto, toPeer>>

\* The application is called with UIP_TIMEDOUT.
TimerGiveUp ==
    /\ TimerArmed
    /\ rtxTimer = 0
    /\ RetriesSpent
    /\ tcpState' = "CLOSED"
    /\ rtxTimer' = 255
    /\ UNCHANGED <<lport, sndNxt, rcvNxt, len, mss, nrtx, rto>>
    /\ Transmit(Frame({"RST", "ACK"}, <<>>))

\* A retransmission; in ESTABLISHED the application is called with UIP_REXMIT
\* and provides `data' again, elsewhere the SYN or the FIN is repeated.
TimerRexmit(data) ==
    /\ TimerArmed
    /\ rtxTimer = 0
    /\ ~RetriesSpent
    /\ rtxTimer' = Backoff
    /\ nrtx' = nrtx + 1
    /\ UNCHANGED <<tcpState, lport, sndNxt, rcvNxt, len, mss, rto>>
    /\ CASE tcpState = "SYN_SENT" -> Transmit(Frame({"SYN"}, <<>>))
         [] tcpState = "ESTABLISHED" ->
              IF data = <<>> THEN UNCHANGED toPeer
              ELSE Transmit(Frame({"ACK"}, SubSeq(data, 1, len)))
         [] OTHER -> SendFinAck

\* Seeded bug: polled while data is in flight.
TimerPollAlways(req, data) ==
    /\ tcpState = "ESTABLISHED"
    /\ UNCHANGED <<lport, sndNxt, rcvNxt, mss, rtxTimer, rto>>
    /\ AppReturn(req, data, 0, FALSE)

\* The application is called with UIP_POLL.
TimerPoll(req, data) ==
    /\ tcpState = "ESTABLISHED"
    /\ ~Outstanding
    /\ UNCHANGED <<lport, sndNxt, rcvNxt, mss, rtxTimer, rto>>
    /\ AppReturn(req, data, 0, FALSE)

-----------------------------------------------------------------------------
(* uip_process(UIP_DATA): a segment arrived *)

Found(seg) == tcpState # "CLOSED" /\ seg.port = lport

\* No connection wants it: answered with a reset unless it is one.
RxStray(seg) ==
    /\ ~Found(seg)
    /\ SendReset(seg)
    /\ UNCHANGED <<tcpState, lport, sndNxt, rcvNxt, len, mss, nrtx, rtxTimer, rto>>

\* The application is called with UIP_ABORT.
RxReset(seg) ==
    /\ Found(seg)
    /\ "RST" \in seg.flags
    /\ tcpState' = "CLOSED"
    /\ UNCHANGED <<lport, sndNxt, rcvNxt, len, mss, nrtx, rtxTimer, rto, toPeer>>

OutOfOrder(seg) ==
    /\ ~(tcpState = "SYN_SENT" /\ seg.flags = {"SYN", "ACK"})
    /\ seg.data # <<>> \/ seg.flags \cap {"SYN", "FIN"} # {}
    /\ seg.seq # rcvNxt

RxOutOfOrder(seg) ==
    /\ Found(seg)
    /\ "RST" \notin seg.flags
    /\ OutOfOrder(seg)
    /\ UNCHANGED <<tcpState, lport, sndNxt, rcvNxt, len, mss, nrtx, rtxTimer, rto>>
    /\ Transmit(Frame({"ACK"}, <<>>))

\* The segment reaches acknowledgement processing and the state switch.
Accepted(seg, state) ==
    /\ Found(seg)
    /\ tcpState = state
    /\ "RST" \notin seg.flags
    /\ ~OutOfOrder(seg)

\* Seeded bug: any acknowledgement will do.
AckDataAny(seg) ==
    /\ "ACK" \in seg.flags
    /\ Outstanding

\* UIP_ACKDATA: everything in flight is acknowledged by this segment.
AckData(seg) ==
    /\ "ACK" \in seg.flags
    /\ Outstanding
    /\ seg.ack = Bump(sndNxt)

LenAfterAck(seg) == IF AckData(seg) THEN 0 ELSE len

AckSndNxt(seg) == sndNxt' = IF AckData(seg) THEN Bump(sndNxt) ELSE sndNxt

\* Round trip estimate and retransmission timer.
AckTimer(seg) ==
    IF AckData(seg)
    THEN rto' \in (IF nrtx = 0 THEN Rtos ELSE {rto}) /\ rtxTimer' = rto'
    ELSE UNCHANGED <<rto, rtxTimer>>

ProcessAck(seg) == AckSndNxt(seg) /\ AckTimer(seg)

\* SYN_SENT: the handshake completes; the application is called with
\* UIP_CONNECTED | UIP_NEWDATA.
RxConnected(seg, req, data) ==
    /\ Accepted(seg, "SYN_SENT")
    /\ AckData(seg)
    /\ seg.flags = {"SYN", "ACK"}
    /\ ProcessAck(seg)
    /\ rcvNxt' = Bump(seg.seq)
    /\ mss' = seg.mss
    /\ UNCHANGED lport
    /\ AppReturn(req, data, 0, TRUE)

\* SYN_SENT: anything else; the application is called with UIP_ABORT.
RxRefused(seg) ==
    /\ Accepted(seg, "SYN_SENT")
    /\ ~(AckData(seg) /\ seg.flags = {"SYN", "ACK"})
    /\ ProcessAck(seg)
    /\ len' = LenAfterAck(seg)
    /\ tcpState' = "CLOSED"
    /\ SendReset(seg)
    /\ UNCHANGED <<lport, rcvNxt, mss, nrtx>>

\* ESTABLISHED, FIN while data is in flight: dropped, the peer will repeat it.
RxFinTooEarly(seg) ==
    /\ Accepted(seg, "ESTABLISHED")
    /\ "FIN" \in seg.flags
    /\ LenAfterAck(seg) > 0
    /\ UNCHANGED tcpVars

\* ESTABLISHED, FIN: the application is called with UIP_CLOSE (and UIP_NEWDATA
\* when the segment carries data); what it sends is ignored.
RxFin(seg) ==
    /\ Accepted(seg, "ESTABLISHED")
    /\ "FIN" \in seg.flags
    /\ LenAfterAck(seg) = 0
    /\ ProcessAck(seg)
    /\ rcvNxt' = Bump(rcvNxt)
    /\ tcpState' = "LAST_ACK"
    /\ len' = 1
    /\ nrtx' = 0
    /\ UNCHANGED <<lport, mss>>
    /\ SendFinAck

\* ESTABLISHED, new data or an acknowledgement: the application is called with
\* UIP_NEWDATA and/or UIP_ACKDATA.
RxDeliver(seg, req, data) ==
    /\ Accepted(seg, "ESTABLISHED")
    /\ "FIN" \notin seg.flags
    /\ seg.data # <<>> \/ AckData(seg)
    /\ ProcessAck(seg)
    /\ rcvNxt' = IF seg.data # <<>> THEN Bump(rcvNxt) ELSE rcvNxt
    /\ mss' = seg.mss
    /\ UNCHANGED lport
    /\ AppReturn(req, data, LenAfterAck(seg), seg.data # <<>>)

\* ESTABLISHED, neither: only the peer's window is taken over.
RxWindow(seg) ==
    /\ Accepted(seg, "ESTABLISHED")
    /\ "FIN" \notin seg.flags
    /\ seg.data = <<>>
    /\ ~AckData(seg)
    /\ mss' = seg.mss
    /\ UNCHANGED <<tcpState, lport, sndNxt, rcvNxt, len, nrtx, rtxTimer, rto, toPeer>>

\* LAST_ACK: our FIN is acknowledged; the application is called with UIP_CLOSE.
RxLastAck(seg) ==
    /\ Accepted(seg, "LAST_ACK")
    /\ AckData(seg)
    /\ ProcessAck(seg)
    /\ len' = 0
    /\ tcpState' = "CLOSED"
    /\ UNCHANGED <<lport, rcvNxt, mss, nrtx, toPeer>>

\* LAST_ACK: anything else is dropped.
RxLastAckWait(seg) ==
    /\ Accepted(seg, "LAST_ACK")
    /\ ~AckData(seg)
    /\ UNCHANGED tcpVars

\* rcv_nxt moves over the data and the FIN of an accepted segment.
Consume(seg) ==
    rcvNxt' = IF seg.data # <<>> \/ "FIN" \in seg.flags THEN Bump(rcvNxt) ELSE rcvNxt

AckIncoming == Transmit(Frame({"ACK"}, <<>>))

\* FIN_WAIT_1.  On a FIN the application is called with UIP_CLOSE.
RxFinWait1(seg) ==
    /\ Accepted(seg, "FIN_WAIT_1")
    /\ AckSndNxt(seg)
    /\ Consume(seg)
    /\ len' = LenAfterAck(seg)
    /\ \/ /\ "FIN" \in seg.flags /\ AckData(seg)
          /\ tcpState' = "TIME_WAIT"
          /\ rtxTimer' = 0
          /\ rto' \in (IF nrtx = 0 THEN Rtos ELSE {rto})
          /\ AckIncoming
       \/ /\ "FIN" \in seg.flags /\ ~AckData(seg)
          /\ tcpState' = "CLOSING"
          /\ UNCHANGED <<rto, rtxTimer>>
          /\ AckIncoming
       \/ /\ "FIN" \notin seg.flags /\ AckData(seg)
          /\ tcpState' = "FIN_WAIT_2"
          /\ AckTimer(seg)
          /\ UNCHANGED toPeer
       \/ /\ "FIN" \notin seg.flags /\ ~AckData(seg)
          /\ UNCHANGED <<tcpState, rto, rtxTimer>>
          /\ IF seg.data # <<>> THEN AckIncoming ELSE UNCHANGED toPeer
    /\ UNCHANGED <<lport, mss, nrtx>>

\* FIN_WAIT_2.  On a FIN the application is called with UIP_CLOSE.
RxFinWait2(seg) ==
    /\ Accepted(seg, "FIN_WAIT_2")
    /\ Consume(seg)
    /\ IF "FIN" \in seg.flags
       THEN tcpState' = "TIME_WAIT" /\ rtxTimer' = 0
       ELSE UNCHANGED <<tcpState, rtxTimer>>
    /\ IF seg.data # <<>> \/ "FIN" \in seg.flags THEN AckIncoming ELSE UNCHANGED toPeer
    /\ UNCHANGED <<lport, sndNxt, len, mss, nrtx, rto>>

RxTimeWait(seg) ==
    /\ Accepted(seg, "TIME_WAIT")
    /\ UNCHANGED <<tcpState, lport, sndNxt, rcvNxt, len, mss, nrtx, rtxTimer, rto>>
    /\ AckIncoming

RxClosing(seg) ==
    /\ Accepted(seg, "CLOSING")
    /\ AckSndNxt(seg)
    /\ len' = LenAfterAck(seg)
    /\ IF AckData(seg)
       THEN /\ tcpState' = "TIME_WAIT"
            /\ rtxTimer' = 0
            /\ rto' \in (IF nrtx = 0 THEN Rtos ELSE {rto})
       ELSE UNCHANGED <<tcpState, rtxTimer, rto>>
    /\ UNCHANGED <<lport, rcvNxt, mss, nrtx, toPeer>>

-----------------------------------------------------------------------------
(* The connection under any application and any peer.  The application       *)
(* calls uip_connect when it likes; when it is called back it may send,      *)
(* close or abort; asked for data that is in flight it repeats at least as   *)
(* much as it sent, as uip_send's callers must.                              *)

TcpInit ==
    /\ tcpState = "CLOSED"
    /\ lport \in Ports
    /\ sndNxt = 0 /\ rcvNxt = 0 /\ len = 0 /\ mss = 0
    /\ nrtx = 0 /\ rtxTimer = 0 /\ rto = 0
    /\ toPeer = <<>>

Answers(unacked) ==
    {[req |-> "send", data |-> d] : d \in {e \in AppData : e = <<>> \/ Len(e) >= unacked}}
      \cup {[req |-> r, data |-> <<>>] : r \in {"close", "abort"}}

Periodic ==
    \/ TimerIdle
    \/ TimerWait
    \/ TimerCountDown
    \/ TimerGiveUp
    \/ \E d \in {e \in AppData : e = <<>> \/ Len(e) >= len} : TimerRexmit(d)
    \/ \E a \in Answers(0) : TimerPoll(a.req, a.data)

Input(seg) ==
    \/ RxStray(seg)
    \/ RxReset(seg)
    \/ RxOutOfOrder(seg)
    \/ \E a \in Answers(0) : RxConnected(seg, a.req, a.data)
    \/ RxRefused(seg)
    \/ RxFinTooEarly(seg)
    \/ RxFin(seg)
    \/ \E a \in Answers(LenAfterAck(seg)) : RxDeliver(seg, a.req, a.data)
    \/ RxWindow(seg)
    \/ RxLastAck(seg)
    \/ RxLastAckWait(seg)
    \/ RxFinWait1(seg)
    \/ RxFinWait2(seg)
    \/ RxTimeWait(seg)
    \/ RxClosing(seg)

TcpNext ==
    \/ UipConnect
    \/ Periodic
    \/ \E seg \in Segment : Input(seg)

TcpSpec == TcpInit /\ [][TcpNext]_tcpVars

\* nethandler_periodic calls uip_periodic at every expiry of periodic_timer.
TcpFairSpec == TcpSpec /\ WF_tcpVars(Periodic)

-----------------------------------------------------------------------------
(* Properties *)

(* The fields of struct uip_conn stay in their ranges: the retransmission    *)
(* count never passes its limit, although the code tests it for equality,    *)
(* and the timer stays within its byte.                                      *)
TcpTypeOK ==
    /\ tcpState \in TcpStates
    /\ lport \in Ports
    /\ sndNxt \in 0 .. SeqMod - 1
    /\ rcvNxt \in 0 .. SeqMod - 1
    /\ len \in 0 .. TcpMss
    /\ mss \in 0 .. TcpMss
    /\ nrtx \in 0 .. MaxRtx
    /\ rtxTimer \in 0 .. 255
    /\ rto \in Rtos \cup {0, Rto}

(* A connection that is being set up or torn down and is waited for by the   *)
(* retransmission timer always has something in flight: uip_process counts   *)
(* the timer down only then, so without it the only connection slot would be *)
(* taken for ever.  The states that just wait have nothing in flight.        *)
HandshakeArmed ==
    /\ tcpState \in {"SYN_SENT", "FIN_WAIT_1", "CLOSING", "LAST_ACK"} => Outstanding
    /\ Waiting => ~Outstanding

(* A SYN is repeated MaxSynRtx times at most, whatever arrives meanwhile.    *)
RetryBound == tcpState = "SYN_SENT" => nrtx <= MaxSynRtx

(* Neither set-up nor tear-down lasts for ever, whatever the peer sends and   *)
(* however long it keeps sending: tear-down leaves the slot free, or in use   *)
(* again.                                                                    *)
HalfOpenEnds ==
    /\ []<>(tcpState # "SYN_SENT")
    /\ []<>(tcpState \in {"CLOSED", "SYN_SENT", "ESTABLISHED"})

=============================================================================
