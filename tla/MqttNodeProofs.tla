--------------------------- MODULE MqttNodeProofs ---------------------------
(* The node keeps its invariants and uses its connection as UipTcp allows,   *)
(* for every value of the parameters and every peer that conforms.           *)
EXTENDS MqttNode, UipTcpProofs, SequenceTheorems, TLAPS

USE DEF UmqttConnect, UmqttPublish, UmqttPing

NodeInv ==
    /\ NodeTypeOK
    /\ HandshakeArmed
    /\ RetryBound
    /\ SessionMatchesTransport
    /\ SessionPhase
    /\ LedShowsNormal
    /\ RetransmitSafe

\* A step of the node on any segment that does no more harm than a conforming
\* one: if it gets past the sequence number check, it conforms.
Harmless(seg) == Found(seg) /\ ~OutOfOrder(seg) => Conforming(seg)

OpenNext ==
    \/ \E seg : Header(seg) /\ Harmless(seg) /\ RxStage(seg)
    \/ MainLoop
    \/ Tick

-----------------------------------------------------------------------------
(* The buffers *)

LEMMA AtMostType ==
    ASSUME NEW n \in Nat, NEW m \in Nat
    PROVE  AtMost(n, m) \in 0 .. n /\ AtMost(n, m) <= m
BY DEF AtMost

LEMMA ShortIsAppData ==
    ASSUME NEW s \in Seq(Unit), Len(s) <= SendSize
    PROVE  s \in AppData
<1>1. s \in [1 .. Len(s) -> Unit] /\ Len(s) \in 0 .. SendSize
  BY LenProperties, ClientAssumption
<1>2. QED
  BY <1>1, ChunksAssumption

(* A send buffer's worth leaves the ring buffer and is a payload uIP takes.  *)
LEMMA TransferType ==
    ASSUME NEW buf \in Seq(Unit), Len(buf) <= TxSize
    PROVE  /\ Chunk(buf) \in Seq(Unit) /\ Len(Chunk(buf)) <= SendSize
           /\ Chunk(buf) \in AppData
           /\ Rest(buf) \in Seq(Unit) /\ Len(Rest(buf)) <= TxSize
<1> DEFINE m == AtMost(Len(buf), SendSize)
<1>1. Len(buf) \in Nat /\ SendSize \in Nat /\ TxSize \in Nat
  BY LenProperties, ClientAssumption
<1>2. m \in 0 .. Len(buf) /\ m <= SendSize
  BY <1>1, AtMostType
<1>3. \A i \in 1 .. Len(buf) : buf[i] \in Unit
  BY ElementOfSeq
<1> HIDE DEF m
<1>4. /\ SubSeq(buf, 1, m) \in Seq(Unit)
      /\ Len(SubSeq(buf, 1, m)) = m
  <2>1. \A i \in 1 .. m : buf[i] \in Unit
    BY <1>1, <1>2, <1>3
  <2>2. m \in Int /\ 1 \in Int
    BY <1>1, <1>2
  <2>3. Len(SubSeq(buf, 1, m)) = IF 1 <= m THEN m - 1 + 1 ELSE 0
    BY <2>1, <2>2, SubSeqProperties
  <2>4. SubSeq(buf, 1, m) \in Seq(Unit)
    BY <2>1, <2>2, SubSeqProperties
  <2>5. QED
    BY <1>2, <2>2, <2>3, <2>4
<1>5. /\ SubSeq(buf, m + 1, Len(buf)) \in Seq(Unit)
      /\ Len(SubSeq(buf, m + 1, Len(buf))) <= Len(buf)
  <2>1. \A i \in m + 1 .. Len(buf) : buf[i] \in Unit
    BY <1>1, <1>2, <1>3
  <2>2. m + 1 \in Int /\ Len(buf) \in Int
    BY <1>1, <1>2
  <2>3. /\ SubSeq(buf, m + 1, Len(buf)) \in Seq(Unit)
        /\ Len(SubSeq(buf, m + 1, Len(buf)))
             = IF m + 1 <= Len(buf) THEN Len(buf) - (m + 1) + 1 ELSE 0
    BY <2>1, <2>2, SubSeqProperties
  <2>4. QED
    BY <1>1, <1>2, <2>3
<1>6. SubSeq(buf, 1, m) \in AppData
  BY <1>2, <1>4, ShortIsAppData
<1>7. Chunk(buf) = SubSeq(buf, 1, m) /\ Rest(buf) = SubSeq(buf, m + 1, Len(buf))
  BY DEF Chunk, Rest, m
<1>8. QED
  BY <1>1, <1>2, <1>4, <1>5, <1>6, <1>7

(* umqtt_circ_push never overfills the transmit buffer.                      *)
LEMMA PushType ==
    ASSUME NEW buf \in Seq(Unit), Len(buf) <= TxSize, NEW pkt \in Seq(Unit)
    PROVE  Push(buf, pkt) \in Seq(Unit) /\ Len(Push(buf, pkt)) <= TxSize
<1> DEFINE m == AtMost(Len(pkt), TxSize - Len(buf))
<1>1. Len(buf) \in Nat /\ Len(pkt) \in Nat /\ TxSize \in Nat
  BY LenProperties, ClientAssumption
<1>2. m \in 0 .. Len(pkt) /\ m <= TxSize - Len(buf)
  <2>1. TxSize - Len(buf) \in Nat
    BY <1>1
  <2>2. QED
    BY <1>1, <2>1, AtMostType
<1>3. \A i \in 1 .. Len(pkt) : pkt[i] \in Unit
  BY ElementOfSeq
<1> HIDE DEF m
<1>4. SubSeq(pkt, 1, m) \in Seq(Unit) /\ Len(SubSeq(pkt, 1, m)) = m
  <2>1. \A i \in 1 .. m : pkt[i] \in Unit
    BY <1>1, <1>2, <1>3
  <2>2. m \in Int /\ 1 \in Int
    BY <1>1, <1>2
  <2>3. Len(SubSeq(pkt, 1, m)) = IF 1 <= m THEN m - 1 + 1 ELSE 0
    BY <2>1, <2>2, SubSeqProperties
  <2>4. SubSeq(pkt, 1, m) \in Seq(Unit)
    BY <2>1, <2>2, SubSeqProperties
  <2>5. QED
    BY <1>2, <2>2, <2>3, <2>4
<1>5. Push(buf, pkt) = buf \o SubSeq(pkt, 1, m)
  BY DEF Push, m
<1>6. QED
  BY <1>1, <1>2, <1>4, <1>5, ConcatProperties

(* The packets the client builds are sequences of units.                     *)
LEMMA PacketType ==
    /\ Connect \in Seq(Unit) /\ Online \in Seq(Unit) /\ Ping \in Seq(Unit)
    /\ Humidity \in Seq(Unit) /\ Temperature \in Seq(Unit)
BY ClientAssumption

-----------------------------------------------------------------------------
(* The node as an application of the connection *)

LEMMA SendAnswers ==
    ASSUME NEW data \in AppData, NEW unacked, data = <<>> \/ Len(data) >= unacked
    PROVE  [req |-> "send", data |-> data] \in Answers(unacked)
BY DEF Answers

(* Whatever the segment carries, the client's answer is one uIP allows.      *)
LEMMA ReceiveIsInput ==
    ASSUME NodeInv, NEW seg, Receive(seg)
    PROVE  Input(seg)
<1> USE DEF NodeInv, NodeTypeOK, ClientTypeOK
<1>1. CASE ReceiveUnseen(seg)
  BY <1>1 DEF ReceiveUnseen, Input
<1>2. CASE ReceiveConnected(seg)
  <2> DEFINE data == Chunk(Push(txbuff, Connect))
  <2>1. data \in AppData /\ Len(data) >= 0
    BY PushType, PacketType, TransferType, LenProperties
  <2>2. RxConnected(seg, "send", data)
    BY <1>2 DEF ReceiveConnected
  <2> HIDE DEF data
  <2>3. [req |-> "send", data |-> data] \in Answers(0)
    BY <2>1, SendAnswers
  <2>4. QED
    BY <2>2, <2>3 DEF Input
<1>3. CASE ReceiveError(seg)
  BY <1>3 DEF ReceiveError, Input
<1>4. CASE ReceiveData(seg)
  <2>1. [req |-> "send", data |-> <<>>] \in Answers(LenAfterAck(seg))
    BY SendAnswers, TcpAssumption DEF TcpAssumption
  <2>2. RxDeliver(seg, "send", <<>>)
    BY <1>4 DEF ReceiveData
  <2>3. QED
    BY <2>1, <2>2 DEF Input
<1>5. QED
  BY <1>1, <1>2, <1>3, <1>4 DEF Receive

(* The other stages as an application of the connection.                     *)
LEMMA LoopImplementsTcp ==
    ASSUME NodeInv, MainLoop \/ Tick \/ UNCHANGED nodeVars
    PROVE  [UipConnect \/ Periodic]_tcpVars
<1> USE DEF NodeInv, NodeTypeOK, ClientTypeOK
<1>2. CASE RxNothing
  BY <1>2 DEF RxNothing, NoPacket
<1>3. CASE PeriodicStage
  <2>1. CASE ~due
    BY <1>3, <2>1 DEF PeriodicStage
  <2>2. CASE PeriodicTcp
    <3>1. CASE TimerIdle \/ TimerCountDown \/ TimerGiveUp
      BY <3>1 DEF Periodic
    <3>2. CASE tcpState = "ESTABLISHED" /\ TimerRexmit(sendBuf)
      <4>1. sendBuf \in AppData
        BY ShortIsAppData
      <4>2. len <= Len(sendBuf)
        BY <3>2 DEF TimerRexmit, TimerArmed, RetransmitSafe
      <4>3. QED
        BY <3>2, <4>1, <4>2 DEF Periodic
    <3>3. CASE TimerRexmit(<<>>)
      BY <3>3, TcpAssumption DEF Periodic, TcpAssumption
    <3>4. CASE TimerPoll("send", Chunk(txbuff))
      <4>1. [req |-> "send", data |-> Chunk(txbuff)] \in Answers(0)
        BY TransferType, SendAnswers, LenProperties
      <4>2. QED
        BY <3>4, <4>1 DEF Periodic
    <3>5. QED
      BY <2>2, <3>1, <3>2, <3>3, <3>4 DEF PeriodicTcp
  <2>3. QED
    BY <1>3, <2>1, <2>2 DEF PeriodicStage
<1>4. CASE ProcessStage
  BY <1>4 DEF ProcessStage, BrokerConnect
<1>5. CASE Tick
  BY <1>5 DEF Tick
<1>6. CASE UNCHANGED nodeVars
  BY <1>6 DEF nodeVars
<1>7. QED
  BY <1>2, <1>3, <1>4, <1>5, <1>6 DEF MainLoop

LEMMA StepImplementsTcp ==
    ASSUME NodeInv, [NodeNext]_nodeVars
    PROVE  [TcpNext]_tcpVars
<1>1. ASSUME NEW seg \in Segment, RxStage(seg)
      PROVE  TcpNext
  BY <1>1, ReceiveIsInput DEF RxStage, TcpNext
<1>2. CASE MainLoop \/ Tick \/ UNCHANGED nodeVars
  BY <1>2, LoopImplementsTcp DEF TcpNext
<1>3. QED
  BY <1>1, <1>2 DEF NodeNext

-----------------------------------------------------------------------------
(* The client's own state *)

(* What the client does in one stage of the main loop or at a clock tick.    *)
ClientStep ==
    \/ UNCHANGED clientVars
    \/ ClientPoll(Chunk(txbuff))
    \/ ClientConnected(Chunk(Push(txbuff, Connect)))
    \/ ClientError
    \/ \E data : ClientNewData(data)
    \/ ClientAcked
    \/ ClientRexmit(sendBuf)
    \/ ProcessPing
    \/ ProcessMeasure
    \/ ProcessConnect(CanConnect)
    \/ ProcessIdle
    \/ ClientTick

LEMMA StepIsClientStep == [OpenNext]_nodeVars => ClientStep
<1> SUFFICES ASSUME [OpenNext]_nodeVars PROVE ClientStep
  OBVIOUS
<1> USE DEF ClientStep
<1>1. ASSUME NEW seg, RxStage(seg)
      PROVE  ClientStep
  BY <1>1 DEF RxStage, Receive, ReceiveUnseen, ReceiveConnected, ReceiveError, ReceiveData
<1>2. CASE RxNothing
  BY <1>2 DEF RxNothing, NoPacket
<1>3. CASE PeriodicStage
  BY <1>3 DEF PeriodicStage, PeriodicTcp
<1>4. CASE ProcessStage
  BY <1>4 DEF ProcessStage, BrokerConnect
<1>5. CASE Tick
  BY <1>5 DEF Tick
<1>6. CASE UNCHANGED nodeVars
  BY <1>6 DEF nodeVars, clientVars
<1>7. QED
  BY <1>1, <1>2, <1>3, <1>4, <1>5, <1>6 DEF OpenNext, MainLoop

(* The LED after a notification, a change of the normal state and a look at  *)
(* the timer.                                                                *)
LEMMA ActsigStep ==
    ASSUME ClientTypeOK, LedShowsNormal,
           ActsigNotify \/ ActsigProcess \/ ActsigTick \/ UNCHANGED actsigVars
    PROVE  /\ normal' = normal /\ signaling' \in BOOLEAN /\ lit' \in BOOLEAN
           /\ sigTimer' \in 0 .. SigInterval
           /\ LedShowsNormal'
<1> USE DEF ClientTypeOK, LedShowsNormal
<1>1. CASE ActsigNotify
  <2>1. SigInterval \in 0 .. SigInterval
    BY SigAssumption
  <2>2. CASE signaling
    BY <1>1, <2>2 DEF ActsigNotify, actsigVars
  <2>3. CASE ~signaling
    <3>1. normal' = normal /\ signaling' = TRUE /\ sigTimer' = SigInterval
      BY <1>1, <2>3 DEF ActsigNotify
    <3>2. lit' \in BOOLEAN
      BY <1>1, <2>3 DEF ActsigNotify, Toggle
    <3>3. QED
      BY <2>1, <3>1, <3>2
  <2>4. QED
    BY <2>2, <2>3
<1>2. CASE ActsigProcess
  BY <1>2 DEF ActsigProcess, Toggle, actsigVars
<1>3. CASE ActsigTick
  <2>1. sigTimer' \in 0 .. SigInterval
    BY <1>3, SigAssumption DEF ActsigTick
  <2>2. QED
    BY <1>3, <2>1 DEF ActsigTick
<1>4. CASE UNCHANGED actsigVars
  BY <1>4 DEF actsigVars
<1>5. QED
  BY <1>1, <1>2, <1>3, <1>4

LEMMA SetNormalStep ==
    ASSUME ClientTypeOK, NEW on \in BOOLEAN, ActsigSetNormal(on)
    PROVE  /\ normal' = on /\ signaling' \in BOOLEAN /\ lit' \in BOOLEAN
           /\ sigTimer' \in 0 .. SigInterval
           /\ LedShowsNormal'
BY DEF ClientTypeOK, LedShowsNormal, ActsigSetNormal

LEMMA ClientTypeInv ==
    ASSUME ClientTypeOK, LedShowsNormal, ClientStep
    PROVE  ClientTypeOK' /\ LedShowsNormal'
<1>con. KeepAlive \in Nat /\ PublishPeriod \in Nat /\ ReconnectWait \in Nat
  BY ClientAssumption
<1>led. ActsigNotify \/ ActsigProcess \/ ActsigTick \/ UNCHANGED actsigVars =>
          /\ normal' \in BOOLEAN /\ signaling' \in BOOLEAN /\ lit' \in BOOLEAN
          /\ sigTimer' \in 0 .. SigInterval
          /\ LedShowsNormal'
  BY ActsigStep DEF ClientTypeOK
<1>set. \A on \in BOOLEAN : ActsigSetNormal(on) =>
          /\ normal' \in BOOLEAN /\ signaling' \in BOOLEAN /\ lit' \in BOOLEAN
          /\ sigTimer' \in 0 .. SigInterval
          /\ LedShowsNormal'
  BY SetNormalStep
<1>push. ASSUME NEW pkt \in Seq(Unit)
         PROVE  Push(txbuff, pkt) \in Seq(Unit) /\ Len(Push(txbuff, pkt)) <= TxSize
  BY PushType DEF ClientTypeOK
<1>1. CASE UNCHANGED clientVars
  BY <1>1, <1>led DEF clientVars, ClientTypeOK
<1>2. CASE ClientPoll(Chunk(txbuff))
  <2>1. /\ Chunk(txbuff) \in Seq(Unit) /\ Len(Chunk(txbuff)) <= SendSize
        /\ Rest(txbuff) \in Seq(Unit) /\ Len(Rest(txbuff)) <= TxSize
    BY TransferType DEF ClientTypeOK
  <2>2. ActsigNotify \/ UNCHANGED actsigVars
    BY <1>2 DEF ClientPoll, TransferBuffer
  <2>3. QED
    BY <1>2, <1>led, <2>1, <2>2 DEF ClientPoll, TransferBuffer, ClientTypeOK
<1>3. CASE ClientConnected(Chunk(Push(txbuff, Connect)))
  <2> DEFINE buf == Push(txbuff, Connect)
  <2>1. /\ Chunk(buf) \in Seq(Unit) /\ Len(Chunk(buf)) <= SendSize
        /\ Rest(buf) \in Seq(Unit) /\ Len(Rest(buf)) <= TxSize
    BY <1>push, PacketType, TransferType
  <2>2. ActsigNotify \/ UNCHANGED actsigVars
    BY <1>3 DEF ClientConnected, TransferBuffer
  <2> HIDE DEF buf
  <2>3. /\ clientState' = "ESTABLISHED" /\ mqttState' = "CONNECTING"
        /\ sendBuf' = Chunk(buf) /\ txbuff' = Rest(buf)
        /\ isSending' \in BOOLEAN
        /\ UNCHANGED <<keepAlive, dhtTimer, waitTimer>>
    BY <1>3 DEF ClientConnected, TransferBuffer, ClientTypeOK, buf
  <2>4. QED
    BY <1>led, <2>1, <2>2, <2>3 DEF ClientTypeOK, ClientStates, MqttStates
<1>4. CASE ClientError
  <2>1. /\ normal' \in BOOLEAN /\ signaling' \in BOOLEAN /\ lit' \in BOOLEAN
        /\ sigTimer' \in 0 .. SigInterval
        /\ LedShowsNormal'
    BY <1>4, <1>set DEF ClientError
  <2>2. /\ waitTimer' \in 0 .. ReconnectWait
        /\ clientState' \in ClientStates /\ mqttState' \in MqttStates
    BY <1>4, <1>con DEF ClientError, ClientTypeOK, ClientStates, MqttStates
  <2>3. UNCHANGED <<txbuff, sendBuf, isSending, keepAlive, dhtTimer>>
    BY <1>4 DEF ClientError
  <2>4. QED
    BY <2>1, <2>2, <2>3 DEF ClientTypeOK
<1>5. ASSUME NEW data, ClientNewData(data)
      PROVE  ClientTypeOK' /\ LedShowsNormal'
  <2>1. mqttState' \in MqttStates
    BY <1>5 DEF ClientNewData, StateAfter, ClientTypeOK, MqttStates
  <2>2. ActsigSetNormal(TRUE) \/ UNCHANGED actsigVars
    BY <1>5 DEF ClientNewData
  <2>3. txbuff' \in Seq(Unit) /\ Len(txbuff') <= TxSize
    BY <1>5, <1>push, PacketType DEF ClientNewData, ClientTypeOK
  <2>4. QED
    BY <1>5, <1>led, <1>set, <2>1, <2>2, <2>3 DEF ClientNewData, ClientTypeOK
<1>6. CASE ClientAcked
  BY <1>6, <1>led DEF ClientAcked, ClientTypeOK
<1>7. CASE ClientRexmit(sendBuf)
  BY <1>7, <1>led DEF ClientRexmit, ClientTypeOK
<1>8. CASE ProcessPing
  <2>1. txbuff' \in Seq(Unit) /\ Len(txbuff') <= TxSize
    BY <1>8, <1>push, PacketType DEF ProcessPing
  <2>2. keepAlive' \in 0 .. KeepAlive
    BY <1>8, <1>con DEF ProcessPing
  <2>3. QED
    BY <1>8, <1>led, <2>1, <2>2 DEF ProcessPing, ClientTypeOK
<1>9. CASE ProcessMeasure
  <2>1. txbuff' \in Seq(Unit) /\ Len(txbuff') <= TxSize
    <3> DEFINE buf == Push(txbuff, Humidity)
    <3>1. buf \in Seq(Unit) /\ Len(buf) <= TxSize
      BY <1>push, PacketType
    <3>2. txbuff' = Push(buf, Temperature)
      BY <1>9 DEF ProcessMeasure
    <3> HIDE DEF buf
    <3>3. QED
      BY <3>1, <3>2, PushType, PacketType
  <2>2. dhtTimer' \in 0 .. PublishPeriod
    BY <1>9, <1>con DEF ProcessMeasure
  <2>3. QED
    BY <1>9, <1>led, <2>1, <2>2 DEF ProcessMeasure, ClientTypeOK
<1>10. CASE ProcessConnect(CanConnect)
  <2>1. waitTimer' \in 0 .. ReconnectWait /\ clientState' \in ClientStates
    BY <1>10, <1>con DEF ProcessConnect, ClientTypeOK, ClientStates
  <2>2. QED
    BY <1>10, <1>led, <2>1 DEF ProcessConnect, ClientTypeOK
<1>11. CASE ProcessIdle
  BY <1>11, <1>led DEF ProcessIdle, ClientTypeOK
<1>12. CASE ClientTick
  <2>1. \A n \in Nat : \A m \in 0 .. n : CountDown(m) \in 0 .. n
    BY DEF CountDown
  <2>2. /\ keepAlive' \in 0 .. KeepAlive /\ dhtTimer' \in 0 .. PublishPeriod
        /\ waitTimer' \in 0 .. ReconnectWait
    BY <1>12, <1>con, <2>1 DEF ClientTick, ClientTypeOK
  <2>3. QED
    BY <1>12, <1>led, <2>2 DEF ClientTick, ClientTypeOK
<1>13. QED
  BY <1>1, <1>2, <1>3, <1>4, <1>5, <1>6, <1>7, <1>8, <1>9, <1>10, <1>11, <1>12 DEF ClientStep

-----------------------------------------------------------------------------
(* The session and the connection *)

SessionInv ==
    /\ tcpState \in {"CLOSED", "SYN_SENT", "ESTABLISHED", "LAST_ACK"}
    /\ SessionMatchesTransport
    /\ SessionPhase

(* A conforming peer's packets move the protocol state on from CONNECTING    *)
(* only.                                                                     *)
LEMMA ConnackOnce ==
    ASSUME ClientTypeOK, NEW seg, Conforming(seg), mqttState # "CONNECTING"
    PROVE  StateAfter(seg.data) = mqttState
<1>1. {i \in DOMAIN seg.data : seg.data[i] # "PINGRESP"} = {}
  BY DEF Conforming
<1>2. QED
  BY <1>1 DEF StateAfter

LEMMA RxSession ==
    ASSUME NodeTypeOK, SessionInv, NEW seg, Harmless(seg), Receive(seg)
    PROVE  SessionInv'
<1> USE DEF SessionInv, SessionMatchesTransport, SessionPhase
<1>1. CASE ReceiveUnseen(seg)
  <2>1. tcpState' = tcpState
    BY <1>1 DEF ReceiveUnseen, RxStray, RxOutOfOrder, RxFinTooEarly, RxWindow, RxLastAckWait,
                tcpVars
  <2>2. UNCHANGED <<clientState, mqttState, normal>>
    BY <1>1 DEF ReceiveUnseen, clientVars, actsigVars
  <2>3. QED
    BY <2>1, <2>2
<1>2. CASE ReceiveConnected(seg)
  <2>1. tcpState = "SYN_SENT" /\ tcpState' = "ESTABLISHED"
    BY <1>2 DEF ReceiveConnected, RxConnected, Accepted, AppReturn, AppSend
  <2>2. clientState' = "ESTABLISHED" /\ mqttState' = "CONNECTING"
    BY <1>2 DEF ReceiveConnected, ClientConnected
  <2>3. normal' = normal
    BY <1>2 DEF ReceiveConnected, ClientConnected, TransferBuffer, ActsigNotify, actsigVars
  <2>4. QED
    BY <2>1, <2>2, <2>3
<1>3. CASE ReceiveError(seg)
  <2>1. /\ tcpState # "CLOSED"
        /\ tcpState' \in {"CLOSED", "LAST_ACK"}
        /\ tcpState' = "LAST_ACK" => tcpState = "ESTABLISHED"
    BY <1>3 DEF ReceiveError, RxReset, RxRefused, RxFin, RxLastAck, Accepted, Found
  <2>2. ClientError
    BY <1>3 DEF ReceiveError
  <2>3. normal' = FALSE
    BY <2>2 DEF ClientError, ActsigSetNormal
  <2>4. /\ clientState' \in {"DISCONNECTED", "DISCONNECTED_WAIT"}
        /\ mqttState' = "INIT"
    BY <2>2 DEF ClientError
  <2>5. QED
    BY <2>1, <2>3, <2>4
<1>4. CASE ReceiveData(seg)
  <2>1. tcpState = "ESTABLISHED" /\ tcpState' = "ESTABLISHED"
    BY <1>4 DEF ReceiveData, RxDeliver, Accepted, AppReturn, AppSend
  <2>2. CASE ClientNewData(seg.data)
    <3>1. mqttState' \in {mqttState, "CONNECTED", "FAILED"} /\ clientState' = clientState
      BY <2>2 DEF ClientNewData, StateAfter
    <3>2. CASE mqttState = "CONNECTING"
      <4>1. CASE mqttState' = "CONNECTED"
        <5>1. normal' = TRUE
          BY <2>2, <3>2, <4>1 DEF ClientNewData, ActsigSetNormal
        <5>2. QED
          BY <2>1, <3>1, <4>1, <5>1
      <4>2. CASE mqttState' # "CONNECTED"
        <5>1. normal' = normal
          BY <2>2, <4>2 DEF ClientNewData, actsigVars
        <5>2. QED
          BY <2>1, <3>1, <3>2, <4>2, <5>1
      <4>3. QED
        BY <4>1, <4>2
    <3>3. CASE mqttState # "CONNECTING"
      <4>1. mqttState' = mqttState
        <5>1. Conforming(seg)
          BY <1>4 DEF ReceiveData, RxDeliver, Accepted, Harmless
        <5>2. QED
          BY <2>2, <3>3, <5>1, ConnackOnce DEF NodeTypeOK, ClientNewData
      <4>2. normal' = normal
        BY <2>2, <4>1 DEF ClientNewData, actsigVars
      <4>3. QED
        BY <2>1, <3>1, <4>1, <4>2
    <3>4. QED
      BY <3>2, <3>3
  <2>3. CASE ClientAcked
    BY <2>1, <2>3 DEF ClientAcked, actsigVars
  <2>4. QED
    BY <1>4, <2>2, <2>3 DEF ReceiveData
<1>5. QED
  BY <1>1, <1>2, <1>3, <1>4 DEF Receive

LEMMA PeriodicSession ==
    ASSUME NodeTypeOK, SessionInv, PeriodicTcp
    PROVE  SessionInv'
<1> USE DEF SessionInv, SessionMatchesTransport, SessionPhase
<1>1. CASE (TimerIdle \/ TimerCountDown) /\ UNCHANGED clientVars
  BY <1>1 DEF TimerIdle, TimerCountDown, tcpVars, clientVars, actsigVars
<1>2. CASE TimerGiveUp /\ ClientError
  <2>1. tcpState # "CLOSED" /\ tcpState' = "CLOSED"
    BY <1>2 DEF TimerGiveUp, TimerArmed
  <2>2. normal' = FALSE
    BY <1>2 DEF ClientError, ActsigSetNormal
  <2>3. clientState' \in {"DISCONNECTED", "DISCONNECTED_WAIT"} /\ mqttState' = "INIT"
    BY <1>2 DEF ClientError
  <2>4. QED
    BY <2>1, <2>2, <2>3
<1>3. CASE TimerRexmit(sendBuf) /\ ClientRexmit(sendBuf)
  BY <1>3 DEF TimerRexmit, ClientRexmit, ActsigNotify, actsigVars
<1>4. CASE TimerRexmit(<<>>) /\ UNCHANGED clientVars
  BY <1>4 DEF TimerRexmit, clientVars, actsigVars
<1>5. CASE TimerPoll("send", Chunk(txbuff)) /\ ClientPoll(Chunk(txbuff))
  <2>1. tcpState = "ESTABLISHED" /\ tcpState' = "ESTABLISHED"
    BY <1>5 DEF TimerPoll, AppReturn, AppSend
  <2>2. UNCHANGED <<clientState, mqttState, normal>>
    BY <1>5 DEF ClientPoll, TransferBuffer, ActsigNotify, actsigVars
  <2>3. QED
    BY <2>1, <2>2
<1>6. QED
  BY <1>1, <1>2, <1>3, <1>4, <1>5 DEF PeriodicTcp

LEMMA StepSession ==
    ASSUME NodeTypeOK, SessionInv, [OpenNext]_nodeVars
    PROVE  SessionInv'
<1>idle. ASSUME UNCHANGED <<tcpState, clientState, mqttState, normal>>
         PROVE  SessionInv'
  BY <1>idle DEF SessionInv, SessionMatchesTransport, SessionPhase
<1>1. ASSUME NEW seg, Harmless(seg), RxStage(seg)
      PROVE  SessionInv'
  BY <1>1, RxSession DEF RxStage
<1>2. CASE RxNothing
  BY <1>2, <1>idle DEF RxNothing, NoPacket, tcpVars, clientVars, actsigVars
<1>3. CASE PeriodicStage
  <2>1. CASE ~due
    BY <1>3, <2>1, <1>idle DEF PeriodicStage, tcpVars, clientVars, actsigVars
  <2>2. CASE due
    BY <1>3, <2>2, PeriodicSession DEF PeriodicStage
  <2>3. QED
    BY <2>1, <2>2
<1>4. CASE ProcessStage
  <2>1. CASE BrokerConnect
    <3>1. UNCHANGED <<mqttState, normal>>
      BY <2>1 DEF BrokerConnect, ProcessConnect, ActsigProcess, actsigVars
    <3>2. clientState \in {"DISCONNECTED", "DISCONNECTED_WAIT"}
      BY <2>1 DEF BrokerConnect, ProcessConnect, ReadyToConnect
    <3>3. CASE CanConnect
      <4>1. tcpState' = "SYN_SENT" /\ clientState' = "CONNECTING"
        BY <2>1, <3>3 DEF BrokerConnect, ProcessConnect, UipConnect
      <4>2. QED
        BY <3>1, <3>2, <4>1 DEF SessionInv, SessionMatchesTransport, SessionPhase
    <3>4. CASE ~CanConnect
      BY <1>idle, <2>1, <3>1, <3>4 DEF BrokerConnect, ProcessConnect, tcpVars
    <3>5. QED
      BY <3>3, <3>4
  <2>2. CASE (ProcessPing \/ ProcessMeasure \/ ProcessIdle) /\ UNCHANGED tcpVars
    BY <1>idle, <2>2
       DEF ProcessPing, ProcessMeasure, ProcessIdle, ActsigProcess, actsigVars, tcpVars
  <2>3. QED
    BY <1>4, <2>1, <2>2 DEF ProcessStage
<1>5. CASE Tick
  BY <1>5, <1>idle DEF Tick, ClientTick, ActsigTick, tcpVars
<1>6. CASE UNCHANGED nodeVars
  BY <1>6, <1>idle DEF nodeVars, tcpVars, clientVars, actsigVars
<1>7. QED
  BY <1>1, <1>2, <1>3, <1>4, <1>5, <1>6 DEF OpenNext, MainLoop

-----------------------------------------------------------------------------
(* Retransmission *)

Kept == UNCHANGED <<tcpState, len, sendBuf, isSending>>

LEMMA KeptIsSafe ==
    ASSUME RetransmitSafe, Kept, Observe \/ UNCHANGED inflight
    PROVE  RetransmitSafe'
<1> SUFFICES ASSUME tcpState' = "ESTABLISHED", len' > 0
             PROVE  /\ isSending'
                    /\ len' <= Len(sendBuf')
                    /\ SubSeq(sendBuf', 1, len') = inflight'
  BY DEF RetransmitSafe, Outstanding
<1>1. tcpState = "ESTABLISHED" /\ Outstanding
  BY DEF Kept, Outstanding
<1>2. isSending'
  BY <1>1 DEF RetransmitSafe, Kept
<1>3. inflight' = inflight
  BY <1>1 DEF Observe, Kept, Outstanding
<1>4. len' <= Len(sendBuf') /\ SubSeq(sendBuf', 1, len') = inflight'
  BY <1>1, <1>3 DEF RetransmitSafe, Kept
<1>5. QED
  BY <1>2, <1>4

(* A chunk that is sent when nothing is in flight.                           *)
LEMMA LoadedIsSafe ==
    ASSUME NodeTypeOK, NEW buf \in Seq(Unit), Len(buf) <= TxSize, mss' \in 0 .. TcpMss,
           tcpState # "ESTABLISHED" \/ ~Outstanding, NEW newdata,
           AppReturn("send", Chunk(buf), 0, newdata), TransferBuffer(buf, Chunk(buf)), Observe
    PROVE  RetransmitSafe'
<1> DEFINE data == Chunk(buf)
<1>1. sendBuf' = data /\ (data # <<>> => isSending' = TRUE)
  BY DEF TransferBuffer
<1>2. AppSend(data, 0, newdata)
  BY DEF AppReturn
<1>3. Len(data) \in Nat /\ mss' \in Nat
  BY TransferType, LenProperties, TcpAssumption DEF TcpAssumption
<1>4. SUFFICES ASSUME tcpState' = "ESTABLISHED", len' > 0
               PROVE  /\ isSending'
                      /\ len' <= Len(sendBuf')
                      /\ SubSeq(sendBuf', 1, len') = inflight'
  BY DEF RetransmitSafe, Outstanding
<1> HIDE DEF data
<1>5. data # <<>> /\ len' <= Len(data)
  BY <1>2, <1>3, <1>4 DEF AppSend
<1>6. inflight' = SubSeq(sendBuf', 1, len')
  <2>1. len' # 0 /\ ~(tcpState = "ESTABLISHED" /\ Outstanding)
    BY <1>4
  <2>2. QED
    BY <1>4, <2>1 DEF Observe
<1>7. isSending'
  BY <1>1, <1>5
<1>8. QED
  BY <1>1, <1>5, <1>6, <1>7

LEMMA RxSafe ==
    ASSUME NodeTypeOK, SessionInv, RetransmitSafe, NEW seg, Header(seg), Receive(seg), Observe
    PROVE  RetransmitSafe'
<1>1. CASE ReceiveUnseen(seg)
  <2>1. tcpState' = tcpState /\ len' = len
    BY <1>1 DEF ReceiveUnseen, RxStray, RxOutOfOrder, RxFinTooEarly, RxWindow, RxLastAckWait,
                tcpVars
  <2>2. QED
    BY <1>1, <2>1, KeptIsSafe DEF ReceiveUnseen, clientVars, Kept
<1>2. CASE ReceiveConnected(seg)
  <2> DEFINE buf == Push(txbuff, Connect)
  <2>1. buf \in Seq(Unit) /\ Len(buf) <= TxSize
    BY PushType, PacketType DEF NodeTypeOK, ClientTypeOK
  <2>2. /\ RxConnected(seg, "send", Chunk(buf))
        /\ TransferBuffer(buf, Chunk(buf))
    BY <1>2 DEF ReceiveConnected, ClientConnected
  <2> HIDE DEF buf
  <2>3. tcpState # "ESTABLISHED" /\ AppReturn("send", Chunk(buf), 0, TRUE)
    BY <2>2 DEF RxConnected, Accepted
  <2>4. mss' \in 0 .. TcpMss
    <3>1. mss' = seg.mss
      BY <2>2 DEF RxConnected
    <3>2. QED
      BY <3>1, SegmentType, TcpAssumption DEF NodeTypeOK
  <2>5. QED
    BY <2>1, <2>2, <2>3, <2>4, LoadedIsSafe
<1>3. CASE ReceiveError(seg)
  <2>1. tcpState' # "ESTABLISHED"
    BY <1>3 DEF ReceiveError, RxReset, RxRefused, RxFin, RxLastAck
  <2>2. QED
    BY <2>1 DEF RetransmitSafe
<1>4. CASE ReceiveData(seg)
  <2>1. len' = LenAfterAck(seg) /\ tcpState = "ESTABLISHED" /\ tcpState' = "ESTABLISHED"
    BY <1>4 DEF ReceiveData, RxDeliver, Accepted, AppReturn, AppSend
  <2>2. CASE AckData(seg)
    <3>1. len' = 0
      BY <2>1, <2>2 DEF LenAfterAck
    <3>2. QED
      BY <3>1 DEF RetransmitSafe, Outstanding
  <2>3. CASE ~AckData(seg)
    <3>1. len' = len
      BY <2>1, <2>3 DEF LenAfterAck
    <3>2. seg.data # <<>>
      BY <1>4, <2>3 DEF ReceiveData, RxDeliver
    <3>3. UNCHANGED <<sendBuf, isSending>>
      BY <1>4, <3>2 DEF ReceiveData, ClientNewData
    <3>4. QED
      BY <2>1, <3>1, <3>3, KeptIsSafe DEF Kept
  <2>4. QED
    BY <2>2, <2>3
<1>5. QED
  BY <1>1, <1>2, <1>3, <1>4 DEF Receive

LEMMA PeriodicSafe ==
    ASSUME NodeTypeOK, RetransmitSafe, PeriodicTcp, Observe
    PROVE  RetransmitSafe'
<1>1. CASE (TimerIdle \/ TimerCountDown) /\ UNCHANGED clientVars
  BY <1>1, KeptIsSafe DEF TimerIdle, TimerCountDown, tcpVars, clientVars, Kept
<1>2. CASE TimerGiveUp /\ ClientError
  BY <1>2 DEF TimerGiveUp, RetransmitSafe
<1>3. CASE TimerRexmit(sendBuf) /\ ClientRexmit(sendBuf)
  BY <1>3, KeptIsSafe DEF TimerRexmit, ClientRexmit, Kept
<1>4. CASE TimerRexmit(<<>>) /\ UNCHANGED clientVars
  BY <1>4, KeptIsSafe DEF TimerRexmit, clientVars, Kept
<1>5. CASE TimerPoll("send", Chunk(txbuff)) /\ ClientPoll(Chunk(txbuff))
  <2>1. txbuff \in Seq(Unit) /\ Len(txbuff) <= TxSize /\ mss \in 0 .. TcpMss
    BY DEF NodeTypeOK, ClientTypeOK, TcpTypeOK
  <2>2. /\ ~Outstanding /\ mss' = mss
        /\ AppReturn("send", Chunk(txbuff), 0, FALSE)
        /\ TransferBuffer(txbuff, Chunk(txbuff))
    BY <1>5 DEF TimerPoll, ClientPoll
  <2>3. QED
    BY <2>1, <2>2, LoadedIsSafe
<1>6. QED
  BY <1>1, <1>2, <1>3, <1>4, <1>5 DEF PeriodicTcp

LEMMA StepSafe ==
    ASSUME NodeTypeOK, SessionInv, RetransmitSafe, [OpenNext]_nodeVars
    PROVE  RetransmitSafe'
<1>1. ASSUME NEW seg, Header(seg), RxStage(seg)
      PROVE  RetransmitSafe'
  BY <1>1, RxSafe DEF RxStage
<1>2. CASE RxNothing
  BY <1>2, KeptIsSafe DEF RxNothing, NoPacket, tcpVars, clientVars, Kept
<1>3. CASE PeriodicStage
  <2>1. CASE ~due
    BY <1>3, <2>1, KeptIsSafe DEF PeriodicStage, tcpVars, clientVars, Kept
  <2>2. CASE due
    BY <1>3, <2>2, PeriodicSafe DEF PeriodicStage
  <2>3. QED
    BY <2>1, <2>2
<1>4. CASE ProcessStage
  <2>1. Observe /\ UNCHANGED <<sendBuf, isSending>>
    BY <1>4 DEF ProcessStage, BrokerConnect, ProcessConnect, ProcessPing, ProcessMeasure,
                ProcessIdle
  <2>2. CASE UipConnect
    BY <2>2 DEF UipConnect, RetransmitSafe
  <2>3. CASE UNCHANGED tcpVars
    BY <2>1, <2>3, KeptIsSafe DEF Kept, tcpVars
  <2>4. QED
    BY <1>4, <2>2, <2>3 DEF ProcessStage, BrokerConnect
<1>5. CASE Tick
  BY <1>5, KeptIsSafe DEF Tick, ClientTick, tcpVars, Kept
<1>6. CASE UNCHANGED nodeVars
  BY <1>6, KeptIsSafe DEF nodeVars, tcpVars, clientVars, Kept
<1>7. QED
  BY <1>1, <1>2, <1>3, <1>4, <1>5, <1>6 DEF OpenNext, MainLoop

-----------------------------------------------------------------------------
(* The node *)

LEMMA NodeInitInv == NodeInit => NodeInv
<1> SUFFICES ASSUME NodeInit PROVE NodeInv
  OBVIOUS
<1> USE DEF NodeInit, ClientInit, ActsigInit
<1>1. TcpInv
  BY InitInv, TcpAssumption
<1>2. ClientTypeOK
  <2>1. /\ KeepAlive \in 0 .. KeepAlive /\ PublishPeriod \in 0 .. PublishPeriod
        /\ ReconnectWait \in 0 .. ReconnectWait /\ SigInterval \in 0 .. SigInterval
    BY ClientAssumption, SigAssumption
  <2>2. /\ <<>> \in Seq(Unit) /\ Len(<<>>) <= TxSize /\ Len(<<>>) <= SendSize
    BY EmptySeq, ClientAssumption
  <2>3. QED
    BY <2>1, <2>2 DEF ClientTypeOK, ClientStates, MqttStates
<1>3. tcpState = "CLOSED" /\ len = 0
  BY DEF TcpInit
<1>4. QED
  BY <1>1, <1>2, <1>3, EmptySeq
     DEF NodeInv, NodeTypeOK, TcpInv, SessionMatchesTransport, SessionPhase, LedShowsNormal,
         RetransmitSafe, Stages

LEMMA OpenStepInv == NodeInv /\ [OpenNext]_nodeVars => NodeInv'
<1> SUFFICES ASSUME NodeInv, [OpenNext]_nodeVars PROVE NodeInv'
  OBVIOUS
<1>0. NodeTypeOK /\ ClientTypeOK /\ TcpInv /\ SessionInv /\ LedShowsNormal /\ RetransmitSafe
  BY DEF NodeInv, NodeTypeOK, TcpInv, SessionInv
<1>1. TcpInv'
  <2>1. ASSUME NEW seg, Header(seg), RxStage(seg)
        PROVE  TcpInv'
    BY <1>0, <2>1, ReceiveIsInput, InputInv, TcpAssumption DEF RxStage
  <2>2. CASE MainLoop \/ Tick \/ UNCHANGED nodeVars
    BY <1>0, <2>2, LoopImplementsTcp, TcpStepInv, TcpAssumption DEF TcpNext
  <2>3. QED
    BY <2>1, <2>2 DEF OpenNext
<1>2. ClientTypeOK' /\ LedShowsNormal'
  BY <1>0, StepIsClientStep, ClientTypeInv
<1>3. SessionInv'
  BY <1>0, StepSession
<1>4. RetransmitSafe'
  BY <1>0, StepSafe
<1>5. pc' \in Stages /\ due' \in BOOLEAN
  BY <1>0 DEF NodeTypeOK, Stages, OpenNext, MainLoop, RxStage, RxNothing, PeriodicStage,
              ProcessStage, Tick, nodeVars
<1>6. inflight' \in Seq(Unit)
  <2>1. CASE UNCHANGED inflight
    BY <1>0, <2>1 DEF NodeTypeOK
  <2>2. CASE Observe
    <3>1. SubSeq(sendBuf', 1, len') \in Seq(Unit) \/ len' = 0 \/ tcpState' # "ESTABLISHED"
      <4>1. SUFFICES ASSUME len' > 0, tcpState' = "ESTABLISHED"
                     PROVE  SubSeq(sendBuf', 1, len') \in Seq(Unit)
        BY <1>1, TcpAssumption DEF TcpInv, TcpTypeOK, TcpAssumption
      <4>2. sendBuf' \in Seq(Unit) /\ len' <= Len(sendBuf') /\ len' \in Int
        BY <1>1, <1>2, <1>4, <4>1, TcpAssumption
           DEF ClientTypeOK, RetransmitSafe, Outstanding, TcpInv, TcpTypeOK, TcpAssumption
      <4>3. \A i \in 1 .. len' : sendBuf'[i] \in Unit
        BY <4>2, ElementOfSeq, LenProperties
      <4>4. QED
        BY <4>2, <4>3, SubSeqProperties
    <3>2. QED
      BY <1>0, <2>2, <3>1, EmptySeq DEF Observe, NodeTypeOK
  <2>3. QED
    BY <2>1, <2>2 DEF OpenNext, MainLoop, RxStage, RxNothing, PeriodicStage, ProcessStage,
                      Tick, nodeVars
<1>7. QED
  BY <1>1, <1>2, <1>3, <1>4, <1>5, <1>6 DEF NodeInv, NodeTypeOK, TcpInv, SessionInv

LEMMA NodeStepInv == NodeInv /\ [NodeNext]_nodeVars => NodeInv'
<1>1. NodeNext => OpenNext
  BY DEF NodeNext, OpenNext, Segment, Header, Harmless
<1>2. QED
  BY <1>1, OpenStepInv

(* Every variable of the node stays in its range.                            *)
THEOREM NodeTypes == NodeSpec => []NodeTypeOK
BY NodeInitInv, NodeStepInv, PTL DEF NodeSpec, NodeInv

(* The client and its connection agree on the session at every point of the  *)
(* main loop.                                                                *)
THEOREM NodeSession == NodeSpec => []SessionMatchesTransport
BY NodeInitInv, NodeStepInv, PTL DEF NodeSpec, NodeInv

(* The protocol state and the LED's normal state agree on its phase.         *)
THEOREM NodePhase == NodeSpec => []SessionPhase
BY NodeInitInv, NodeStepInv, PTL DEF NodeSpec, NodeInv

(* Whatever is in flight can be repeated from the send buffer.               *)
THEOREM NodeRetransmit == NodeSpec => []RetransmitSafe
BY NodeInitInv, NodeStepInv, PTL DEF NodeSpec, NodeInv

(* Between notifications the LED shows the normal state.                     *)
THEOREM NodeLed == NodeSpec => []LedShowsNormal
BY NodeInitInv, NodeStepInv, PTL DEF NodeSpec, NodeInv

(* Every behaviour of the node is one of the connection under an application *)
(* that keeps to the rules of uip_send.                                      *)
THEOREM NodeImplementsTcp == NodeSpec => ImplementsTcp
<1>1. NodeInit => TcpInit
  BY DEF NodeInit
<1>2. NodeInv /\ [NodeNext]_nodeVars => [TcpNext]_tcpVars
  BY StepImplementsTcp
<1>3. QED
  BY <1>1, <1>2, NodeInitInv, NodeStepInv, PTL DEF NodeSpec, ImplementsTcp, TcpSpec

=============================================================================
