------------------------------ MODULE MqttNode ------------------------------
(***************************************************************************)
(* The firmware in its static address configuration (CONFIG_DHCP = 0): the *)
(* main loop of src/src/main.c around the client of MqttClient and the     *)
(* connection of UipTcp.  An iteration of the loop has three stages:       *)
(* nethandler_rx, nethandler_periodic when the periodic timer expired,     *)
(* node_process.  The clock interrupt comes between any two stages.        *)
(*                                                                         *)
(* Every stage is one action here, and inside it the TCP path and the      *)
(* client's callback it calls are one step.  The network is open: any      *)
(* segment of a peer may arrive at any time (see Conforming).              *)
(***************************************************************************)
EXTENDS UipTcp, MqttClient

\* What the client may hand to uip_send.
ASSUME ChunksAssumption ==
    UNION {[1 .. n -> Unit] : n \in 0 .. SendSize} \subseteq AppData

VARIABLES
    pc,         \* the stage of the main loop that comes next
    due,        \* periodic_timer has expired
    inflight    \* observer: payload of the unacknowledged segment as first sent

nodeVars == <<tcpVars, clientVars, pc, due, inflight>>

Stages == {"rx", "periodic", "process"}

NodeInit ==
    /\ ClientInit
    /\ TcpInit
    /\ pc = "rx"
    /\ due = FALSE
    /\ inflight = <<>>

\* What a broker may send: no data on a SYN or a RST; CONNACK to a CONNECT it
\* has not answered, nothing but PINGRESP afterwards; a client that has not
\* subscribed gets no PUBLISH.
Conforming(seg) ==
    /\ seg.data # <<>> => seg.flags \in {{"ACK"}, {"FIN", "ACK"}}
    /\ \A i \in DOMAIN seg.data : seg.data[i] # "PINGRESP" => mqttState = "CONNECTING"

Observe ==
    inflight' = IF tcpState' # "ESTABLISHED" \/ len' = 0 THEN <<>>
                ELSE IF tcpState = "ESTABLISHED" /\ Outstanding THEN inflight
                ELSE SubSeq(sendBuf', 1, len')

-----------------------------------------------------------------------------
(* nethandler_rx *)

NoPacket == UNCHANGED <<tcpVars, clientVars>>

\* Segments that are dropped or answered without calling the application.
ReceiveUnseen(seg) ==
    /\ \/ RxStray(seg)
       \/ RxOutOfOrder(seg)
       \/ RxFinTooEarly(seg)
       \/ RxWindow(seg)
       \/ RxLastAckWait(seg)
    /\ UNCHANGED clientVars

ReceiveConnected(seg) ==
    \E data \in {Chunk(UmqttConnect(txbuff))} :
        RxConnected(seg, "send", data) /\ ClientConnected(data)

\* Seeded bug: UIP_ABORT is not looked at.
ReceiveErrorUnaborted(seg) ==
    \/ (RxReset(seg) \/ RxRefused(seg)) /\ UNCHANGED clientVars
    \/ (RxFin(seg) \/ RxLastAck(seg)) /\ ClientError

\* Reset, refusal, FIN and the last acknowledgement all end in the same branch.
ReceiveError(seg) ==
    /\ \/ RxReset(seg)
       \/ RxRefused(seg)
       \/ RxFin(seg)
       \/ RxLastAck(seg)
    /\ ClientError

\* The client tests uip_newdata() before uip_acked(), and sends from neither.
ReceiveData(seg) ==
    /\ RxDeliver(seg, "send", <<>>)
    /\ IF seg.data # <<>> THEN ClientNewData(seg.data) ELSE ClientAcked

Receive(seg) ==
    \/ ReceiveUnseen(seg)
    \/ ReceiveConnected(seg)
    \/ ReceiveError(seg)
    \/ ReceiveData(seg)

RxStage(seg) ==
    /\ pc = "rx"
    /\ pc' = "periodic"
    /\ Receive(seg)
    /\ Observe
    /\ UNCHANGED due

RxNothing ==
    /\ pc = "rx"
    /\ pc' = "periodic"
    /\ NoPacket
    /\ UNCHANGED <<due, inflight>>

-----------------------------------------------------------------------------
(* nethandler_periodic *)

PeriodicTcp ==
    \/ TimerIdle /\ UNCHANGED clientVars
    \/ TimerCountDown /\ UNCHANGED clientVars
    \/ TimerGiveUp /\ ClientError
    \/ /\ tcpState = "ESTABLISHED"
       /\ TimerRexmit(sendBuf)
       /\ ClientRexmit(sendBuf)
    \/ /\ tcpState # "ESTABLISHED"
       /\ TimerRexmit(<<>>)
       /\ UNCHANGED clientVars
    \/ TimerPoll("send", Chunk(txbuff)) /\ ClientPoll(Chunk(txbuff))

PeriodicStage ==
    /\ pc = "periodic"
    /\ pc' = "process"
    /\ due' = FALSE
    /\ IF due THEN PeriodicTcp ELSE UNCHANGED <<tcpVars, clientVars>>
    /\ Observe

-----------------------------------------------------------------------------
(* node_process *)

\* Seeded bug: the connection slot is taken over in any state.
BrokerConnectAlways ==
    /\ ProcessConnect(TRUE)
    /\ tcpState' = "SYN_SENT"
    /\ lport' \in Ports \ {lport}
    /\ sndNxt' = 0 /\ len' = 1 /\ mss' = TcpMss /\ nrtx' = 0 /\ rtxTimer' = 1 /\ rto' = Rto
    /\ UNCHANGED <<rcvNxt, toPeer>>

BrokerConnect ==
    /\ ProcessConnect(CanConnect)
    /\ IF CanConnect THEN UipConnect ELSE UNCHANGED tcpVars

ProcessStage ==
    /\ pc = "process"
    /\ pc' = "rx"
    /\ \/ BrokerConnect
       \/ (ProcessPing \/ ProcessMeasure \/ ProcessIdle) /\ UNCHANGED tcpVars
    /\ Observe
    /\ UNCHANGED due

-----------------------------------------------------------------------------
(* The clock interrupt.  periodic_timer's interval is one tick; an iteration *)
(* of the loop is shorter than a tick, so the previous one has been served.  *)

Tick ==
    /\ ~due
    /\ due' = TRUE
    /\ ClientTick
    /\ UNCHANGED <<tcpVars, pc, inflight>>

MainLoop == RxNothing \/ PeriodicStage \/ ProcessStage

NodeNext ==
    \/ \E seg \in Segment : Conforming(seg) /\ RxStage(seg)
    \/ MainLoop
    \/ Tick

NodeSpec == NodeInit /\ [][NodeNext]_nodeVars

-----------------------------------------------------------------------------
(* Properties *)

(* Every variable stays in its range: counters of a byte in a byte, buffers  *)
(* within their sizes, states among those of this configuration.             *)
NodeTypeOK ==
    /\ TcpTypeOK
    /\ tcpState \in {"CLOSED", "SYN_SENT", "ESTABLISHED", "LAST_ACK"}
    /\ ClientTypeOK
    /\ pc \in Stages
    /\ due \in BOOLEAN
    /\ inflight \in Seq(Unit)

(* The client and the connection under it never disagree on whether there is *)
(* a session: each way uip_process leaves a state calls back the branch of   *)
(* mqttclient_appcall that follows it, and uip_connect is the only way in.   *)
(* A missed callback would leave the client waiting on a dead connection.    *)
SessionMatchesTransport ==
    /\ clientState = "ESTABLISHED" <=> tcpState = "ESTABLISHED"
    /\ clientState = "CONNECTING" <=> tcpState = "SYN_SENT"
    /\ clientState = "DISCONNECTED" => tcpState \in {"CLOSED", "LAST_ACK"}

(* The protocol state is INIT exactly outside a TCP session, so that a       *)
(* CONNACK is awaited on every new connection and no publication is built    *)
(* from the verdict of an old one, and the LED's normal state is lit exactly *)
(* while the broker's acceptance stands.                                     *)
SessionPhase ==
    /\ mqttState = "INIT" <=> clientState # "ESTABLISHED"
    /\ normal <=> mqttState = "CONNECTED"

(* Between notifications the LED shows the normal state, however             *)
(* notifications, their timer and changes of the normal state interleave.    *)
LedShowsNormal == ~signaling => (lit <=> normal)

(* Whenever data is in flight, the send buffer still holds what was sent:    *)
(* uip_process asks the client to repeat it and sends whatever is there      *)
(* under the old sequence number.  The client knows it is sending.           *)
RetransmitSafe ==
    tcpState = "ESTABLISHED" /\ Outstanding =>
        /\ isSending
        /\ len <= Len(sendBuf)
        /\ SubSeq(sendBuf, 1, len) = inflight

(* The node uses the connection as uip_process expects of an application:    *)
(* whatever it does is a behaviour of UipTcp.  In particular it repeats, when *)
(* asked to, at least as many units as are in flight.                        *)
ImplementsTcp == TcpSpec

=============================================================================
