----------------------------- MODULE MqttClient -----------------------------
(***************************************************************************)
(* The MQTT client (src/src/umqtt/mqttclient.c) with the part of the       *)
(* protocol library it runs on (src/src/umqtt/umqtt.c): the branches of    *)
(* mqttclient_appcall, one operator each, and mqttclient_process.          *)
(*                                                                         *)
(* Abstractions.  A control packet is a constant sequence of units, so     *)
(* that a send buffer can cut a packet in two.  The transmit ring buffer   *)
(* is the sequence it holds.  A received segment holds whole packets, so   *)
(* the receive ring buffer is empty between calls.  The counters of        *)
(* unanswered requests in struct umqtt_connection are written and never    *)
(* read and are left out, and so is what a measurement says.               *)
(***************************************************************************)
EXTENDS Actsig, Sequences

CONSTANTS
    Connect, Online, Humidity, Temperature, Ping,   \* packets, as units
    TxSize,          \* SHAREDBUF_NODE_UMQTT_TX_SIZE
    SendSize,        \* sizeof(sharedbuf.mqtt.send_buffer)
    KeepAlive,       \* ticks: CLOCK_SECOND * MQTT_KEEP_ALIVE / 2
    PublishPeriod,   \* ticks: CLOCK_SECOND * MQTT_PUBLISH_PERIOD
    ReconnectWait    \* ticks: CLOCK_SECOND

Unit == UNION {{p[i] : i \in DOMAIN p} :
                 p \in {Connect, Online, Humidity, Temperature, Ping}}

ASSUME ClientAssumption ==
    /\ \A p \in {Connect, Online, Humidity, Temperature, Ping} :
         p \in Seq(Unit) /\ p # <<>>
    /\ SendSize \in Nat \ {0}
    /\ TxSize \in Nat
    /\ TxSize >= Len(Connect)
    /\ KeepAlive \in Nat /\ PublishPeriod \in Nat /\ ReconnectWait \in Nat

VARIABLES
    clientState,   \* _mqttclient_state
    mqttState,     \* _mqtt.state
    txbuff,        \* contents of _mqtt.txbuff
    sendBuf,       \* the first _mqttclient_send_length units of send_buffer
    isSending,     \* _is_sending
    keepAlive,     \* ticks until _keep_alive_timer expires
    dhtTimer,      \* ticks until _dht_timer expires
    waitTimer      \* ticks until _disconnected_wait_timer expires

clientVars == <<clientState, mqttState, txbuff, sendBuf, isSending,
                keepAlive, dhtTimer, waitTimer, actsigVars>>

ClientStates == {"DISCONNECTED", "DISCONNECTED_WAIT", "CONNECTING", "ESTABLISHED"}
MqttStates == {"INIT", "CONNECTING", "CONNECTED", "FAILED"}

\* What a broker sends to this client.
Incoming == {"CONNACK_OK", "CONNACK_REFUSED", "PINGRESP"}

ClientInit ==
    /\ ActsigInit
    /\ clientState = "DISCONNECTED"
    /\ mqttState = "INIT"
    /\ txbuff = <<>>
    /\ sendBuf = <<>>
    /\ isSending = FALSE
    /\ keepAlive = KeepAlive
    /\ dhtTimer = PublishPeriod
    /\ waitTimer = ReconnectWait

-----------------------------------------------------------------------------
(* umqtt.c *)

AtMost(n, m) == IF n < m THEN n ELSE m

\* Seeded bug: a push that does not look for the end of the buffer.
PushUnchecked(buf, pkt) == buf \o pkt

\* umqtt_circ_push: what does not fit is dropped.
Push(buf, pkt) == buf \o SubSeq(pkt, 1, AtMost(Len(pkt), TxSize - Len(buf)))

UmqttConnect(buf) == Push(buf, Connect)
UmqttPublish(buf, pkt) == Push(buf, pkt)
UmqttPing(buf) == Push(buf, Ping)

\* umqtt_circ_pop into the send buffer, and what it leaves behind.
Chunk(buf) == SubSeq(buf, 1, AtMost(Len(buf), SendSize))
Rest(buf) == SubSeq(buf, AtMost(Len(buf), SendSize) + 1, Len(buf))

\* umqtt_process over the packets of a segment: the last CONNACK decides.
StateAfter(data) ==
    LET connacks == {i \in DOMAIN data : data[i] # "PINGRESP"}
        last == CHOOSE i \in connacks : \A j \in connacks : j <= i
    IN  IF connacks = {} THEN mqttState
        ELSE IF data[last] = "CONNACK_OK" THEN "CONNECTED" ELSE "FAILED"

-----------------------------------------------------------------------------
(* mqttclient_appcall *)

\* _mqttclient_transfer_buffer with `buf' in the transmit buffer: `data' is
\* what it hands to uip_send.
TransferBuffer(buf, data) ==
    /\ data = Chunk(buf)
    /\ sendBuf' = data
    /\ txbuff' = Rest(buf)
    /\ IF data # <<>>
       THEN isSending' = TRUE /\ ActsigNotify
       ELSE UNCHANGED <<isSending, actsigVars>>

ClientPoll(data) ==
    /\ TransferBuffer(txbuff, data)
    /\ UNCHANGED <<clientState, mqttState, keepAlive, dhtTimer, waitTimer>>

\* Seeded bug: the client does not wait for the verdict of the broker.
ClientConnectedEarly(data) ==
    /\ clientState' = "ESTABLISHED"
    /\ mqttState' = "CONNECTED"
    /\ TransferBuffer(UmqttConnect(txbuff), data)
    /\ UNCHANGED <<keepAlive, dhtTimer, waitTimer>>

ClientConnected(data) ==
    /\ clientState' = "ESTABLISHED"
    /\ mqttState' = "CONNECTING"
    /\ TransferBuffer(UmqttConnect(txbuff), data)
    /\ UNCHANGED <<keepAlive, dhtTimer, waitTimer>>

\* Seeded bug: the protocol state is left as it was.
ClientErrorKeepsPhase ==
    /\ ActsigSetNormal(FALSE)
    /\ clientState' = "DISCONNECTED"
    /\ UNCHANGED <<mqttState, waitTimer, txbuff, sendBuf, isSending, keepAlive, dhtTimer>>

\* Aborted, timed out or closed: _mqttclient_handle_communication_error.
ClientError ==
    /\ ActsigSetNormal(FALSE)
    /\ CASE clientState = "CONNECTING" ->
              /\ waitTimer' = ReconnectWait
              /\ clientState' = "DISCONNECTED"
              /\ UNCHANGED mqttState
         [] clientState = "DISCONNECTED_WAIT" ->
              UNCHANGED <<clientState, mqttState, waitTimer>>
         [] OTHER ->
              /\ clientState' = "DISCONNECTED"
              /\ mqttState' = "INIT"
              /\ UNCHANGED waitTimer
    /\ UNCHANGED <<txbuff, sendBuf, isSending, keepAlive, dhtTimer>>

\* _mqttclient_handle_new_data.
ClientNewData(data) ==
    /\ mqttState' = StateAfter(data)
    /\ IF mqttState # "CONNECTED" /\ mqttState' = "CONNECTED"
       THEN ActsigSetNormal(TRUE) /\ txbuff' = UmqttPublish(txbuff, Online)
       ELSE UNCHANGED <<txbuff, actsigVars>>
    /\ UNCHANGED <<clientState, sendBuf, isSending, keepAlive, dhtTimer, waitTimer>>

\* Seeded bug: the flag is only cleared on request.
ClientAckedSending ==
    UNCHANGED <<clientState, mqttState, txbuff, sendBuf, isSending, keepAlive, dhtTimer,
                waitTimer, actsigVars>>

\* UIP_ACKDATA, reached only when the segment brought no data.
ClientAcked ==
    /\ isSending' = FALSE
    /\ UNCHANGED <<clientState, mqttState, txbuff, sendBuf, keepAlive, dhtTimer,
                   waitTimer, actsigVars>>

ClientRexmit(data) ==
    /\ data = sendBuf
    /\ ActsigNotify
    /\ UNCHANGED <<clientState, mqttState, txbuff, sendBuf, isSending, keepAlive,
                   dhtTimer, waitTimer>>

-----------------------------------------------------------------------------
(* mqttclient_process *)

MayPublish ==
    /\ clientState = "ESTABLISHED"
    /\ ~isSending
    /\ mqttState = "CONNECTED"

\* _mqttclient_umqtt_keep_alive
ProcessPing ==
    /\ MayPublish
    /\ keepAlive = 0
    /\ keepAlive' = KeepAlive
    /\ txbuff' = UmqttPing(txbuff)
    /\ ActsigProcess
    /\ UNCHANGED <<clientState, mqttState, sendBuf, isSending, dhtTimer, waitTimer>>

\* _mqttclient_send_data
ProcessMeasure ==
    /\ MayPublish
    /\ keepAlive > 0
    /\ dhtTimer = 0
    /\ dhtTimer' = PublishPeriod
    /\ txbuff' = UmqttPublish(UmqttPublish(txbuff, Humidity), Temperature)
    /\ ActsigProcess
    /\ UNCHANGED <<clientState, mqttState, sendBuf, isSending, keepAlive, waitTimer>>

\* When the main loop calls _mqttclient_broker_connect.
ReadyToConnect ==
    \/ clientState = "DISCONNECTED"
    \/ clientState = "DISCONNECTED_WAIT" /\ waitTimer = 0

\* The client's side of _mqttclient_broker_connect; `started' says whether
\* uip_connect returned a connection.
ProcessConnect(started) ==
    /\ ReadyToConnect
    /\ clientState' = IF started THEN "CONNECTING" ELSE clientState
    /\ waitTimer' = IF clientState = "DISCONNECTED_WAIT" THEN ReconnectWait ELSE waitTimer
    /\ ActsigProcess
    /\ UNCHANGED <<mqttState, txbuff, sendBuf, isSending, keepAlive, dhtTimer>>

ProcessIdle ==
    /\ ~ReadyToConnect
    /\ ~(MayPublish /\ (keepAlive = 0 \/ dhtTimer = 0))
    /\ ActsigProcess
    /\ UNCHANGED <<clientState, mqttState, txbuff, sendBuf, isSending, keepAlive,
                   dhtTimer, waitTimer>>

CountDown(n) == IF n > 0 THEN n - 1 ELSE 0

ClientTick ==
    /\ keepAlive' = CountDown(keepAlive)
    /\ dhtTimer' = CountDown(dhtTimer)
    /\ waitTimer' = CountDown(waitTimer)
    /\ ActsigTick
    /\ UNCHANGED <<clientState, mqttState, txbuff, sendBuf, isSending>>

ClientTypeOK ==
    /\ clientState \in ClientStates
    /\ mqttState \in MqttStates
    /\ txbuff \in Seq(Unit) /\ Len(txbuff) <= TxSize
    /\ sendBuf \in Seq(Unit) /\ Len(sendBuf) <= SendSize
    /\ isSending \in BOOLEAN
    /\ keepAlive \in 0 .. KeepAlive
    /\ dhtTimer \in 0 .. PublishPeriod
    /\ waitTimer \in 0 .. ReconnectWait
    /\ normal \in BOOLEAN /\ signaling \in BOOLEAN /\ lit \in BOOLEAN
    /\ sigTimer \in 0 .. SigInterval

=============================================================================
