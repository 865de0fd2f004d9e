---------------------------- MODULE MCMqttSystem ----------------------------
(* A small instance of MqttSystem.                                           *)
EXTENDS MqttSystem

MCConnect == <<"connect">>
MCOnline == <<"online">>
MCHumidity == <<"humidity">>
MCTemperature == <<"temperature">>
MCPing == <<"ping">>

MCAppData == UNION {[1 .. n -> Unit] : n \in 0 .. SendSize}
MCPeerData == {<<>>}

\* Everything but the LED, which nothing reads.
NetView == <<tcpVars, clientState, mqttState, txbuff, sendBuf, isSending, keepAlive, dhtTimer,
             waitTimer, pc, due, inflight, toNode, srv, received, faults>>

=============================================================================
