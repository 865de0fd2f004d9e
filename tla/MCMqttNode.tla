----------------------------- MODULE MCMqttNode -----------------------------
(* A small instance of MqttNode: one packet is one or two units of about     *)
(* thirty bytes, the buffers keep their proportions, intervals are a few     *)
(* ticks.                                                                    *)
EXTENDS MqttNode, TLC

MCConnect == <<"connect">>
MCOnline == <<"online">>
MCHumidity == <<"humidity">>
MCTemperature == <<"temperature">>
MCPing == <<"ping">>

MCAppData == UNION {[1 .. n -> Unit] : n \in 0 .. SendSize}
MCPeerData == {<<>>, <<"CONNACK_OK">>, <<"CONNACK_REFUSED">>, <<"PINGRESP">>}
MCShortPeerData == {<<>>, <<"CONNACK_OK">>}

PortSymmetry == Permutations(Ports)

=============================================================================
