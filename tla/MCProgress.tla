----------------------------- MODULE MCProgress -----------------------------
(***************************************************************************)
(* The components that must make progress by themselves, side by side: the *)
(* Ethernet driver, the search for a DHCP option, one TCP connection, and  *)
(* the node under the DHCP client; and the sensor.  `part' says which of   *)
(* them runs, the others stay as they began.                               *)
(***************************************************************************)
EXTENDS Enc28j60, MCDht, DhcpOptions, UipTcp, DhcpNode

VARIABLE part

MCRxFrames == {<<1>>, <<2, 3, 4>>}
MCTxFrames == {<<1>>, <<2, 3>>}

MCAppData == {<<>>, <<"a">>, <<"a", "b">>}
MCPeerData == {<<>>, <<"x">>}

\* The DHCP message of the other parts' behaviours: its first option reaches
\* past the index.
MCLongest == CHOOSE c \in Codes : \A d \in Codes : d <= c
MCUnsearched ==
    limit = (CHOOSE n \in Limits : n > Cookie) /\ \A k \in DOMAIN options : options[k] = MCLongest

progressVars == <<part, encVars, dhtVars, optionVars, tcpVars, allVars>>

ProgressInit ==
    /\ part \in {"enc28j60", "dht", "options", "tcp", "dhcp"}
    /\ EncInit /\ DhtInit /\ OptionsInit /\ TcpInit /\ NodeInit
    /\ part /= "dht" => measured = CHOOSE m \in Measurements : TRUE
    /\ part /= "options" => MCUnsearched
    /\ part /= "tcp" => lport = CHOOSE p \in Ports : TRUE

EncTurn(A) ==
    part = "enc28j60" /\ A /\ UNCHANGED <<part, dhtVars, optionVars, tcpVars, allVars>>
DhtTurn(A) ==
    part = "dht" /\ A /\ UNCHANGED <<part, encVars, optionVars, tcpVars, allVars>>
OptionsTurn(A) ==
    part = "options" /\ A /\ UNCHANGED <<part, encVars, dhtVars, tcpVars, allVars>>
TcpTurn(A) ==
    part = "tcp" /\ A /\ UNCHANGED <<part, encVars, dhtVars, optionVars, allVars>>
NodeTurn(A) ==
    part = "dhcp" /\ A /\ UNCHANGED <<part, encVars, dhtVars, optionVars, tcpVars>>

ProgressNext ==
    \/ EncTurn(EncNext)
    \/ DhtTurn(DhtNext)
    \/ OptionsTurn(OptionsNext)
    \/ TcpTurn(TcpNext)
    \/ NodeTurn(DhcpNext)

\* The fairness of EncFairness, OptionsSpec, TcpFairSpec and DhcpFairSpec, each
\* for the behaviours of its part: `part' does not change, so in a behaviour
\* only one turn of each line is ever enabled.
ProgressSpec ==
    /\ ProgressInit /\ [][ProgressNext]_progressVars
    /\ WF_progressVars(\/ EncTurn(Spi) \/ OptionsTurn(FindOption) \/ TcpTurn(Periodic)
                       \/ NodeTurn(RxNothing \/ PeriodicStage \/ ProcessStage))
    /\ SF_progressVars(EncTurn(NetworkRead) \/ NodeTurn(RxDatagram))
    /\ SF_progressVars(NodeTurn(Tick))
    /\ \A s \in Server : WF_progressVars(NodeTurn(ServerAnswer(s)))

\* CompletesUnlessStranded in the behaviours in which the node runs.
LeaseCompletes == []<>(part = "dhcp" => nodeState = "MQTT" \/ Stranded)

=============================================================================
