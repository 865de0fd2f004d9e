------------------------------ MODULE DhcpNode ------------------------------
(***************************************************************************)
(* The firmware with CONFIG_DHCP = 1: the main loop of src/src/main.c and  *)
(* the node's state machine (src/src/node.c) around the DHCP client, the   *)
(* lease timer (src/src/common/sectimer.c), and the servers.               *)
(*                                                                         *)
(* Of the MQTT client only what touches this part is here: a TCP segment   *)
(* or a periodic call may reach node_appcall, and the client then or in    *)
(* mqttclient_process may write the shared buffer.  What it does otherwise *)
(* is in MqttNode.  The servers and the network are not in the repository. *)
(***************************************************************************)
EXTENDS DhcpClient, FiniteSets

CONSTANTS
    SecTicks,       \* CLOCK_SECOND: 2 ticks
    LeaseSeconds,   \* what sectimer_set gets: CLOCK_SECOND * 10
    QueueCap,            \* datagrams that wait in one queue
    Faults          \* losses, delays and incomplete offers (model bound)

ASSUME NodeConstants ==
    /\ SecTicks \in Nat \ {0} /\ LeaseSeconds \in Nat \ {0}
    /\ QueueCap \in Nat \ {0} /\ Faults \in Nat

VARIABLES
    nodeState,      \* node_system_state: "DHCP" (NODE_DHCP_QUERYING) or "MQTT"
    second,         \* ticks until dhcp_lease_sectimer.timer expires
    elapsed,        \* dhcp_lease_sectimer.elapsed
    pc, due,        \* stage of the main loop; periodic_timer has expired
    toServer,       \* datagrams on their way to each server
    toNode,         \* datagrams on their way to the node
    faults,
    asked,          \* observer: what the last poll sent that was to send a request
    held,           \* observer: ticks since the lease timer was set
    waited          \* observer: ticks since a message was sent

loopVars == <<nodeState, second, elapsed, pc, due>>
netVars == <<toServer, toNode, faults>>
observers == <<asked, held, waited>>
allVars == <<dhcpVars, loopVars, netVars, observers>>

\* A datagram for 255.255.255.255 has the destination NoAddr.
Datagram == [msg : Message, dest : Address \cup {NoAddr}]

NodeInit ==
    /\ dhcpState = "INIT" /\ retry = RetryPeriod /\ shared = Blank
    /\ clientAddr = NoAddr /\ serverId = NoServer /\ hostAddr = NoAddr /\ udpConn = FALSE
    /\ nodeState = "DHCP" /\ second = 0 /\ elapsed = 0
    /\ pc = "rx" /\ due = FALSE
    /\ toServer = [s \in Server |-> <<>>] /\ toNode = <<>> /\ faults = Faults
    /\ asked = Blank /\ held = 0 /\ waited = 0

-----------------------------------------------------------------------------
(* node.c *)

\* Seeded bug: the first second is not started.
LeaseSetUnstarted ==
    /\ elapsed' = 0
    /\ held' = 0
    /\ UNCHANGED second

\* sectimer_set
LeaseSet ==
    /\ second' = SecTicks
    /\ elapsed' = 0
    /\ held' = 0

\* sectimer_tryrestart returns true.
LeaseFires == nodeState = "MQTT" /\ second = 0 /\ elapsed + 1 >= LeaseSeconds

\* _node_test_dhcp_lease_timer, at the start of every callback of uIP.
LeaseTest ==
    IF nodeState = "MQTT" /\ second = 0
    THEN second' = SecTicks /\ elapsed' = IF LeaseFires THEN 0 ELSE elapsed + 1
    ELSE UNCHANGED <<second, elapsed>>

\* The callback goes on in the new state: dhcpclient_appcall finds the flags
\* replaced by uip_close and the state INIT, and does nothing.
Release ==
    /\ LeaseFires
    /\ nodeState' = "DHCP"
    /\ DhcpInit

\* Seeded bug: the MQTT client is called in every state.
TcpAppcallAlways ==
    /\ LeaseTest
    /\ \/ Release
       \/ /\ ~LeaseFires
          /\ shared' \in {shared, MqttData}
          /\ UNCHANGED <<nodeState, dhcpState, clientAddr, serverId, retry, udpConn, hostAddr>>
    /\ UNCHANGED <<toServer, observers>>

\* node_appcall
TcpAppcall ==
    /\ LeaseTest
    /\ \/ Release
       \/ /\ ~LeaseFires
          /\ shared' \in IF nodeState = "MQTT" THEN {shared, MqttData} ELSE {shared}
          /\ UNCHANGED <<nodeState, dhcpState, clientAddr, serverId, retry, udpConn, hostAddr>>
    /\ UNCHANGED <<toServer, observers>>

\* uip_send in a UDP callback: a broadcast to every server.
Broadcast(m) ==
    /\ toServer' = [s \in Server |->
           IF Len(toServer[s]) < QueueCap THEN Append(toServer[s], m) ELSE toServer[s]]
    /\ asked' = IF dhcpState = "REQUEST_PENDING" THEN m ELSE asked
    /\ waited' = 0
    /\ UNCHANGED held

\* node_udp_appcall for a datagram.
UdpNewData(m) ==
    /\ LeaseTest
    /\ \/ Release
       \/ /\ ~LeaseFires
          /\ IF nodeState = "DHCP" THEN DhcpFinish \/ DhcpMessage(m) ELSE UNCHANGED dhcpVars
          /\ UNCHANGED nodeState
    /\ UNCHANGED <<toServer, observers>>

\* node_udp_appcall for a poll, which only comes while querying.
UdpPoll ==
    /\ \/ DhcpSend /\ Broadcast(shared)
       \/ (DhcpFinish \/ DhcpPollIdle) /\ UNCHANGED <<toServer, observers>>
    /\ UNCHANGED <<nodeState, second, elapsed>>

\* node_process while querying.
ProcessQuerying ==
    /\ DhcpProcess
    /\ IF dhcpState' = "FINISHED"
       THEN nodeState' = "MQTT" /\ LeaseSet
       ELSE UNCHANGED <<nodeState, second, elapsed, held>>
    /\ UNCHANGED <<asked, waited>>

\* mqttclient_process
ProcessMqtt ==
    /\ shared' \in {shared, MqttData}
    /\ UNCHANGED <<dhcpState, clientAddr, serverId, retry, udpConn, hostAddr, nodeState,
                   second, elapsed, observers>>

-----------------------------------------------------------------------------
(* The main loop *)

\* IP input: anything before there is an address, then only what is for it -
\* UIP_CONF_BROADCAST is 0.  UDP input: the port must be open.
Accepts(d) == udpConn /\ (hostAddr = NoAddr \/ d.dest = hostAddr)

RxDatagram ==
    /\ pc = "rx" /\ toNode # <<>>
    /\ pc' = "periodic"
    /\ toNode' = Tail(toNode)
    /\ IF Accepts(Head(toNode))
       THEN UdpNewData(Head(toNode).msg)
       ELSE UNCHANGED <<dhcpVars, nodeState, second, elapsed, toServer, observers>>
    /\ UNCHANGED <<due, faults>>

RxSegment ==
    /\ pc = "rx"
    /\ pc' = "periodic"
    /\ TcpAppcall
    /\ UNCHANGED <<due, toNode, faults>>

RxNothing ==
    /\ pc = "rx" /\ toNode = <<>>
    /\ pc' = "periodic"
    /\ UNCHANGED <<dhcpVars, nodeState, second, elapsed, due, netVars, observers>>

\* nethandler_periodic: TCP in NODE_MQTT, where the call may or may not reach
\* the application, otherwise UDP.
PeriodicCall ==
    CASE nodeState = "MQTT" ->
           \/ TcpAppcall
           \/ UNCHANGED <<dhcpVars, nodeState, second, elapsed, toServer, observers>>
      [] nodeState = "DHCP" /\ udpConn -> UdpPoll
      [] OTHER -> UNCHANGED <<dhcpVars, nodeState, second, elapsed, toServer, observers>>

PeriodicStage ==
    /\ pc = "periodic"
    /\ pc' = "process"
    /\ due' = FALSE
    /\ IF due THEN PeriodicCall
       ELSE UNCHANGED <<dhcpVars, nodeState, second, elapsed, toServer, observers>>
    /\ UNCHANGED <<toNode, faults>>

ProcessStage ==
    /\ pc = "process"
    /\ pc' = "rx"
    /\ IF nodeState = "DHCP" THEN ProcessQuerying ELSE ProcessMqtt
    /\ UNCHANGED <<due, netVars>>

-----------------------------------------------------------------------------
(* Time, servers and network *)

Less(n) == IF n > 0 THEN n - 1 ELSE 0
More(n, limit) == IF n < limit THEN n + 1 ELSE limit

Quiet == toNode = <<>> /\ \A s \in Server : toServer[s] = <<>>

\* The clock interrupt.  That a datagram waits for longer is a fault.
Tick ==
    /\ ~due
    /\ Quiet \/ faults > 0
    /\ faults' = IF Quiet THEN faults ELSE faults - 1
    /\ due' = TRUE
    /\ retry' = Less(retry) /\ second' = Less(second)
    /\ held' = More(held, SecTicks * LeaseSeconds) /\ waited' = More(waited, RetryPeriod)
    /\ UNCHANGED <<dhcpState, shared, clientAddr, serverId, udpConn, hostAddr, nodeState,
                   elapsed, pc, toServer, toNode, asked>>

Reply(s, m, type, addr, opts) ==
    [op |-> "reply", type |-> type, ciaddr |-> m.ciaddr, addr |-> addr, server |-> s, opts |-> opts]

\* What server `s' answers: any offer; to a request for itself either verdict.
AnswersOf(s, m) ==
    CASE m.op = "request" /\ m.type = "DISCOVER" ->
           {Reply(s, m, "OFFER", a, "all") : a \in Address}
      [] m.op = "request" /\ m.type = "REQUEST" /\ m.server = s ->
           {Reply(s, m, "ACK", m.addr, "all"), Reply(s, m, "NAK", NoAddr, "server")}
      [] OTHER -> {}

\* An answer goes to the client's address if it states one.
ServerAnswer(s) ==
    /\ toServer[s] # <<>> /\ Len(toNode) < QueueCap
    /\ toServer' = [toServer EXCEPT ![s] = Tail(@)]
    /\ LET m == Head(toServer[s])
       IN  IF AnswersOf(s, m) = {} THEN UNCHANGED toNode
           ELSE \E r \in AnswersOf(s, m) : toNode' = Append(toNode, [msg |-> r, dest |-> m.ciaddr])
    /\ UNCHANGED <<dhcpVars, loopVars, faults, observers>>

Lose ==
    \/ toNode # <<>> /\ toNode' = Tail(toNode) /\ UNCHANGED toServer
    \/ /\ \E s \in Server :
            toServer[s] # <<>> /\ toServer' = [toServer EXCEPT ![s] = Tail(@)]
       /\ UNCHANGED toNode

\* An option is missing, or comes after one that _find_option stops at.
Incomplete ==
    \E opts \in {"none", "server"} :
        /\ toNode # <<>>
        /\ toNode' = [toNode EXCEPT ![1].msg.opts = opts]
        /\ UNCHANGED toServer

Fault ==
    /\ faults > 0
    /\ faults' = faults - 1
    /\ Lose \/ Incomplete
    /\ UNCHANGED <<dhcpVars, loopVars, observers>>

DhcpNext ==
    \/ RxDatagram
    \/ RxSegment
    \/ RxNothing
    \/ PeriodicStage
    \/ ProcessStage
    \/ Tick
    \/ \E s \in Server : ServerAnswer(s)
    \/ Fault

DhcpSpec == NodeInit /\ [][DhcpNext]_allVars

\* The loop never stops, waiting frames are read although others come between,
\* the clock runs and servers answer.
DhcpFairSpec ==
    /\ DhcpSpec
    /\ SF_allVars(RxDatagram)
    /\ WF_allVars(RxNothing)
    /\ WF_allVars(PeriodicStage)
    /\ WF_allVars(ProcessStage)
    /\ SF_allVars(Tick)
    /\ \A s \in Server : SF_allVars(ServerAnswer(s))

-----------------------------------------------------------------------------
(* Properties *)

(* Every variable stays in its range.                                        *)
DhcpNodeTypeOK ==
    /\ DhcpTypeOK
    /\ nodeState \in {"DHCP", "MQTT"}
    /\ second \in 0 .. SecTicks /\ elapsed \in 0 .. LeaseSeconds - 1
    /\ pc \in {"rx", "periodic", "process"} /\ due \in BOOLEAN
    /\ toServer \in [Server -> Seq(Message \cup {Blank, MqttData})]
    /\ toNode \in Seq(Datagram)
    /\ faults \in 0 .. Faults
    /\ asked \in Message \cup {Blank, MqttData}
    /\ held \in 0 .. SecTicks * LeaseSeconds /\ waited \in 0 .. RetryPeriod

(* A datagram that came before the poll was sent instead of the request      *)
(* (dhcpclient.c:143): the address was never asked for.                      *)
RequestOverwritten == asked.op = "reply"

(* The node runs MQTT only under the address of the last offer, although any *)
(* reply - a refusal, a late offer of another address - passes for the       *)
(* acknowledgement.  The last request that left the node asked the server of *)
(* that offer for it, unless RequestOverwritten.                             *)
RequestedUnlessOverwritten ==
    nodeState = "MQTT" =>
        /\ hostAddr = clientAddr /\ hostAddr \in Address
        /\ asked = Request \/ RequestOverwritten

(* A message that waits to be sent is not overwritten by the MQTT client,    *)
(* whose buffers are the same memory: segments that arrive while the node    *)
(* queries do not reach it, and a release ends its turn at once.             *)
OverlayRespected == Pending => shared # MqttData

(* The lease is not given up before all of its seconds have passed, however  *)
(* rarely and from whichever callback the timer is tested.                   *)
LeaseNotShort ==
    [][nodeState = "MQTT" /\ nodeState' = "DHCP" => held >= SecTicks * LeaseSeconds]_allVars

(* An unanswered message is not repeated before the retry interval is over,  *)
(* whatever arrives and is rejected in the meantime.                         *)
RetriesSpaced ==
    [][/\ dhcpState \in {"DISCOVER_SENT", "REQUEST_SENT"}
       /\ dhcpState' = "DISCOVER_PENDING"
       => waited >= RetryPeriod]_allVars

(* While it re-leases, the node keeps its address but states in its messages *)
(* the one it was offered last.  When they differ no answer reaches it.      *)
Stranded == hostAddr # NoAddr /\ clientAddr # hostAddr

(* With one server the node gets an address again and again: lost, late and  *)
(* incomplete messages and answers in a wrong state delay it, but apart from *)
(* Stranded leave nothing it cannot leave.                                   *)
CompletesUnlessStranded == []<>(nodeState = "MQTT" \/ Stranded)

(* README.md:61: "Node has implemented code for DHCP client to dynamically   *)
(* assign IP address."  With two servers it may never get one: the second    *)
(* offer overwrites the request before it is sent, time and again.           *)
GetsAddress == <>(hostAddr # NoAddr)

=============================================================================
