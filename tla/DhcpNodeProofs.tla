--------------------------- MODULE DhcpNodeProofs ---------------------------
(* The node under the DHCP client, for every number of addresses, servers    *)
(* and faults, every retry interval, lease and length of the queues.         *)
EXTENDS DhcpNode, TLAPS

(* The part of DhcpNodeTypeOK that is the node's own.                        *)
ClientTypes ==
    /\ DhcpTypeOK
    /\ nodeState \in {"DHCP", "MQTT"}
    /\ second \in 0 .. SecTicks /\ elapsed \in 0 .. LeaseSeconds - 1
    /\ asked \in Message \cup {Blank, MqttData}
    /\ held \in 0 .. SecTicks * LeaseSeconds /\ waited \in 0 .. RetryPeriod

(* A complete reply and a request name an address of the server, whichever   *)
(* buffer or queue they are in.  A refusal is not complete.                  *)
Sound(m) ==
    /\ m.op = "reply" /\ m.opts = "all" => m.addr \in Address
    /\ m.op = "request" /\ m.type = "REQUEST" => m.addr \in Address

(* What is on its way to the node.                                           *)
SoundReply(m) == Sound(m) /\ IsReply(m)

(* What each state of the client says of the addresses.                      *)
Phases ==
    /\ dhcpState \in {"OFFER_RECEIVED", "REQUEST_PENDING", "REQUEST_SENT", "ACK_RECEIVED"}
          => clientAddr \in Address
    /\ dhcpState \in {"ADDRESS_CONFIGURED", "FINISHED"} => hostAddr = clientAddr /\ hostAddr \in Address
    /\ nodeState = "MQTT" => dhcpState = "FINISHED"

(* A request that waits, and what the poll then sends, is for the address and *)
(* the server of the offer, or an answer that has overwritten it.            *)
AskedOrOverwritten(m) == m = Request \/ m.op = "reply"

Asking ==
    /\ dhcpState = "REQUEST_PENDING" => AskedOrOverwritten(shared)
    /\ dhcpState \in {"REQUEST_SENT", "ACK_RECEIVED", "ADDRESS_CONFIGURED", "FINISHED"}
          => AskedOrOverwritten(asked)

BufferKept == nodeState = "DHCP" => shared # MqttData

(* The ticks of the lease are those of its whole seconds and of this one.    *)
LeaseCounted == nodeState = "MQTT" => held + second >= SecTicks * elapsed + SecTicks

RetryCounted == dhcpState \in {"DISCOVER_SENT", "REQUEST_SENT"} => waited + retry >= RetryPeriod

ClientInv ==
    ClientTypes /\ Sound(shared) /\ Phases /\ Asking /\ BufferKept /\ LeaseCounted /\ RetryCounted

QueueTypes ==
    /\ pc \in {"rx", "periodic", "process"} /\ due \in BOOLEAN
    /\ toServer \in [Server -> Seq(Message \cup {Blank, MqttData})]
    /\ toNode \in Seq(Datagram)
    /\ faults \in 0 .. Faults

QueuesSound ==
    /\ \A s \in Server : \A i \in DOMAIN toServer[s] : Sound(toServer[s][i])
    /\ \A i \in DOMAIN toNode : SoundReply(toNode[i].msg)

DhcpInv == ClientInv /\ QueueTypes /\ QueuesSound

-----------------------------------------------------------------------------
(* The callbacks and dhcpclient_process                                      *)

(* The lease timer is tested: either it fires, or the second is counted.     *)
LEMMA LeaseTestStep ==
    ASSUME ClientInv, LeaseTest, ~LeaseFires, UNCHANGED <<nodeState, held>>
    PROVE  /\ second' \in 0 .. SecTicks /\ elapsed' \in 0 .. LeaseSeconds - 1
           /\ LeaseCounted'
<1>1. SecTicks \in Nat /\ LeaseSeconds \in Nat
  BY NodeConstants
<1>2. CASE nodeState = "MQTT" /\ second = 0
  <2>1. second' = SecTicks /\ elapsed' = elapsed + 1 /\ elapsed + 1 < LeaseSeconds
    BY <1>1, <1>2 DEF LeaseTest, LeaseFires, ClientInv, ClientTypes
  <2>2. SecTicks * (elapsed + 1) = SecTicks * elapsed + SecTicks
    BY <1>1 DEF ClientInv, ClientTypes
  <2>3. held >= SecTicks * elapsed + SecTicks
    BY <1>1, <1>2 DEF ClientInv, ClientTypes, LeaseCounted
  <2>4. QED
    BY <1>1, <2>1, <2>2, <2>3 DEF ClientInv, ClientTypes, LeaseCounted
<1>3. CASE ~(nodeState = "MQTT" /\ second = 0)
  BY <1>3 DEF LeaseTest, ClientInv, ClientTypes, LeaseCounted
<1>4. QED
  BY <1>2, <1>3

(* A release leaves nothing of the client's state but its addresses.         *)
LEMMA ReleaseStep ==
    ASSUME ClientInv, LeaseTest, Release, UNCHANGED observers
    PROVE  ClientInv'
<1>1. /\ nodeState' = "DHCP" /\ dhcpState' = "INIT" /\ retry' = RetryPeriod /\ shared' = Blank
      /\ UNCHANGED <<clientAddr, serverId, udpConn, hostAddr>>
  BY DEF Release, DhcpInit, UpdateState
<1>2. second' = SecTicks /\ elapsed' = 0
  BY DEF LeaseTest, Release, LeaseFires
<1>3. Blank # MqttData /\ Sound(Blank)
  BY DEF Blank, MqttData, Sound
<1>4. ClientTypes'
  BY <1>1, <1>2, NodeConstants, DhcpConstants
     DEF ClientInv, ClientTypes, DhcpTypeOK, DhcpStates, observers
<1>5. QED
  BY <1>1, <1>3, <1>4
     DEF ClientInv, Phases, Asking, AskedOrOverwritten, Request, BufferKept,
             LeaseCounted, RetryCounted

(* A TCP callback changes no more than the lease timer and, for MQTT, the    *)
(* buffer.                                                                   *)
LEMMA TcpAppcallStep ==
    ASSUME ClientInv, TcpAppcall
    PROVE  ClientInv'
<1>1. CASE Release
  BY <1>1, ReleaseStep DEF TcpAppcall
<1>2. CASE /\ ~LeaseFires
           /\ shared' \in IF nodeState = "MQTT" THEN {shared, MqttData} ELSE {shared}
           /\ UNCHANGED <<nodeState, dhcpState, clientAddr, serverId, retry, udpConn, hostAddr>>
  <2>1. UNCHANGED <<asked, held, waited>>
    BY DEF TcpAppcall, observers
  <2>2. /\ second' \in 0 .. SecTicks /\ elapsed' \in 0 .. LeaseSeconds - 1
        /\ LeaseCounted'
    BY <1>2, <2>1, LeaseTestStep DEF TcpAppcall
  <2>3. shared' = shared \/ (nodeState = "MQTT" /\ shared' = MqttData)
    BY <1>2
  <2>4. Sound(shared)' /\ BufferKept'
    BY <1>2, <2>3 DEF ClientInv, Sound, BufferKept, MqttData
  <2>5. ClientTypes'
    BY <1>2, <2>1, <2>2, <2>3 DEF ClientInv, ClientTypes, DhcpTypeOK
  <2>6. QED
    BY <1>2, <2>1, <2>2, <2>4, <2>5 DEF ClientInv, Phases, Asking, AskedOrOverwritten, Request, RetryCounted
<1>3. QED
  BY <1>1, <1>2 DEF TcpAppcall

(* A datagram: the buffer, and with the state what it tells the client.      *)
LEMMA MessageStep ==
    ASSUME ClientInv, NEW m \in Message, Sound(m), IsReply(m), nodeState = "DHCP",
           DhcpFinish \/ DhcpMessage(m),
           UNCHANGED <<nodeState, second, elapsed, observers>>
    PROVE  ClientInv'
<1>1. UNCHANGED <<asked, held, waited>>
  BY DEF observers
<1>2. RetryPeriod \in Nat
  BY DhcpConstants
<1>3. CASE DhcpFinish
  BY <1>1, <1>2, <1>3
     DEF DhcpFinish, UpdateState, ClientInv, ClientTypes, DhcpTypeOK, DhcpStates, Sound,
         Phases, Asking, AskedOrOverwritten, Request, BufferKept,
             LeaseCounted, RetryCounted
<1>4. CASE DhcpMessage(m)
  <2>1. shared' = m /\ m # MqttData /\ UNCHANGED <<udpConn, hostAddr>>
    BY <1>4 DEF DhcpMessage, Message, MqttData
  <2>2. /\ m.addr \in Address \cup {NoAddr} /\ m.server \in Server \cup {NoServer}
        /\ dhcpState # "ADDRESS_CONFIGURED"
    BY <1>4 DEF DhcpMessage, Message
  <2>3. CASE dhcpState = "DISCOVER_SENT"
    <3>1. ProcessOffer(m)
      BY <1>4, <2>3 DEF DhcpMessage
    <3>2. CASE IsReply(m) /\ m.opts = "all"
      <4>1. /\ dhcpState' = "OFFER_RECEIVED" /\ retry' = RetryPeriod
            /\ clientAddr' \in Address /\ serverId' \in Server \cup {NoServer}
        BY <2>2, <3>1, <3>2 DEF ProcessOffer, UpdateState, IsReply, Sound
      <4>2. ClientTypes'
        BY <1>1, <1>2, <2>1, <4>1 DEF ClientInv, ClientTypes, DhcpTypeOK, DhcpStates
      <4>3. QED
        BY <1>1, <2>1, <2>3, <4>1, <4>2
           DEF ClientInv, Sound, Phases, Asking, AskedOrOverwritten, Request, BufferKept,
             LeaseCounted, RetryCounted
    <3>3. CASE ~(IsReply(m) /\ m.opts = "all")
      <4>1. /\ UNCHANGED <<dhcpState, retry>>
            /\ clientAddr' \in Address \cup {NoAddr} /\ serverId' \in Server \cup {NoServer}
        BY <2>2, <3>1, <3>3 DEF ProcessOffer, ClientInv, ClientTypes, DhcpTypeOK
      <4>2. ClientTypes'
        BY <1>1, <2>1, <4>1 DEF ClientInv, ClientTypes, DhcpTypeOK
      <4>3. QED
        BY <1>1, <2>1, <2>3, <4>1, <4>2
           DEF ClientInv, Sound, Phases, Asking, AskedOrOverwritten, Request, BufferKept,
             LeaseCounted, RetryCounted
    <3>4. QED
      BY <3>2, <3>3
  <2>4. CASE dhcpState = "REQUEST_SENT"
    <3>1. /\ UNCHANGED <<clientAddr, serverId>>
          /\ \/ dhcpState' = "ACK_RECEIVED" /\ retry' = RetryPeriod
             \/ UNCHANGED <<dhcpState, retry>>
      BY <1>4, <2>4 DEF DhcpMessage, UpdateState
    <3>2. ClientTypes'
      BY <1>1, <1>2, <2>1, <3>1 DEF ClientInv, ClientTypes, DhcpTypeOK, DhcpStates
    <3>3. QED
      BY <1>1, <2>1, <2>4, <3>1, <3>2
         DEF ClientInv, Sound, Phases, Asking, AskedOrOverwritten, Request, BufferKept,
             LeaseCounted, RetryCounted
  <2>5. CASE dhcpState \notin {"DISCOVER_SENT", "REQUEST_SENT"}
    <3>1. UNCHANGED <<dhcpState, retry, clientAddr, serverId>>
      BY <1>4, <2>5 DEF DhcpMessage
    <3>2. ClientTypes'
      BY <1>1, <2>1, <3>1 DEF ClientInv, ClientTypes, DhcpTypeOK
    <3>3. QED
      BY <1>1, <2>1, <3>1, <3>2
         DEF IsReply, ClientInv, Sound, Phases, Asking, AskedOrOverwritten, Request, BufferKept,
             LeaseCounted, RetryCounted
  <2>6. QED
    BY <2>3, <2>4, <2>5
<1>5. QED
  BY <1>3, <1>4

(* The UDP callback, after the test of the lease.                            *)
LEMMA UdpNewDataStep ==
    ASSUME ClientInv, NEW m \in Message, Sound(m), IsReply(m), UdpNewData(m)
    PROVE  ClientInv'
<1>1. CASE Release
  BY <1>1, ReleaseStep DEF UdpNewData
<1>2. CASE /\ ~LeaseFires
           /\ IF nodeState = "DHCP" THEN DhcpFinish \/ DhcpMessage(m) ELSE UNCHANGED dhcpVars
           /\ UNCHANGED nodeState
  <2>1. CASE nodeState = "DHCP"
    <3>1. UNCHANGED <<second, elapsed>>
      BY <2>1 DEF UdpNewData, LeaseTest
    <3>2. QED
      BY <1>2, <2>1, <3>1, MessageStep DEF UdpNewData
  <2>2. CASE nodeState # "DHCP"
    <3>1. UNCHANGED <<asked, held, waited>>
      BY DEF UdpNewData, observers
    <3>2. /\ second' \in 0 .. SecTicks /\ elapsed' \in 0 .. LeaseSeconds - 1
          /\ LeaseCounted'
      BY <1>2, <3>1, LeaseTestStep DEF UdpNewData
    <3>3. UNCHANGED <<dhcpState, shared, clientAddr, serverId, retry, udpConn, hostAddr>>
      BY <1>2, <2>2 DEF dhcpVars
    <3>4. QED
      BY <1>2, <3>1, <3>2, <3>3
         DEF ClientInv, ClientTypes, DhcpTypeOK, Sound, Phases, Asking, AskedOrOverwritten, Request, BufferKept, RetryCounted
  <2>3. QED
    BY <2>1, <2>2
<1>3. QED
  BY <1>1, <1>2 DEF UdpNewData

(* A poll: the message goes out and the retry interval begins.               *)
LEMMA UdpPollStep ==
    ASSUME ClientInv, UdpPoll
    PROVE  ClientInv'
<1>1. UNCHANGED <<nodeState, second, elapsed, held>> /\ RetryPeriod \in Nat
  BY DhcpConstants DEF UdpPoll, Broadcast, observers
<1>2. CASE DhcpSend /\ Broadcast(shared)
  BY <1>1, <1>2
     DEF DhcpSend, Pending, UpdateState, Broadcast, ClientInv, ClientTypes, DhcpTypeOK, DhcpStates,
         Sound, Phases, Asking, AskedOrOverwritten, Request, BufferKept,
             LeaseCounted, RetryCounted
<1>3. CASE (DhcpFinish \/ DhcpPollIdle) /\ UNCHANGED <<toServer, observers>>
  BY <1>1, <1>3
     DEF DhcpFinish, DhcpPollIdle, dhcpVars, UpdateState, observers, ClientInv, ClientTypes,
         DhcpTypeOK, DhcpStates, Sound, Phases, Asking, AskedOrOverwritten, Request, BufferKept,
             LeaseCounted, RetryCounted
<1>4. QED
  BY <1>2, <1>3 DEF UdpPoll

(* The client builds messages from what it knows, and configures what it     *)
(* asked for.                                                                *)
LEMMA ProcessQueryingStep ==
    ASSUME ClientInv, nodeState = "DHCP", ProcessQuerying
    PROVE  ClientInv'
<1>1. /\ RetryPeriod \in Nat /\ SecTicks \in Nat /\ LeaseSeconds \in Nat \ {0}
      /\ UNCHANGED waited
  BY DhcpConstants, NodeConstants DEF ProcessQuerying
<1>2. dhcpState' = "FINISHED" => dhcpState = "FINISHED"
  BY DEF ProcessQuerying, DhcpProcess, DhcpDiscover, DhcpRequest, DhcpConfigure, DhcpWait, UpdateState
<1>3. \/ /\ dhcpState' = "FINISHED" /\ nodeState' = "MQTT"
         /\ second' = SecTicks /\ elapsed' = 0 /\ held' = 0
      \/ dhcpState' # "FINISHED" /\ UNCHANGED <<nodeState, second, elapsed, held>>
  BY DEF ProcessQuerying, LeaseSet
<1>4. /\ second' \in 0 .. SecTicks /\ elapsed' \in 0 .. LeaseSeconds - 1
      /\ held' \in 0 .. SecTicks * LeaseSeconds /\ nodeState' \in {"DHCP", "MQTT"}
  <2>1. SecTicks * LeaseSeconds \in Nat
    BY <1>1
  <2>2. QED
    BY <1>1, <1>3, <2>1 DEF ClientInv, ClientTypes
<1>5. LeaseCounted'
  BY <1>1, <1>3 DEF LeaseCounted
<1>6. CASE DhcpDiscover
  <2>1. /\ dhcpState' = "DISCOVER_PENDING" /\ retry' = RetryPeriod /\ shared' = Discover
        /\ udpConn' \in BOOLEAN /\ UNCHANGED <<clientAddr, serverId, hostAddr>>
    BY <1>6 DEF DhcpDiscover, UpdateState
  <2>2. Discover \in Message /\ Sound(Discover) /\ Discover # MqttData
    BY DEF Discover, Message, Sound, MqttData, ClientInv, ClientTypes, DhcpTypeOK
  <2>3. UNCHANGED asked
    BY <1>6 DEF ProcessQuerying, DhcpDiscover, AfterRetry
  <2>4. QED
    BY <1>1, <1>3, <1>4, <1>5, <2>1, <2>2, <2>3
       DEF ClientInv, ClientTypes, DhcpTypeOK, DhcpStates, Phases, Asking, AskedOrOverwritten, Request, BufferKept, RetryCounted
<1>7. CASE DhcpRequest
  <2>1. /\ dhcpState = "OFFER_RECEIVED" /\ dhcpState' = "REQUEST_PENDING" /\ retry' = RetryPeriod
        /\ shared' = Request /\ UNCHANGED <<clientAddr, serverId, udpConn, hostAddr>>
    BY <1>7 DEF DhcpRequest, UpdateState
  <2>2. clientAddr \in Address
    BY <2>1 DEF ClientInv, Phases
  <2>3. Request \in Message /\ Sound(Request) /\ Request # MqttData
    BY <2>2 DEF Request, Message, Sound, MqttData, ClientInv, ClientTypes, DhcpTypeOK
  <2>4. UNCHANGED asked
    BY DEF ProcessQuerying
  <2>5. QED
    BY <1>1, <1>3, <1>4, <1>5, <2>1, <2>2, <2>3, <2>4
       DEF ClientInv, ClientTypes, DhcpTypeOK, DhcpStates, Phases, Asking, AskedOrOverwritten, Request, BufferKept, RetryCounted
<1>8. CASE DhcpConfigure
  <2>1. /\ dhcpState = "ACK_RECEIVED" /\ dhcpState' = "ADDRESS_CONFIGURED" /\ retry' = RetryPeriod
        /\ hostAddr' = clientAddr /\ UNCHANGED <<shared, clientAddr, serverId, udpConn>>
    BY <1>8 DEF DhcpConfigure, UpdateState
  <2>2. UNCHANGED asked
    BY <2>1 DEF ProcessQuerying
  <2>3. QED
    BY <1>1, <1>3, <1>4, <1>5, <2>1, <2>2
       DEF ClientInv, ClientTypes, DhcpTypeOK, DhcpStates, Sound, Phases, Asking, AskedOrOverwritten, Request, BufferKept, RetryCounted
<1>9. CASE DhcpWait
  <2>1. /\ UNCHANGED <<dhcpState, shared, clientAddr, serverId, udpConn, hostAddr>>
        /\ dhcpState # "OFFER_RECEIVED"
        /\ retry = 0 => dhcpState \notin {"DISCOVER_SENT", "REQUEST_SENT"}
        /\ retry' = IF retry = 0 THEN RetryPeriod ELSE retry
    BY <1>9 DEF DhcpWait, AfterRetry
  <2>2. UNCHANGED asked
    BY <2>1 DEF ProcessQuerying
  <2>3. QED
    BY <1>1, <1>3, <1>4, <1>5, <2>1, <2>2
       DEF ClientInv, ClientTypes, DhcpTypeOK, Sound, Phases, Asking, AskedOrOverwritten, Request, BufferKept, RetryCounted
<1>10. QED
  BY <1>6, <1>7, <1>8, <1>9 DEF ProcessQuerying, DhcpProcess

(* MQTT data only gets into the buffer while the node runs MQTT.             *)
LEMMA ProcessMqttStep ==
    ASSUME ClientInv, nodeState # "DHCP", ProcessMqtt
    PROVE  ClientInv'
<1>1. UNCHANGED <<asked, held, waited>>
  BY DEF ProcessMqtt, observers
<1>2. /\ UNCHANGED <<dhcpState, clientAddr, serverId, retry, udpConn, hostAddr, nodeState,
                     second, elapsed>>
      /\ shared' = shared \/ shared' = MqttData
  BY DEF ProcessMqtt
<1>3. Sound(shared)'
  BY <1>2 DEF ClientInv, Sound, MqttData
<1>4. QED
  BY <1>1, <1>2, <1>3
     DEF ClientInv, ClientTypes, DhcpTypeOK, Phases, Asking, AskedOrOverwritten, Request, BufferKept,
             LeaseCounted, RetryCounted

(* The same state with the same observers.                                   *)
LEMMA ClientUnchanged ==
    ASSUME ClientInv, UNCHANGED <<dhcpVars, nodeState, second, elapsed, observers>>
    PROVE  ClientInv'
BY DEF dhcpVars, observers, ClientInv, ClientTypes, DhcpTypeOK, Sound, Phases, Asking, AskedOrOverwritten, Request, BufferKept,
       LeaseCounted, RetryCounted

(* Time runs down two timers and up two observers.                           *)
LEMMA TickStep ==
    ASSUME ClientInv, Tick
    PROVE  ClientInv'
<1>1. SecTicks \in Nat \ {0} /\ LeaseSeconds \in Nat \ {0} /\ RetryPeriod \in Nat
  BY NodeConstants, DhcpConstants
<1>2. UNCHANGED <<dhcpState, shared, clientAddr, serverId, udpConn, hostAddr, nodeState, elapsed,
                  asked>>
  BY DEF Tick
<1>3. /\ retry' = IF retry > 0 THEN retry - 1 ELSE 0
      /\ second' = IF second > 0 THEN second - 1 ELSE 0
      /\ held' = IF held < SecTicks * LeaseSeconds THEN held + 1 ELSE SecTicks * LeaseSeconds
      /\ waited' = IF waited < RetryPeriod THEN waited + 1 ELSE RetryPeriod
  BY DEF Tick, Less, More
<1> DEFINE whole == SecTicks * LeaseSeconds
           past == SecTicks * elapsed
<1>4. whole \in Nat /\ past \in Nat /\ past + SecTicks <= whole
  <2>1. elapsed \in Nat /\ elapsed + 1 <= LeaseSeconds
    BY <1>1 DEF ClientInv, ClientTypes
  <2>2. PICK more \in Nat : LeaseSeconds = elapsed + 1 + more
    <3>1. LeaseSeconds - elapsed - 1 \in Nat
      BY <1>1, <2>1
    <3>2. LeaseSeconds = elapsed + 1 + (LeaseSeconds - elapsed - 1)
      BY <1>1, <2>1
    <3>3. QED
      BY <3>1, <3>2
  <2>3. whole = past + SecTicks + SecTicks * more
    BY <1>1, <2>1, <2>2
  <2>4. SecTicks * more \in Nat /\ past \in Nat
    BY <1>1, <2>1, <2>2
  <2>5. QED
    BY <1>1, <2>3, <2>4
<1>5. held \in 0 .. whole /\ second \in 0 .. SecTicks
  BY DEF ClientInv, ClientTypes
<1>6. held' = (IF held < whole THEN held + 1 ELSE whole) /\ past' = past
  BY <1>2, <1>3
<1>7. nodeState = "MQTT" => held + second >= past + SecTicks
  BY DEF ClientInv, LeaseCounted
<1> HIDE DEF whole, past
<1>8. held' \in 0 .. whole /\ second' \in 0 .. SecTicks
  BY <1>1, <1>3, <1>4, <1>5, <1>6
<1>9. nodeState = "MQTT" => held' + second' >= past' + SecTicks
  BY <1>1, <1>3, <1>4, <1>5, <1>6, <1>7
<1>10. LeaseCounted'
  BY <1>2, <1>9 DEF past, LeaseCounted
<1>11. retry' \in 0 .. RetryPeriod /\ waited' \in 0 .. RetryPeriod
  BY <1>1, <1>3 DEF ClientInv, ClientTypes, DhcpTypeOK
<1>12. RetryCounted'
  BY <1>1, <1>2, <1>3 DEF ClientInv, ClientTypes, DhcpTypeOK, RetryCounted
<1>13. ClientTypes'
  BY <1>2, <1>8, <1>11 DEF whole, ClientInv, ClientTypes, DhcpTypeOK
<1>14. QED
  BY <1>2, <1>10, <1>12, <1>13 DEF ClientInv, Sound, Phases, Asking, AskedOrOverwritten, Request, BufferKept

-----------------------------------------------------------------------------
(* The queues                                                                *)

(* What is behind the first element of a queue was in it.                    *)
LEMMA TailOf ==
    ASSUME NEW S, NEW q \in Seq(S), q # <<>>
    PROVE  /\ Head(q) \in S /\ Head(q) = q[1] /\ 1 \in DOMAIN q
           /\ Tail(q) \in Seq(S)
           /\ \A i \in DOMAIN Tail(q) : i + 1 \in DOMAIN q /\ Tail(q)[i] = q[i + 1]
OBVIOUS

(* A broadcast puts the buffer, which is sound, behind what is in a queue.   *)
LEMMA BroadcastStep ==
    ASSUME DhcpInv, Broadcast(shared), UNCHANGED toNode
    PROVE  /\ toServer' \in [Server -> Seq(Message \cup {Blank, MqttData})]
           /\ QueuesSound'
<1> DEFINE S == Message \cup {Blank, MqttData}
<1>1. shared \in S /\ Sound(shared)
  BY DEF DhcpInv, ClientInv, ClientTypes, DhcpTypeOK
<1>2. toServer' = [s \in Server |->
          IF Len(toServer[s]) < QueueCap THEN Append(toServer[s], shared) ELSE toServer[s]]
  BY DEF Broadcast
<1>3. \A s \in Server : toServer[s] \in Seq(S)
  BY DEF DhcpInv, QueueTypes
<1> HIDE DEF S
<1>4. ASSUME NEW s \in Server
      PROVE  /\ toServer'[s] \in Seq(S)
             /\ \A i \in DOMAIN toServer'[s] : Sound(toServer'[s][i])
  <2>1. toServer'[s] = toServer[s] \/ toServer'[s] = Append(toServer[s], shared)
    BY <1>2
  <2>2. \A i \in DOMAIN toServer[s] : Sound(toServer[s][i])
    BY DEF DhcpInv, QueuesSound
  <2>3. /\ Append(toServer[s], shared) \in Seq(S)
        /\ \A i \in DOMAIN Append(toServer[s], shared) :
              \/ i \in DOMAIN toServer[s] /\ Append(toServer[s], shared)[i] = toServer[s][i]
              \/ Append(toServer[s], shared)[i] = shared
    BY <1>1, <1>3
  <2>4. \A i \in DOMAIN Append(toServer[s], shared) : Sound(Append(toServer[s], shared)[i])
    <3>1. SUFFICES ASSUME NEW i \in DOMAIN Append(toServer[s], shared)
                   PROVE  Sound(Append(toServer[s], shared)[i])
      OBVIOUS
    <3>2. CASE i \in DOMAIN toServer[s] /\ Append(toServer[s], shared)[i] = toServer[s][i]
      BY <2>2, <3>2 DEF Sound
    <3>3. CASE Append(toServer[s], shared)[i] = shared
      BY <1>1, <3>3 DEF Sound
    <3>4. QED
      BY <2>3, <3>2, <3>3
  <2>5. QED
    BY <1>3, <2>1, <2>2, <2>3, <2>4
<1>5. toServer' \in [Server -> Seq(S)]
  BY <1>2, <1>4
<1>6. \A i \in DOMAIN toNode' : SoundReply(toNode'[i].msg)
  BY DEF DhcpInv, QueuesSound
<1>7. QED
  BY <1>4, <1>5, <1>6 DEF S, QueuesSound

(* An answer is complete only with an address: one the server offers, or the *)
(* one that a sound request asks for.                                        *)
LEMMA AnswersSound ==
    ASSUME NEW s \in Server, NEW m \in Message \cup {Blank, MqttData}, Sound(m),
           NEW r \in AnswersOf(s, m)
    PROVE  r \in Message /\ SoundReply(r) /\ m.ciaddr \in Address \cup {NoAddr}
<1>1. CASE m.op = "request" /\ m.type = "DISCOVER"
  <2>1. m \in Message
    BY <1>1 DEF Blank, MqttData
  <2>2. PICK a \in Address : r = Reply(s, m, "OFFER", a, "all")
    BY <1>1 DEF AnswersOf
  <2>3. QED
    BY <2>1, <2>2 DEF Reply, Message, SoundReply, Sound, IsReply
<1>2. CASE m.op = "request" /\ m.type = "REQUEST" /\ m.server = s
  <2>1. m \in Message
    BY <1>2 DEF Blank, MqttData
  <2>2. AnswersOf(s, m) = {Reply(s, m, "ACK", m.addr, "all"), Reply(s, m, "NAK", NoAddr, "server")}
    BY <1>2 DEF AnswersOf
  <2>3. m.addr \in Address
    BY <1>2 DEF Sound
  <2>4. QED
    BY <2>1, <2>2, <2>3 DEF Reply, Message, SoundReply, Sound, IsReply
<1>3. CASE /\ ~(m.op = "request" /\ m.type = "DISCOVER")
           /\ ~(m.op = "request" /\ m.type = "REQUEST" /\ m.server = s)
  BY <1>3 DEF AnswersOf
<1>4. QED
  BY <1>1, <1>2, <1>3

-----------------------------------------------------------------------------
(* The steps of the system                                                   *)

LEMMA RxDatagramStep ==
    ASSUME DhcpInv, RxDatagram
    PROVE  DhcpInv'
<1>1. /\ toNode # <<>> /\ toNode \in Seq(Datagram)
      /\ pc' = "periodic" /\ toNode' = Tail(toNode) /\ UNCHANGED <<due, faults>>
  BY DEF RxDatagram, DhcpInv, QueueTypes
<1> DEFINE d == Head(toNode)
<1>2. /\ d \in Datagram /\ d = toNode[1] /\ 1 \in DOMAIN toNode
      /\ toNode' \in Seq(Datagram)
      /\ \A i \in DOMAIN toNode' : i + 1 \in DOMAIN toNode /\ toNode'[i] = toNode[i + 1]
  BY <1>1, TailOf
<1>3. d.msg \in Message /\ Sound(d.msg) /\ IsReply(d.msg)
  BY <1>2 DEF Datagram, SoundReply, DhcpInv, QueuesSound
<1>4. ClientInv' /\ toServer' = toServer
  <2>1. CASE Accepts(d)
    <3>1. UdpNewData(d.msg)
      BY <2>1 DEF RxDatagram
    <3>2. QED
      BY <1>3, <3>1, UdpNewDataStep DEF DhcpInv, UdpNewData
  <2>2. CASE ~Accepts(d)
    <3>1. UNCHANGED <<dhcpVars, nodeState, second, elapsed, toServer, observers>>
      BY <2>2 DEF RxDatagram
    <3>2. QED
      BY <3>1, ClientUnchanged DEF DhcpInv
  <2>3. QED
    BY <2>1, <2>2
<1>5. QueueTypes'
  BY <1>1, <1>2, <1>4 DEF DhcpInv, QueueTypes
<1>6. QueuesSound'
  <2>1. \A i \in DOMAIN toNode' : SoundReply(toNode'[i].msg)
    BY <1>2 DEF DhcpInv, QueuesSound
  <2>2. QED
    BY <1>4, <2>1 DEF DhcpInv, QueuesSound
<1>7. QED
  BY <1>4, <1>5, <1>6 DEF DhcpInv

(* A poll that sends is the one stage of the loop that adds to a queue.      *)
LEMMA PeriodicStageStep ==
    ASSUME DhcpInv, PeriodicStage
    PROVE  DhcpInv'
<1>1. pc' = "process" /\ due' = FALSE /\ UNCHANGED <<toNode, faults>>
  BY DEF PeriodicStage
<1>2. CASE TcpAppcall
  <2>1. toServer' = toServer
    BY <1>2 DEF TcpAppcall
  <2>2. QED
    BY <1>1, <1>2, <2>1, TcpAppcallStep DEF DhcpInv, QueueTypes, QueuesSound
<1>3. CASE UdpPoll
  <2>1. ClientInv'
    BY <1>3, UdpPollStep DEF DhcpInv
  <2>2. CASE Broadcast(shared)
    BY <1>1, <2>1, <2>2, BroadcastStep DEF DhcpInv, QueueTypes
  <2>3. CASE UNCHANGED toServer
    BY <1>1, <2>1, <2>3 DEF DhcpInv, QueueTypes, QueuesSound
  <2>4. QED
    BY <1>3, <2>2, <2>3 DEF UdpPoll
<1>4. CASE UNCHANGED <<dhcpVars, nodeState, second, elapsed, toServer, observers>>
  BY <1>1, <1>4, ClientUnchanged DEF DhcpInv, QueueTypes, QueuesSound
<1>5. QED
  <2>1. CASE due
    <3>1. PeriodicCall
      BY <2>1 DEF PeriodicStage
    <3>2. TcpAppcall \/ UdpPoll \/ UNCHANGED <<dhcpVars, nodeState, second, elapsed, toServer, observers>>
      BY <3>1 DEF PeriodicCall
    <3>3. QED
      BY <1>2, <1>3, <1>4, <3>2
  <2>2. CASE ~due
    BY <1>4, <2>2 DEF PeriodicStage
  <2>3. QED
    BY <2>1, <2>2

(* An answer is appended to what is on its way to the node.                  *)
LEMMA ServerAnswerStep ==
    ASSUME DhcpInv, NEW s \in Server, ServerAnswer(s)
    PROVE  DhcpInv'
<1> DEFINE S == Message \cup {Blank, MqttData}
           m == Head(toServer[s])
<1>1. /\ UNCHANGED <<dhcpVars, nodeState, second, elapsed, observers, pc, due, faults>>
      /\ toServer[s] # <<>> /\ toServer[s] \in Seq(S)
      /\ toServer' = [toServer EXCEPT ![s] = Tail(@)]
  BY DEF ServerAnswer, loopVars, DhcpInv, QueueTypes
<1>2. /\ m \in S /\ m = toServer[s][1] /\ 1 \in DOMAIN toServer[s]
      /\ Tail(toServer[s]) \in Seq(S)
      /\ \A i \in DOMAIN Tail(toServer[s]) :
            i + 1 \in DOMAIN toServer[s] /\ Tail(toServer[s])[i] = toServer[s][i + 1]
  <2> HIDE DEF S
  <2>1. QED
    BY <1>1, TailOf
<1>3. Sound(m)
  BY <1>2 DEF DhcpInv, QueuesSound
<1>4. /\ toServer' \in [Server -> Seq(S)]
      /\ \A t \in Server : \A i \in DOMAIN toServer'[t] : Sound(toServer'[t][i])
  <2>1. toServer \in [Server -> Seq(S)]
    BY DEF DhcpInv, QueueTypes
  <2> HIDE DEF S
  <2>2. toServer'[s] = Tail(toServer[s]) /\ \A t \in Server \ {s} : toServer'[t] = toServer[t]
    BY <1>1, <2>1
  <2>3. \A i \in DOMAIN toServer'[s] : Sound(toServer'[s][i])
    BY <1>2, <2>2 DEF DhcpInv, QueuesSound
  <2>4. \A t \in Server \ {s} : \A i \in DOMAIN toServer'[t] : Sound(toServer'[t][i])
    BY <2>2 DEF DhcpInv, QueuesSound
  <2>5. QED
    BY <1>1, <1>2, <2>1, <2>3, <2>4
<1>5. toNode' \in Seq(Datagram) /\ \A i \in DOMAIN toNode' : SoundReply(toNode'[i].msg)
  <2>1. toNode \in Seq(Datagram) /\ \A i \in DOMAIN toNode : SoundReply(toNode[i].msg)
    BY DEF DhcpInv, QueueTypes, QueuesSound
  <2>2. CASE toNode' = toNode
    BY <2>1, <2>2
  <2>3. ASSUME NEW r \in AnswersOf(s, m), toNode' = Append(toNode, [msg |-> r, dest |-> m.ciaddr])
        PROVE  toNode' \in Seq(Datagram) /\ \A i \in DOMAIN toNode' : SoundReply(toNode'[i].msg)
    <3> DEFINE d == [msg |-> r, dest |-> m.ciaddr]
    <3>1. r \in Message /\ SoundReply(r) /\ m.ciaddr \in Address \cup {NoAddr}
      BY <1>2, <1>3, AnswersSound
    <3>2. d \in Datagram /\ d.msg = r
      BY <3>1 DEF Datagram
    <3> HIDE DEF d
    <3>3. /\ Append(toNode, d) \in Seq(Datagram)
          /\ \A i \in DOMAIN Append(toNode, d) :
                \/ i \in DOMAIN toNode /\ Append(toNode, d)[i] = toNode[i]
                \/ Append(toNode, d)[i] = d
      BY <2>1, <3>2
    <3>4. toNode' = Append(toNode, d)
      BY <2>3 DEF d
    <3>5. \A i \in DOMAIN toNode' : SoundReply(toNode'[i].msg)
      <4>1. SUFFICES ASSUME NEW i \in DOMAIN toNode'
                     PROVE  SoundReply(toNode'[i].msg)
        OBVIOUS
      <4>2. CASE i \in DOMAIN toNode /\ toNode'[i] = toNode[i]
        BY <2>1, <4>2 DEF SoundReply, Sound, IsReply
      <4>3. CASE toNode'[i] = d
        BY <3>1, <3>2, <4>3 DEF SoundReply, Sound, IsReply
      <4>4. QED
        BY <3>3, <3>4, <4>2, <4>3
    <3>6. QED
      BY <3>3, <3>4, <3>5
  <2>4. toNode' = toNode \/ \E r \in AnswersOf(s, m) : toNode' = Append(toNode, [msg |-> r, dest |-> m.ciaddr])
    BY DEF ServerAnswer
  <2>5. QED
    BY <2>2, <2>3, <2>4
<1>6. ClientInv'
  BY <1>1, ClientUnchanged DEF DhcpInv
<1>7. QueueTypes'
  BY <1>1, <1>4, <1>5 DEF DhcpInv, QueueTypes
<1>8. QED
  BY <1>4, <1>5, <1>6, <1>7 DEF DhcpInv, QueuesSound

(* Neither a loss nor a missing option makes a message name another address. *)
LEMMA FaultStep ==
    ASSUME DhcpInv, Fault
    PROVE  DhcpInv'
<1>1. /\ UNCHANGED <<dhcpVars, nodeState, second, elapsed, observers, pc, due>>
      /\ faults' \in 0 .. Faults
  BY NodeConstants DEF Fault, loopVars, DhcpInv, QueueTypes
<1>2. ClientInv'
  BY <1>1, ClientUnchanged DEF DhcpInv
<1>3. /\ toNode \in Seq(Datagram) /\ \A i \in DOMAIN toNode : SoundReply(toNode[i].msg)
      /\ toServer \in [Server -> Seq(Message \cup {Blank, MqttData})]
      /\ \A s \in Server : \A i \in DOMAIN toServer[s] : Sound(toServer[s][i])
  BY DEF DhcpInv, QueueTypes, QueuesSound
<1>4. CASE toNode # <<>> /\ toNode' = Tail(toNode) /\ UNCHANGED toServer
  <2>1. /\ toNode' \in Seq(Datagram)
        /\ \A i \in DOMAIN toNode' : i + 1 \in DOMAIN toNode /\ toNode'[i] = toNode[i + 1]
    BY <1>3, <1>4, TailOf
  <2>2. \A i \in DOMAIN toNode' : SoundReply(toNode'[i].msg)
    BY <1>3, <2>1
  <2>3. QED
    BY <1>1, <1>2, <1>4, <2>1, <2>2 DEF DhcpInv, QueueTypes, QueuesSound
<1>5. ASSUME NEW s \in Server, toServer[s] # <<>>,
             toServer' = [toServer EXCEPT ![s] = Tail(@)], UNCHANGED toNode
      PROVE  DhcpInv'
  <2> DEFINE S == Message \cup {Blank, MqttData}
  <2>1. toServer \in [Server -> Seq(S)] /\ toServer[s] \in Seq(S)
    BY <1>3
  <2> HIDE DEF S
  <2>2. /\ Tail(toServer[s]) \in Seq(S)
        /\ \A i \in DOMAIN Tail(toServer[s]) :
              i + 1 \in DOMAIN toServer[s] /\ Tail(toServer[s])[i] = toServer[s][i + 1]
    BY <1>5, <2>1, TailOf
  <2>3. toServer'[s] = Tail(toServer[s]) /\ \A t \in Server \ {s} : toServer'[t] = toServer[t]
    BY <1>5, <2>1
  <2>4. \A t \in Server : \A i \in DOMAIN toServer'[t] : Sound(toServer'[t][i])
    <3>1. \A i \in DOMAIN toServer'[s] : Sound(toServer'[s][i])
      BY <1>3, <2>2, <2>3
    <3>2. \A t \in Server \ {s} : \A i \in DOMAIN toServer'[t] : Sound(toServer'[t][i])
      BY <1>3, <2>3
    <3>3. QED
      BY <3>1, <3>2
  <2>5. toServer' \in [Server -> Seq(S)]
    BY <1>5, <2>1, <2>2
  <2>6. QED
    BY <1>1, <1>2, <1>3, <1>5, <2>4, <2>5 DEF S, DhcpInv, QueueTypes, QueuesSound
<1>6. ASSUME NEW opts \in {"none", "server"}, toNode # <<>>,
             toNode' = [toNode EXCEPT ![1].msg.opts = opts], UNCHANGED toServer
      PROVE  DhcpInv'
  <2> DEFINE d == [toNode[1] EXCEPT !.msg.opts = opts]
  <2>1. 1 \in DOMAIN toNode /\ toNode[1] \in Datagram /\ SoundReply(toNode[1].msg)
    BY <1>3, <1>6
  <2>2. /\ d \in Datagram /\ d.msg = [toNode[1].msg EXCEPT !.opts = opts]
    BY <2>1 DEF Datagram, Message
  <2>3. SoundReply(d.msg)
    BY <2>1, <2>2 DEF SoundReply, Sound, IsReply, Datagram, Message
  <2>4. toNode' = [toNode EXCEPT ![1] = d]
    BY <1>6, <2>1
  <2> HIDE DEF d
  <2>5. /\ toNode' \in Seq(Datagram) /\ DOMAIN toNode' = DOMAIN toNode
        /\ toNode'[1] = d /\ \A i \in DOMAIN toNode \ {1} : toNode'[i] = toNode[i]
    BY <1>3, <2>1, <2>2, <2>4
  <2>6. \A i \in DOMAIN toNode' : SoundReply(toNode'[i].msg)
    BY <1>3, <2>3, <2>5
  <2>7. QED
    BY <1>1, <1>2, <1>6, <2>5, <2>6 DEF DhcpInv, QueueTypes, QueuesSound
<1>7. QED
  BY <1>4, <1>5, <1>6 DEF Fault, Lose, Incomplete

LEMMA DhcpStepInv ==
    ASSUME DhcpInv, [DhcpNext]_allVars
    PROVE  DhcpInv'
<1>1. CASE RxDatagram
  BY <1>1, RxDatagramStep
<1>2. CASE RxSegment
  BY <1>2, TcpAppcallStep DEF RxSegment, TcpAppcall, DhcpInv, QueueTypes, QueuesSound
<1>3. CASE RxNothing
  BY <1>3, ClientUnchanged DEF RxNothing, netVars, DhcpInv, QueueTypes, QueuesSound
<1>4. CASE PeriodicStage
  BY <1>4, PeriodicStageStep
<1>5. CASE ProcessStage
  <2>1. pc' = "rx" /\ UNCHANGED <<due, toServer, toNode, faults>>
    BY <1>5 DEF ProcessStage, netVars
  <2>2. ClientInv'
    BY <1>5, ProcessQueryingStep, ProcessMqttStep DEF ProcessStage, DhcpInv
  <2>3. QED
    BY <2>1, <2>2 DEF DhcpInv, QueueTypes, QueuesSound
<1>6. CASE Tick
  <2>1. due' = TRUE /\ faults' \in 0 .. Faults /\ UNCHANGED <<pc, toServer, toNode>>
    BY <1>6, NodeConstants DEF Tick, DhcpInv, QueueTypes
  <2>2. QED
    BY <1>6, <2>1, TickStep DEF DhcpInv, QueueTypes, QueuesSound
<1>7. ASSUME NEW s \in Server, ServerAnswer(s)
      PROVE  DhcpInv'
  BY <1>7, ServerAnswerStep
<1>8. CASE Fault
  BY <1>8, FaultStep
<1>9. CASE UNCHANGED allVars
  BY <1>9, ClientUnchanged DEF allVars, loopVars, netVars, DhcpInv, QueueTypes, QueuesSound
<1>10. QED
  BY <1>1, <1>2, <1>3, <1>4, <1>5, <1>6, <1>7, <1>8, <1>9 DEF DhcpNext

LEMMA DhcpInitInv == NodeInit => DhcpInv
<1> SUFFICES ASSUME NodeInit
             PROVE  DhcpInv
  OBVIOUS
<1>1. /\ SecTicks \in Nat /\ LeaseSeconds \in Nat \ {0} /\ RetryPeriod \in Nat /\ Faults \in Nat
      /\ SecTicks * LeaseSeconds \in Nat
  BY NodeConstants, DhcpConstants
<1>2. Blank # MqttData /\ Sound(Blank)
  BY DEF Blank, MqttData, Sound
<1>3. ClientTypes
  <2>1. 0 \in 0 .. SecTicks * LeaseSeconds /\ 0 \in 0 .. LeaseSeconds - 1 /\ 0 \in 0 .. SecTicks
    BY <1>1
  <2>2. RetryPeriod \in 0 .. RetryPeriod /\ 0 \in 0 .. RetryPeriod
    BY <1>1
  <2>3. DhcpTypeOK
    BY <2>2 DEF NodeInit, DhcpTypeOK, DhcpStates
  <2>4. QED
    BY <2>1, <2>2, <2>3 DEF NodeInit, ClientTypes
<1>4. Phases /\ Asking /\ BufferKept /\ LeaseCounted /\ RetryCounted
  BY <1>2 DEF NodeInit, Phases, Asking, AskedOrOverwritten, Request, BufferKept,
             LeaseCounted, RetryCounted
<1>5. QueueTypes /\ QueuesSound
  <2>1. /\ pc = "rx" /\ due = FALSE /\ faults = Faults
        /\ toServer = [s \in Server |-> <<>>] /\ toNode = <<>>
    BY DEF NodeInit
  <2>2. <<>> \in Seq(Message \cup {Blank, MqttData}) /\ <<>> \in Seq(Datagram)
    OBVIOUS
  <2>3. DOMAIN <<>> = {}
    OBVIOUS
  <2>4. QueueTypes
    <3>1. toServer \in [Server -> Seq(Message \cup {Blank, MqttData})]
      BY <2>1, <2>2
    <3>2. toNode \in Seq(Datagram)
      BY <2>1, <2>2
    <3>3. pc \in {"rx", "periodic", "process"} /\ due \in BOOLEAN
      BY <2>1
    <3>4. faults \in 0 .. Faults
      BY <1>1, <2>1
    <3>5. QED
      BY <3>1, <3>2, <3>3, <3>4 DEF QueueTypes
  <2>5. QueuesSound
    <3>1. \A s \in Server : DOMAIN toServer[s] = {}
      BY <2>1, <2>3
    <3>2. DOMAIN toNode = {}
      BY <2>1, <2>3
    <3>3. QED
      BY <3>1, <3>2 DEF QueuesSound
  <2>6. QED
    BY <2>4, <2>5
<1>6. QED
  BY <1>2, <1>3, <1>4, <1>5 DEF NodeInit, DhcpInv, ClientInv

(* The invariant that the theorems below share.                              *)
LEMMA DhcpAlways == DhcpSpec => []DhcpInv
BY DhcpInitInv, DhcpStepInv, PTL DEF DhcpSpec

-----------------------------------------------------------------------------
(* Every variable stays in its range.                                        *)
THEOREM DhcpTypes == DhcpSpec => []DhcpNodeTypeOK
<1>1. DhcpInv => DhcpNodeTypeOK
  BY DEF DhcpInv, ClientInv, ClientTypes, QueueTypes, DhcpNodeTypeOK
<1>2. QED
  BY <1>1, DhcpAlways, PTL

(* The node runs MQTT only under the address of the last offer, which it     *)
(* configures whatever dhcp_process_ack takes for an acknowledgement; it had *)
(* asked for it, or sent back a datagram that had overwritten the request.   *)
THEOREM DhcpConfigured == DhcpSpec => []RequestedUnlessOverwritten
<1>1. DhcpInv => RequestedUnlessOverwritten
  BY DEF DhcpInv, ClientInv, Phases, Asking, AskedOrOverwritten, RequestedUnlessOverwritten,
         RequestOverwritten
<1>2. QED
  BY <1>1, DhcpAlways, PTL

(* The MQTT client, on the same memory, leaves a message that waits alone.   *)
THEOREM DhcpOverlay == DhcpSpec => []OverlayRespected
<1>1. DhcpInv => OverlayRespected
  BY DEF DhcpInv, ClientInv, ClientTypes, Phases, Asking, AskedOrOverwritten, Request, BufferKept, OverlayRespected, Pending
<1>2. QED
  BY <1>1, DhcpAlways, PTL

(* No lease is given up before all of its seconds have passed.               *)
THEOREM DhcpLease == DhcpSpec => LeaseNotShort
<1> DEFINE A == nodeState = "MQTT" /\ nodeState' = "DHCP" => held >= SecTicks * LeaseSeconds
<1>1. DhcpInv /\ [DhcpNext]_allVars => [A]_allVars
  <2> SUFFICES ASSUME DhcpInv, DhcpNext, nodeState = "MQTT", nodeState' = "DHCP"
               PROVE  held >= SecTicks * LeaseSeconds
    BY DEF allVars
  <2>1. LeaseFires
    <3>1. CASE RxDatagram
      BY <3>1 DEF RxDatagram, UdpNewData, Release
    <3>2. CASE RxSegment
      BY <3>2 DEF RxSegment, TcpAppcall, Release
    <3>3. CASE PeriodicStage
      <4>1. TcpAppcall
        BY <3>3 DEF PeriodicStage, PeriodicCall
      <4>2. QED
        BY <4>1 DEF TcpAppcall, Release
    <3>4. CASE ProcessStage
      BY <3>4 DEF ProcessStage, ProcessMqtt
    <3>5. QED
      BY <3>1, <3>2, <3>3, <3>4 DEF DhcpNext, RxNothing, Tick, ServerAnswer, Fault, loopVars
  <2>2. second = 0 /\ elapsed + 1 >= LeaseSeconds
    BY <2>1 DEF LeaseFires
  <2>3. /\ SecTicks \in Nat /\ LeaseSeconds \in Nat \ {0}
        /\ elapsed \in 0 .. LeaseSeconds - 1 /\ held \in 0 .. SecTicks * LeaseSeconds
    BY NodeConstants DEF DhcpInv, ClientInv, ClientTypes
  <2>4. elapsed = LeaseSeconds - 1
    BY <2>2, <2>3
  <2>5. SecTicks * elapsed + SecTicks = SecTicks * LeaseSeconds
    BY <2>3, <2>4
  <2>6. held + second >= SecTicks * elapsed + SecTicks
    BY DEF DhcpInv, ClientInv, LeaseCounted
  <2>7. QED
    BY <2>2, <2>3, <2>5, <2>6
<1>2. QED
  BY <1>1, DhcpAlways, PTL DEF DhcpSpec, LeaseNotShort

(* No message is repeated before the retry interval is over.                 *)
THEOREM DhcpRetries == DhcpSpec => RetriesSpaced
<1> DEFINE A == /\ dhcpState \in {"DISCOVER_SENT", "REQUEST_SENT"}
                /\ dhcpState' = "DISCOVER_PENDING"
                => waited >= RetryPeriod
<1>1. DhcpInv /\ [DhcpNext]_allVars => [A]_allVars
  <2> SUFFICES ASSUME DhcpInv, DhcpNext, dhcpState \in {"DISCOVER_SENT", "REQUEST_SENT"},
                      dhcpState' = "DISCOVER_PENDING"
               PROVE  waited >= RetryPeriod
    BY DEF allVars, dhcpVars
  <2>1. DhcpDiscover
    <3>1. CASE RxDatagram
      <4>1. PICK m : UdpNewData(m)
        BY <3>1 DEF RxDatagram, dhcpVars
      <4>2. Release \/ DhcpFinish \/ DhcpMessage(m)
        BY <4>1 DEF UdpNewData, dhcpVars
      <4>3. QED
        BY <4>2 DEF Release, DhcpInit, DhcpFinish, UpdateState, DhcpMessage, ProcessOffer
    <3>2. CASE RxSegment
      BY <3>2 DEF RxSegment, TcpAppcall, Release, DhcpInit, UpdateState
    <3>3. CASE PeriodicStage
      <4>1. TcpAppcall \/ UdpPoll
        BY <3>3 DEF PeriodicStage, PeriodicCall, dhcpVars
      <4>2. QED
        BY <4>1 DEF TcpAppcall, Release, DhcpInit, UpdateState, UdpPoll, DhcpSend, DhcpFinish,
                    DhcpPollIdle, Pending, dhcpVars
    <3>4. CASE ProcessStage
      BY <3>4 DEF ProcessStage, ProcessMqtt, ProcessQuerying, DhcpProcess, DhcpRequest,
                  DhcpConfigure, DhcpWait, UpdateState
    <3>5. QED
      BY <3>1, <3>2, <3>3, <3>4
         DEF DhcpNext, RxNothing, Tick, ServerAnswer, Fault, dhcpVars
  <2>2. retry = 0
    BY <2>1 DEF DhcpDiscover, AfterRetry
  <2>3. waited + retry >= RetryPeriod /\ waited \in Nat
    BY DhcpConstants DEF DhcpInv, ClientInv, ClientTypes, RetryCounted
  <2>4. QED
    BY <2>2, <2>3, DhcpConstants
<1>2. QED
  BY <1>1, DhcpAlways, PTL DEF DhcpSpec, RetriesSpaced

=============================================================================
