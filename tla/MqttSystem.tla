----------------------------- MODULE MqttSystem -----------------------------
(***************************************************************************)
(* The node of MqttNode, a network that may lose frames, and an MQTT       *)
(* broker on an ordinary TCP stack.  The node's side is the code's; the    *)
(* network and the broker are outside the repository and are modelled by   *)
(* what the code relies on: the network keeps the order of the frames of a *)
(* direction, the broker's stack acknowledges what it accepts and repeats  *)
(* what is not acknowledged, one segment at a time, and the broker answers *)
(* CONNECT and PINGREQ.                                                    *)
(***************************************************************************)
EXTENDS MqttNode

CONSTANTS
    NumPorts,    \* how many port numbers uip_connect counts through
    Piggyback,   \* whether an answer may carry the acknowledgement of its request
    Crashes,     \* whether the broker may forget its connections
    Faults       \* frames lost or late, orderly closes and crashes (model bound)

ASSUME SystemAssumption ==
    /\ Piggyback \in BOOLEAN /\ Crashes \in BOOLEAN
    /\ Faults \in Nat
    /\ Cap > 0
    /\ TcpMss \in Windows
    /\ NumPorts \in Nat \ {0, 1}
    /\ Ports = 0 .. NumPorts - 1

VARIABLES
    toNode,     \* frames on their way to the node
    srv,        \* the broker's end of the latest connection
    received,   \* observer: the segment the broker accepted last
    faults      \* faults that may still happen

systemVars == <<nodeVars, toNode, srv, received, faults>>

\* out: answers in flight; todo: answers to send; up: CONNECT was accepted.
Listening(port) ==
    [state |-> "LISTEN", port |-> port, snd |-> 0, rcv |-> 0, out |-> <<>>,
     todo |-> <<>>, up |-> FALSE]

SystemInit ==
    /\ NodeInit
    /\ lport = 0
    /\ toNode = <<>>
    /\ srv = Listening(lport)
    /\ received = [port |-> lport, seq |-> 0, data |-> <<>>]
    /\ faults = Faults

-----------------------------------------------------------------------------
(* The node in its network *)

SystemRx ==
    /\ toNode # <<>>
    /\ RxStage(Head(toNode))
    /\ toNode' = Tail(toNode)
    /\ UNCHANGED <<srv, received, faults>>

SystemRxNothing ==
    /\ toNode = <<>>
    /\ RxNothing
    /\ UNCHANGED <<toNode, srv, received, faults>>

\* uip_connect counts its port numbers up from 4096 to 31999: a connection and
\* its frames are gone when its number comes round again.
BusyPorts == {s.port : s \in {srv} \ {Listening(srv.port)}} \cup {toNode[i].port : i \in DOMAIN toNode}
                        \cup {toPeer[i].port : i \in DOMAIN toPeer}

SystemLoop ==
    /\ PeriodicStage \/ ProcessStage
    /\ lport' # lport => lport' = (lport + 1) % NumPorts /\ lport' \notin BusyPorts
    /\ UNCHANGED <<toNode, srv, received, faults>>

\* A tick is half a second: a frame that is not delivered by then is late.
Quiet == toPeer = <<>> /\ toNode = <<>> /\ srv.todo = <<>>

SystemTick ==
    /\ Tick
    /\ Quiet \/ faults > 0
    /\ faults' = IF Quiet THEN faults ELSE faults - 1
    /\ UNCHANGED <<toNode, srv, received>>

-----------------------------------------------------------------------------
(* The broker *)

\* A frame from the broker's side of connection `s'.
Seg(s, flags, seq, data) ==
    [port |-> s.port, flags |-> flags, seq |-> seq, ack |-> s.rcv, data |-> data,
     mss |-> TcpMss]

Send(frames) ==
    toNode' = IF Len(toNode) + Len(frames) <= Cap THEN toNode \o frames ELSE toNode

Known(f) == srv.state # "LISTEN" /\ srv.port = f.port

\* The segment that the broker's stack repeats until it is acknowledged.
InFlight(s) ==
    CASE s.state = "SYN_RCVD" -> <<Seg(s, {"SYN", "ACK"}, s.snd, <<>>)>>
      [] s.state = "FIN_SENT" -> <<Seg(s, {"FIN", "ACK"}, s.snd, <<>>)>>
      [] s.state = "ESTABLISHED" /\ s.out # <<>> -> <<Seg(s, {"ACK"}, s.snd, s.out)>>
      [] OTHER -> <<>>

\* The increasing sequences through all of `places'.
InOrder(places, n) ==
    {s \in UNION {[1 .. m -> places] : m \in 0 .. n} :
        /\ {s[i] : i \in DOMAIN s} = places
        /\ \A i, j \in DOMAIN s : i < j => s[i] < s[j]}

\* What the broker answers to the packets that are complete in `data': one
\* packet for each, in their order.
Replies(data) ==
    LET Complete(i) == data[i] \in {Connect[Len(Connect)], Ping[Len(Ping)]}
        Reply(u) == IF u = Ping[Len(Ping)] THEN "PINGRESP" ELSE "CONNACK_OK"
    IN  {[i \in DOMAIN s |-> Reply(data[s[i]])] :
            s \in InOrder({i \in DOMAIN data : Complete(i)}, Len(data))}

Greets(data) == \E i \in DOMAIN data : data[i] = Connect[Len(Connect)]

\* CONNECT has to come first, and once.
ProtocolError(up, data) ==
    \/ ~up /\ data[1] # Connect[1]
    \/ up /\ Greets(data)
    \/ \E i \in DOMAIN data : data[i] = Connect[1] /\ (up \/ i > 1)

BrokerSyn(f) ==
    /\ f.flags = {"SYN"}
    /\ srv' = [Listening(f.port) EXCEPT !.state = "SYN_RCVD", !.rcv = Bump(f.seq)]
    /\ Send(InFlight(srv'))
    /\ UNCHANGED received

BrokerReset(f) ==
    /\ "RST" \in f.flags
    /\ srv' = IF Known(f) THEN Listening(f.port) ELSE srv
    /\ UNCHANGED <<toNode, received>>

BrokerStray(f) ==
    /\ f.flags \cap {"SYN", "RST"} = {}
    /\ ~Known(f)
    /\ Send(<<[port |-> f.port, flags |-> {"RST"}, seq |-> f.ack, ack |-> 0,
               data |-> <<>>, mss |-> TcpMss]>>)
    /\ UNCHANGED <<srv, received>>

\* The connection after the acknowledgement that frame `f' carries.
Acked(f) ==
    IF f.ack # Bump(srv.snd) \/ InFlight(srv) = <<>> \/ srv.state = "FIN_SENT" THEN srv
    ELSE [srv EXCEPT !.snd = Bump(srv.snd), !.state = "ESTABLISHED", !.out = <<>>]

\* Data is taken once, acknowledged each time it comes, and answered; a protocol
\* error, or data for a broker that has closed, ends the connection.
BrokerData(f) == \E replies \in Replies(f.data) :
    LET s == Acked(f)
        new == f.data # <<>> /\ f.seq = s.rcv
        t == IF ~new THEN s
             ELSE [s EXCEPT !.rcv = Bump(s.rcv), !.up = @ \/ Greets(f.data),
                            !.todo = @ \o replies]
        ack == Seg(t, {"ACK"}, IF InFlight(t) = <<>> THEN t.snd ELSE Bump(t.snd), <<>>)
    IN  /\ f.flags = {"ACK"}
        /\ Known(f)
        /\ received' = IF new THEN [port |-> f.port, seq |-> f.seq, data |-> f.data] ELSE received
        /\ IF new /\ (s.state = "FIN_SENT" \/ ProtocolError(s.up, f.data))
           THEN /\ srv' = Listening(f.port)
                /\ Send(<<Seg(t, {"RST"}, t.snd, <<>>)>>)
           ELSE \/ /\ srv' = t
                   /\ Send(IF f.data = <<>> THEN <<>> ELSE <<ack>>)
                \/ /\ Piggyback
                   /\ f.data # <<>> /\ t.out = <<>> /\ t.todo # <<>>
                   /\ srv' = [t EXCEPT !.out = t.todo, !.todo = <<>>]
                   /\ Send(InFlight(srv'))

\* The answer to our FIN.
BrokerFin(f) ==
    /\ f.flags = {"FIN", "ACK"}
    /\ Known(f)
    /\ srv' = Listening(f.port)
    /\ Send(<<Seg([srv EXCEPT !.rcv = Bump(f.seq)], {"ACK"}, Bump(srv.snd), <<>>)>>)
    /\ UNCHANGED received

BrokerTake ==
    /\ toPeer # <<>>
    /\ toPeer' = Tail(toPeer)
    /\ LET f == Head(toPeer)
       IN  BrokerSyn(f) \/ BrokerReset(f) \/ BrokerStray(f) \/ BrokerData(f) \/ BrokerFin(f)
    /\ UNCHANGED <<tcpState, lport, sndNxt, rcvNxt, len, mss, nrtx, rtxTimer, rto,
                   clientVars, pc, due, inflight, faults>>

BrokerSend ==
    /\ srv.state = "ESTABLISHED" /\ srv.out = <<>> /\ srv.todo # <<>>
    /\ srv' = [srv EXCEPT !.out = srv.todo, !.todo = <<>>]
    /\ Send(InFlight(srv'))
    /\ UNCHANGED <<nodeVars, received, faults>>

BrokerRepeat ==
    /\ toPeer = <<>> /\ toNode = <<>>
    /\ InFlight(srv) # <<>>
    /\ Send(InFlight(srv))
    /\ UNCHANGED <<nodeVars, srv, received, faults>>

\* The broker shuts the connection down in an orderly way.
Shutdown ==
    /\ srv.state = "ESTABLISHED" /\ srv.out = <<>>
    /\ srv' = [srv EXCEPT !.state = "FIN_SENT", !.todo = <<>>, !.up = FALSE]
    /\ Send(InFlight(srv'))

\* It does so when a client misses its keep-alive period.  The broker's clock is
\* not modelled: this is a client that has nothing in flight, nothing to send
\* and waits for an acknowledgement that has been and gone.
BrokerExpire ==
    /\ mqttState = "CONNECTED" /\ isSending /\ ~Outstanding /\ txbuff = <<>>
    /\ Quiet
    /\ Shutdown
    /\ UNCHANGED <<nodeVars, received, faults>>

-----------------------------------------------------------------------------
(* Faults *)

Lose ==
    \/ /\ toNode # <<>>
       /\ toNode' = Tail(toNode)
       /\ UNCHANGED <<nodeVars, srv>>
    \/ /\ toPeer # <<>>
       /\ toPeer' = Tail(toPeer)
       /\ UNCHANGED <<tcpState, lport, sndNxt, rcvNxt, len, mss, nrtx, rtxTimer, rto,
                      clientVars, pc, due, inflight, toNode, srv>>

\* The broker restarts: it answers segments of old connections with a reset.
BrokerCrash ==
    /\ Crashes
    /\ srv.state # "LISTEN"
    /\ srv' = Listening(srv.port)
    /\ UNCHANGED <<nodeVars, toNode>>

Fault ==
    /\ faults > 0
    /\ faults' = faults - 1
    /\ Lose \/ (Shutdown /\ UNCHANGED nodeVars) \/ BrokerCrash
    /\ UNCHANGED received

-----------------------------------------------------------------------------

SystemNext ==
    \/ SystemRx
    \/ SystemRxNothing
    \/ SystemLoop
    \/ SystemTick
    \/ BrokerTake
    \/ BrokerSend
    \/ BrokerRepeat
    \/ BrokerExpire
    \/ Fault

SystemSpec == SystemInit /\ [][SystemNext]_systemVars

\* The main loop never stops, the clock runs, the broker works off what it is
\* sent, and its retransmission timer fires again and again.
SystemFairSpec ==
    /\ SystemSpec
    /\ WF_systemVars(SystemRx)
    /\ WF_systemVars(SystemRxNothing)
    /\ WF_systemVars(SystemLoop)
    /\ SF_systemVars(SystemTick)
    /\ WF_systemVars(BrokerTake)
    /\ SF_systemVars(BrokerSend)
    /\ SF_systemVars(BrokerRepeat)
    /\ WF_systemVars(BrokerExpire)

-----------------------------------------------------------------------------
(* Properties *)

(* The broker is the peer that MqttNode assumes: no packet reaches the       *)
(* client in a phase where it would be a protocol error.  Late and repeated  *)
(* copies are the business of uip_process, which filters them out.           *)
BrokerConforms ==
    \A seg \in {toNode[i] : i \in DOMAIN toNode \cap {1}} :
        Found(seg) /\ ~OutOfOrder(seg) => Conforming(seg)

(* A segment that uIP takes for acknowledged, and whose units the client     *)
(* therefore forgets, is the one the broker accepted last, unit for unit.    *)
AckedWasReceived ==
    [][ /\ tcpState = "ESTABLISHED" /\ Outstanding /\ tcpState' = "ESTABLISHED"
        /\ sndNxt' # sndNxt
        => received = [port |-> lport, seq |-> sndNxt, data |-> inflight] ]_systemVars

(* While the client takes itself for connected, the broker has accepted a    *)
(* CONNECT on this very connection, or has given the connection up since.    *)
ConnectedIsKnown ==
    mqttState = "CONNECTED" /\ srv.state = "ESTABLISHED" /\ srv.port = lport => srv.up

(* Once faults stop, the session between client and broker comes back and     *)
(* stays, whatever state the faults have left the two in.                     *)
Recovers ==
    <>[](mqttState = "CONNECTED" /\ srv.up /\ srv.port = lport)

(* README.md:3: "This device periodically reads data from DHT22 sensor and   *)
(* publish them to network": a measurement reaches the broker again and again.*)
Publishes ==
    []<><< /\ received' # received
           /\ \E i \in DOMAIN received'.data : received'.data[i] = Humidity[1] >>_systemVars

=============================================================================
