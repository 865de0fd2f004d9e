----------------------------- MODULE DhcpClient -----------------------------
(***************************************************************************)
(* The DHCP client, src/src/dhcp/dhcpclient.c, with the messages of        *)
(* src/src/dhcp/dhcp.c and the UDP connection it opens: one operator per   *)
(* outcome of dhcpclient_process and of dhcpclient_appcall.                *)
(*                                                                         *)
(* Messages are built and taken apart in one buffer, which is also where   *)
(* the MQTT client keeps its own (src/src/sharedbuf.h).  An address stands *)
(* for the address and its netmask, which are configured together.  The    *)
(* transaction number is sent and never compared, the DNS server and the   *)
(* lease time are stored and never read: they are left out.                *)
(***************************************************************************)
EXTENDS Naturals, Sequences

CONSTANTS
    Address, NoAddr,    \* addresses a server has, and 0.0.0.0
    Server, NoServer,
    RetryPeriod         \* RETRY_TIMER_PERIOD in ticks: 10

ASSUME DhcpConstants ==
    /\ NoAddr \notin Address /\ NoServer \notin Server
    /\ RetryPeriod \in Nat \ {0}

VARIABLES
    dhcpState,      \* dhcpclient_state
    shared,         \* sharedbuf: the message in it, if it is one
    clientAddr,     \* dhcpclient_data.client_address
    serverId,       \* dhcpclient_data.server_address
    retry,          \* ticks until retry_timer expires
    udpConn,        \* the UDP connection is open
    hostAddr        \* uip_hostaddr

dhcpVars == <<dhcpState, shared, clientAddr, serverId, retry, udpConn, hostAddr>>

DhcpStates ==
    {"INIT", "INITIALIZED", "DISCOVER_PENDING", "DISCOVER_SENT", "OFFER_RECEIVED",
     "REQUEST_PENDING", "REQUEST_SENT", "ACK_RECEIVED", "ADDRESS_CONFIGURED", "FINISHED"}

\* `addr' is yiaddr of a reply and the requested address of a request, `opts' how
\* far the options of a reply reach that dhcp_process_offer looks for: none, the
\* server identifier, or all four.
Message ==
    [op : {"request", "reply"}, type : {"DISCOVER", "OFFER", "REQUEST", "ACK", "NAK"},
     ciaddr : Address \cup {NoAddr}, addr : Address \cup {NoAddr},
     server : Server \cup {NoServer}, opts : {"none", "server", "all"}]

\* The buffer when it holds no message of the client: zeros, or MQTT data.
Blank == [op |-> "none"]
MqttData == [op |-> "mqtt"]

\* update_state: every change of state starts the retry interval anew.
UpdateState(s) ==
    /\ dhcpState' = s
    /\ retry' = RetryPeriod

\* dhcpclient_init
DhcpInit ==
    /\ UpdateState("INIT")
    /\ shared' = Blank
    /\ UNCHANGED <<clientAddr, serverId, udpConn, hostAddr>>

-----------------------------------------------------------------------------
(* dhcp.c *)

Discover ==
    [op |-> "request", type |-> "DISCOVER", ciaddr |-> clientAddr, addr |-> NoAddr,
     server |-> NoServer, opts |-> "none"]

Request ==
    [op |-> "request", type |-> "REQUEST", ciaddr |-> clientAddr, addr |-> clientAddr,
     server |-> serverId, opts |-> "none"]

\* All that dhcp_process_ack asks of a message.
IsReply(m) == m.op = "reply"

\* What dhcp_process_offer has stored when it returns, and its result.
ProcessOffer(m) ==
    /\ clientAddr' = IF IsReply(m) THEN m.addr ELSE clientAddr
    /\ serverId' = IF IsReply(m) /\ m.opts # "none" THEN m.server ELSE serverId
    /\ IF IsReply(m) /\ m.opts = "all"
       THEN UpdateState("OFFER_RECEIVED")
       ELSE UNCHANGED <<dhcpState, retry>>

-----------------------------------------------------------------------------
(* dhcpclient_process *)

\* Seeded bug: an unanswered request is given up but an unanswered discover is not.
AfterRetryRequestOnly ==
    IF retry = 0 /\ dhcpState = "REQUEST_SENT" THEN "INITIALIZED" ELSE dhcpState

\* _on_retry_timer, before the state is looked at.
AfterRetry ==
    IF retry = 0 /\ dhcpState \in {"DISCOVER_SENT", "REQUEST_SENT"}
    THEN "INITIALIZED" ELSE dhcpState

\* The connection can be opened once; later attempts find none free.
DhcpDiscover ==
    /\ AfterRetry \in {"INIT", "INITIALIZED"}
    /\ udpConn' = (udpConn \/ AfterRetry = "INIT")
    /\ shared' = Discover
    /\ UpdateState("DISCOVER_PENDING")
    /\ UNCHANGED <<clientAddr, serverId, hostAddr>>

DhcpRequest ==
    /\ dhcpState = "OFFER_RECEIVED"
    /\ shared' = Request
    /\ UpdateState("REQUEST_PENDING")
    /\ UNCHANGED <<clientAddr, serverId, udpConn, hostAddr>>

\* Seeded bug: the address is taken from the answer in the buffer.
DhcpConfigureFromBuffer ==
    /\ dhcpState = "ACK_RECEIVED"
    /\ hostAddr' = shared.addr
    /\ UpdateState("ADDRESS_CONFIGURED")
    /\ UNCHANGED <<shared, clientAddr, serverId, udpConn>>

DhcpConfigure ==
    /\ dhcpState = "ACK_RECEIVED"
    /\ hostAddr' = clientAddr
    /\ UpdateState("ADDRESS_CONFIGURED")
    /\ UNCHANGED <<shared, clientAddr, serverId, udpConn>>

DhcpWait ==
    /\ AfterRetry \notin {"INIT", "INITIALIZED", "OFFER_RECEIVED", "ACK_RECEIVED"}
    /\ retry' = IF retry = 0 THEN RetryPeriod ELSE retry
    /\ UNCHANGED <<dhcpState, shared, clientAddr, serverId, udpConn, hostAddr>>

DhcpProcess == DhcpDiscover \/ DhcpRequest \/ DhcpConfigure \/ DhcpWait

-----------------------------------------------------------------------------
(* dhcpclient_appcall: a poll or a datagram.  uip_close replaces the flags,  *)
(* so that the call that finishes does nothing else.                         *)

DhcpFinish ==
    /\ dhcpState = "ADDRESS_CONFIGURED"
    /\ UpdateState("FINISHED")
    /\ UNCHANGED <<shared, clientAddr, serverId, udpConn, hostAddr>>

\* _handle_message stores the datagram before it looks at the state.
DhcpMessage(m) ==
    /\ dhcpState # "ADDRESS_CONFIGURED"
    /\ shared' = m
    /\ CASE dhcpState = "DISCOVER_SENT" -> ProcessOffer(m)
         [] dhcpState = "REQUEST_SENT" ->
              /\ IF IsReply(m) THEN UpdateState("ACK_RECEIVED") ELSE UNCHANGED <<dhcpState, retry>>
              /\ UNCHANGED <<clientAddr, serverId>>
         [] OTHER -> UNCHANGED <<dhcpState, retry, clientAddr, serverId>>
    /\ UNCHANGED <<udpConn, hostAddr>>

Pending == dhcpState \in {"DISCOVER_PENDING", "REQUEST_PENDING"}

\* Seeded bug: the retry interval is that of the state before.
DhcpSendUntimed ==
    /\ Pending
    /\ dhcpState' = IF dhcpState = "DISCOVER_PENDING" THEN "DISCOVER_SENT" ELSE "REQUEST_SENT"
    /\ UNCHANGED <<retry, shared, clientAddr, serverId, udpConn, hostAddr>>

\* A poll sends the buffer as it is.
DhcpSend ==
    /\ Pending
    /\ UpdateState(IF dhcpState = "DISCOVER_PENDING" THEN "DISCOVER_SENT" ELSE "REQUEST_SENT")
    /\ UNCHANGED <<shared, clientAddr, serverId, udpConn, hostAddr>>

DhcpPollIdle ==
    /\ ~Pending /\ dhcpState # "ADDRESS_CONFIGURED"
    /\ UNCHANGED dhcpVars

DhcpTypeOK ==
    /\ dhcpState \in DhcpStates
    /\ shared \in Message \cup {Blank, MqttData}
    /\ clientAddr \in Address \cup {NoAddr}
    /\ serverId \in Server \cup {NoServer}
    /\ retry \in 0 .. RetryPeriod
    /\ udpConn \in BOOLEAN
    /\ hostAddr \in Address \cup {NoAddr}

=============================================================================
