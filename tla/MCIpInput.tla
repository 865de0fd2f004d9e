----------------------------- MODULE MCIpInput -----------------------------
(* Instances of IpInput: four addresses, and packets that differ in one thing *)
(* from one that is taken.                                                    *)
EXTENDS IpInput, TLC

\* A packet of each protocol, and others that differ in one thing.
MCIpAddr == {"zero", "ones", "host", "peer"}
MCAddrWord == ("zero" :> 0) @@ ("ones" :> 8) @@ ("host" :> 7) @@ ("peer" :> 5)
MCHostAddrs == {"zero", "host"}
MCRemotes == {[ripaddr |-> "zero", rport |-> 0], [ripaddr |-> "peer", rport |-> 1]}
MCWhole ==
    {[vhlOk |-> TRUE, length |-> 2, fragment |-> FALSE, proto |-> proto, src |-> "peer", dest |-> "host",
      sport |-> 1, dport |-> 4, type |-> Echo, icmpchksum |-> 3, rest |-> 3, other |-> 6, chksum |-> 6]
        : proto \in {"tcp", "udp", "icmp"}}
MCPackets ==
    UNION {{p, [p EXCEPT !.vhlOk = FALSE], [p EXCEPT !.fragment = TRUE], [p EXCEPT !.dest = "peer", !.chksum = 0],
            [p EXCEPT !.src = "host", !.dest = "peer"], [p EXCEPT !.chksum = 5]}
           \cup {[p EXCEPT !.length = n] : n \in {0, 1, 3, 4}} : p \in MCWhole}
    \cup {[p EXCEPT !.dport = q] : q \in {1, 3, 5, 6}, p \in {b \in MCWhole : b.proto = "udp"}}
    \cup {[p EXCEPT !.proto = "other"] : p \in MCWhole}
    \cup {[p EXCEPT !.icmpchksum = c, !.rest = (14 - c) % 8, !.type = t]
            : c \in Word, t \in {0, Echo}, p \in {b \in MCWhole : b.proto = "icmp"}}

=============================================================================
