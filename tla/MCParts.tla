------------------------------ MODULE MCParts ------------------------------
(***************************************************************************)
(* The modules of single parts of uIP and of the MQTT library, and the     *)
(* clock, side by side: `part' says which of them runs, the others stay as *)
(* they began.                                                             *)
(***************************************************************************)
EXTENDS ArpTable, UipNeighbor, UipFw, UipSplit, MCIpInput, CircBuffer, UmqttRx, Psock, Clock

CONSTANTS h1, h2, half, m1, m2

VARIABLE part

\* ArpTable: two hosts, an address with one zero half, and two slots.
MCHosts == {h1, h2}
MCHalf == {half}
MCMac == {m1, m2}
MCOnLink == {h1, half}
MacSymmetry == Permutations(MCMac)

\* UipNeighbor: the address "b" spells the first bytes of a link address.
MCPrefix == [l \in {"l1", "l2"} |-> IF l = "l1" THEN "b" ELSE "other"]

\* UipFw: two interfaces whose networks overlap, and three packets in a cache
\* for two, each with a time to live that lasts and one that does not.
MCWithin == [n \in {"n1", "n2"} |-> IF n = "n1" THEN {"a"} ELSE {"a", "b"}]
MCBare ==
    [id : {1, 2}, src : {"a"}, dest : {"b", "host"}, proto : {"udp"}, ttl : {1, 2}, rest : {5}, chksum : {0}]
    \cup [id : {3}, src : {"a"}, dest : {"b", "ones"}, proto : {"udp", "icmp"}, ttl : {1, 2}, rest : {7}, chksum : {0}]
MCSummed(p) == [p EXCEPT !.chksum = ChksumField(0, HeaderWords(p))]
MCArriving == {MCSummed(p) : p \in MCBare}
MCDeparting == {MCSummed([p EXCEPT !.src = "host"]) : p \in {q \in MCBare : q.id = 1 /\ q.ttl = 2 /\ q.dest = "b"}}

\* CircBuffer: calls with nothing to more than the three bytes of the buffer.
MCInputs == UNION {[1 .. n -> Byte] : n \in {0, 1, 2, 4}}
MCWants == 0 .. 4

tableVars == <<arpVars, entries, fwVars>>
inputVars == <<splitVars, ipVars>>
bufferVars == <<vars, rxbuffVars, psVars>>
partsVars == <<part, tableVars, inputVars, bufferVars, clockVars>>

PartsInit ==
    /\ part \in {"arp", "neighbor", "fw", "split", "ip", "circ", "rx", "psock", "clock"}
    /\ ArpInit /\ NbInit /\ FwInit /\ SplitInit /\ IpInit /\ Init /\ RxInit /\ PsockInit
    /\ ClockInit
    /\ part /= "split" => position = 0
    /\ part /= "circ" => \A o \in Offsets : mem[o] = 0
    /\ part /= "psock" => op = "sender"
    /\ part /= "clock" => interval = CHOOSE n \in Intervals : TRUE

PartsNext ==
    /\ UNCHANGED part
    /\ \/ part = "arp" /\ ArpNext /\ UNCHANGED <<entries, fwVars, inputVars, bufferVars, clockVars>>
       \/ part = "neighbor" /\ NbNext /\ UNCHANGED <<arpVars, fwVars, inputVars, bufferVars, clockVars>>
       \/ part = "fw" /\ FwNext /\ UNCHANGED <<arpVars, entries, inputVars, bufferVars, clockVars>>
       \/ part = "split" /\ SplitOutput /\ UNCHANGED <<tableVars, ipVars, bufferVars, clockVars>>
       \/ part = "ip" /\ IpNext /\ UNCHANGED <<tableVars, splitVars, bufferVars, clockVars>>
       \/ part = "circ" /\ Next /\ UNCHANGED <<tableVars, inputVars, rxbuffVars, psVars, clockVars>>
       \/ part = "rx" /\ RxNext /\ UNCHANGED <<tableVars, inputVars, vars, psVars, clockVars>>
       \/ part = "psock" /\ PsockNext /\ UNCHANGED <<tableVars, inputVars, vars, rxbuffVars, clockVars>>
       \/ part = "clock" /\ ClockNext /\ UNCHANGED <<tableVars, inputVars, bufferVars>>

PartsSpec == PartsInit /\ [][PartsNext]_partsVars

=============================================================================
