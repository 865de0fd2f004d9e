------------------------------ MODULE ArpTable ------------------------------
(***************************************************************************)
(* The ARP module of uIP, src/src/uip/uiparp.c: a table from addresses to  *)
(* Ethernet addresses.  Frames that come in fill it, frames that go out    *)
(* are addressed from it, and a timer forgets what is old.                 *)
(*                                                                         *)
(* An address is two 16-bit halves in the code, and three tests look at    *)
(* them differently.  Here an address is NoAddr (both halves 0), one of    *)
(* Half (one half 0) or one of Hosts (neither).                            *)
(***************************************************************************)
EXTENDS Integers, FiniteSets

CONSTANTS
    TableSize,       \* UIP_ARPTAB_SIZE: 8
    MaxAge,     \* UIP_ARP_MAXAGE: 120
    ByteMod,    \* arptime and time are bytes: 256
    Hosts, Half, NoAddr,
    OnLink,     \* the addresses of the local network
    Mac,        \* Ethernet addresses of other hosts
    NoMac       \* six zero bytes

Addr == Hosts \cup Half \cup {NoAddr}

ASSUME ArpConstants ==
    /\ TableSize \in Nat \ {0}
    /\ MaxAge \in Nat \ {0}
    /\ ByteMod \in Nat
    /\ MaxAge < ByteMod
    /\ NoAddr \notin Hosts /\ Hosts \cap Half = {}
    /\ OnLink \subseteq Addr
    /\ NoMac \notin Mac

VARIABLES
    table,      \* arp_table
    arptime,
    frame,      \* what the last call left in uip_buf to be sent
    heard,      \* observer: the Ethernet address last accepted for a host
    age         \* observer: timer calls since a slot was written, up to ByteMod

arpVars == <<table, arptime, frame, heard, age>>

Slots == 0 .. TableSize - 1

Entry == [addr : Addr, mac : Mac \cup {NoMac}, time : 0 .. ByteMod - 1]

NoFrame == [kind |-> "none", to |-> NoAddr, mac |-> NoMac]

Frame == [kind : {"none", "ip", "request", "reply", "broadcast"}, to : Addr, mac : Mac \cup {NoMac}]

ArpInit ==
    /\ table = [s \in Slots |-> [addr |-> NoAddr, mac |-> NoMac, time |-> 0]]
    /\ arptime = 0
    /\ frame = NoFrame
    /\ heard = [h \in Hosts |-> NoMac]
    /\ age = [s \in Slots |-> 0]

First(S) == CHOOSE s \in S : \A t \in S : s <= t

-----------------------------------------------------------------------------
(* uip_arp_update *)

\* Entries in use that hold a: neither half of their address is 0.
Matches(a) == {s \in Slots : table[s].addr \in Hosts /\ table[s].addr = a}

Unused == {s \in Slots : table[s].addr = NoAddr}

\* An int difference of two bytes: negative once arptime has wrapped.
Elapsed(s) == arptime - table[s].time

\* Seeded bug: the comparison is the wrong way round.
OldestYoungest ==
    LET Old == {s \in Slots : Elapsed(s) > 0}
    IN  IF Old = {} THEN 0
        ELSE First({s \in Old : \A t \in Old : Elapsed(t) >= Elapsed(s)})

Oldest ==
    LET Old == {s \in Slots : Elapsed(s) > 0}
    IN  IF Old = {} THEN 0
        ELSE First({s \in Old : \A t \in Old : Elapsed(t) <= Elapsed(s)})

Victim(a) ==
    IF Matches(a) # {} THEN First(Matches(a))
    ELSE IF Unused # {} THEN First(Unused)
    ELSE Oldest

\* Seeded bug: an entry that is found keeps its time.
WriteKeepsTime(s, a, m) ==
    /\ table' = [table EXCEPT ![s] = [addr |-> a, mac |-> m,
                        time |-> IF Matches(a) # {} THEN table[s].time ELSE arptime]]
    /\ age' = [age EXCEPT ![s] = 0]

Write(s, a, m) ==
    /\ table' = [table EXCEPT ![s] = [addr |-> a, mac |-> m, time |-> arptime]]
    /\ age' = [age EXCEPT ![s] = 0]

Update(a, m) ==
    /\ Write(Victim(a), a, m)
    /\ heard' = [h \in Hosts |-> IF h = a THEN m ELSE heard[h]]

-----------------------------------------------------------------------------
(* The entry points, called by nethandler_rx, _nethandler_send_out and main *)

\* uip_arp_ipin: the sender of any IP packet, if it is on the local network.
IpIn(a, m) ==
    /\ a \in OnLink
    /\ Update(a, m)
    /\ frame' = NoFrame
    /\ UNCHANGED arptime

\* uip_arp_arpin: requests and replies to this host are accepted, from any
\* sender.  A request is answered from the frame itself, not from the table.
ArpIn(a, m) ==
    /\ Update(a, m)
    /\ frame' \in {NoFrame, [kind |-> "reply", to |-> a, mac |-> m]}
    /\ UNCHANGED arptime

\* No call sets uip_draddr, the address of the default router: it stays 0.
Router == NoAddr

NextHop(dest) == IF dest \in OnLink THEN dest ELSE Router

\* Seeded bug: a table without the address still gives its first slot.
FoundAlways(hop) ==
    IF \E s \in Slots : table[s].addr = hop
    THEN {s \in Slots : table[s].addr = hop} ELSE {0}

\* Unlike uip_arp_update, uip_arp_out also finds unused entries.
Found(hop) == {s \in Slots : table[s].addr = hop}

\* uip_arp_out: the frame, or a request in its place.
Out(dest) ==
    LET hop == NextHop(dest)
    IN  /\ frame' = IF Found(hop) # {}
                    THEN [kind |-> "ip", to |-> dest, mac |-> table[First(Found(hop))].mac]
                    ELSE [kind |-> "request", to |-> hop, mac |-> NoMac]
        /\ UNCHANGED <<table, arptime, heard, age>>

\* The local broadcast address needs no entry.
OutBroadcast ==
    /\ frame' = [kind |-> "broadcast", to |-> NoAddr, mac |-> NoMac]
    /\ UNCHANGED <<table, arptime, heard, age>>

\* Seeded bug: the limit itself does not count.
ExpiredLate(s, now) == table[s].addr # NoAddr /\ now - table[s].time > MaxAge

\* The timer's test: either half of the address is set.
Expired(s, now) == table[s].addr # NoAddr /\ now - table[s].time >= MaxAge

NextTime == (arptime + 1) % ByteMod

\* uip_arp_timer, every ten seconds.  The rest of a forgotten entry stays.
Timer ==
    LET now == NextTime
    IN  /\ arptime' = now
        /\ table' = [s \in Slots |->
                        IF Expired(s, now) THEN [table[s] EXCEPT !.addr = NoAddr] ELSE table[s]]
        /\ age' = [s \in Slots |-> IF age[s] < ByteMod THEN age[s] + 1 ELSE age[s]]
        /\ frame' = NoFrame
        /\ UNCHANGED heard

ArpNext ==
    \/ \E a \in Addr, m \in Mac : IpIn(a, m) \/ ArpIn(a, m)
    \/ \E dest \in Addr : Out(dest)
    \/ OutBroadcast
    \/ Timer

ArpSpec == ArpInit /\ [][ArpNext]_arpVars

-----------------------------------------------------------------------------
(* Properties *)

(* Every variable stays in its range.                                        *)
ArpTypeOK ==
    /\ table \in [Slots -> Entry]
    /\ arptime \in 0 .. ByteMod - 1
    /\ frame \in Frame
    /\ heard \in [Hosts -> Mac \cup {NoMac}]
    /\ age \in [Slots -> 0 .. ByteMod]

(* No host has two entries: uip_arp_update stops at the first entry it       *)
(* finds, so a second one would keep an address nobody refreshes.            *)
NoDuplicates ==
    \A s, t \in Slots :
        table[s].addr = table[t].addr /\ table[s].addr \in Hosts => s = t

(* Whatever is inserted, overwritten, forgotten and inserted again, a host's *)
(* entry holds the Ethernet address last heard from it.                      *)
FollowsHost ==
    \A s \in Slots : table[s].addr \in Hosts => table[s].mac = heard[table[s].addr]

(* An IP frame to a host on the local network goes to the address last heard *)
(* from that host; for want of one a request goes out instead.               *)
FramesReachHost ==
    [][frame'.kind = "ip" /\ frame'.to \in Hosts \cap OnLink =>
        frame'.mac = heard[frame'.to] /\ frame'.mac # NoMac]_frame

(* The timer forgets no entry refreshed within the last MaxAge of its calls, *)
(* although it compares bytes of a counter that wraps.                       *)
NeverTooEarly ==
    [][\A s \in Slots :
        arptime' # arptime /\ table'[s] # table[s] => age[s] + 1 >= MaxAge]_arpVars

(* The other half: an entry that is not refreshed is forgotten by the MaxAge- *)
(* th call - unless the counter wraps before.  The difference of two bytes is *)
(* an int and negative then, so that such an entry outlives the limit; this   *)
(* is as much as the code keeps of the limit that uipopt.h promises.          *)
ForgottenInTime ==
    \A s \in Slots :
        table[s].addr # NoAddr /\ table[s].time + MaxAge < ByteMod => age[s] < MaxAge

(* When the table is full, of the entries written since the counter last     *)
(* wrapped the oldest is the one that is thrown away.  One written before    *)
(* the wrap looks younger than all of them.                                  *)
EvictsOldest ==
    [][\A s, t \in Slots :
        /\ table[s].addr # NoAddr
        /\ table'[s].addr \notin {NoAddr, table[s].addr}
        /\ age[s] <= arptime /\ age[t] <= arptime
        => age[t] <= age[s]]_arpVars

=============================================================================
