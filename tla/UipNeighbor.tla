---------------------------- MODULE UipNeighbor ----------------------------
(***************************************************************************)
(* The neighbor table of uIP, src/src/uip/uipneighbor.c: addresses and the *)
(* link addresses of the hosts that have them.  Compiled into the firmware *)
(* and called only by the IPv6 code, which is configured out.              *)
(***************************************************************************)
EXTENDS Integers

CONSTANTS
    Entries,        \* ENTRIES: 8
    MaxTime,        \* MAX_TIME: 128
    NbAddr, Zero,   \* addresses; what the table holds at first
    Link,           \* link addresses
    Prefix          \* the address that the first bytes of a link address spell

ASSUME NeighborAssumption ==
    /\ Entries \in Nat \ {0} /\ MaxTime \in Nat \ {0}
    /\ Zero \in NbAddr /\ Prefix \in [Link -> NbAddr]

VARIABLE entries

Index == 0 .. Entries - 1

NoLink == "none"

NbInit ==
    entries = [k \in Index |-> [ipaddr |-> Zero, addr |-> NoLink, time |-> MaxTime]]

FirstOf(S) == CHOOSE k \in S : \A j \in S : k <= j

\* Seeded bug: the comparison is the wrong way round.
ChosenYoungest(m) ==
    LET stops == {k \in Index : entries[k].ipaddr = Prefix[m]}
        young == {k \in Index : \A j \in Index : entries[j].time >= entries[k].time}
    IN IF stops /= {} THEN FirstOf(stops) ELSE FirstOf(young)

\* The loop stops at an entry that is free, or whose address is equal to the
\* first bytes of the LINK address (line 95); else it has found the oldest.
Chosen(m) ==
    LET stops == {k \in Index : entries[k].time = MaxTime \/ entries[k].ipaddr = Prefix[m]}
        aged == {k \in Index : entries[k].time > 0 /\ \A j \in Index : entries[j].time <= entries[k].time}
    IN IF stops /= {} THEN FirstOf(stops) ELSE IF aged /= {} THEN FirstOf(aged) ELSE 0

\* uip_neighbor_add
NbAdd(a, m) == entries' = [entries EXCEPT ![Chosen(m)] = [ipaddr |-> a, addr |-> m, time |-> 0]]

\* find_entry, for uip_neighbor_update and uip_neighbor_lookup: the first entry,
\* however old it is
NbEntry(a) ==
    LET held == {k \in Index : entries[k].ipaddr = a}
    IN {k \in held : \A j \in held : k <= j}

NbUpdate(a) ==
    entries' = [k \in Index |-> IF k \in NbEntry(a) THEN [entries[k] EXCEPT !.time = 0] ELSE entries[k]]

NbPeriodic ==
    entries' = [k \in Index |-> [entries[k] EXCEPT !.time = IF @ < MaxTime THEN @ + 1 ELSE @]]

NbNext ==
    \/ \E a \in NbAddr, m \in Link : NbAdd(a, m)
    \/ \E a \in NbAddr : NbUpdate(a)
    \/ NbPeriodic

NbSpec == NbInit /\ [][NbNext]_entries

-----------------------------------------------------------------------------
(* Properties *)

\* A neighbor that has not run out of time is overwritten only when no entry
\* has, and then it is one of the oldest - unless its address spells the first
\* bytes of some link address, which the search takes for the address added.
NeighborsKept ==
    [][\A k \in Index :
        /\ entries[k].time < MaxTime /\ entries'[k].addr /= entries[k].addr
        /\ \A m \in Link : entries[k].ipaddr /= Prefix[m]
        => \A j \in Index : entries[j].time <= entries[k].time]_entries

=============================================================================
