----------------------------- MODULE TableProofs -----------------------------
(* The two tables of neighbors, for every size, age limit, counter width and *)
(* set of addresses: the ARP table and the neighbor table of uIP.            *)
EXTENDS ArpTable, UipNeighbor, FiniteSetTheorems, WellFoundedInduction, TLAPS

(* A search that stops at the first index of a kind finds one of that kind.  *)
LEMMA FirstFound ==
    ASSUME NEW S, S \subseteq Nat, S /= {}
    PROVE  FirstOf(S) \in S /\ \A j \in S : FirstOf(S) <= j
<1>1. PICK k \in S : \A j \in S : ~(<<j, k>> \in OpToRel(<, Nat))
  BY NatLessThanWellFounded, WFMin
<1>2. \A j \in S : k <= j
  <2> DEFINE R == OpToRel(<, Nat)
  <2>1. R = {ss \in Nat \X Nat : ss[1] < ss[2]}
    BY DEF OpToRel
  <2>2. \A j \in S : ~(<<j, k>> \in R)
    BY <1>1
  <2> HIDE DEF R
  <2> TAKE j \in S
  <2>3. ~(j < k)
    BY <2>1, <2>2
  <2> QED
    BY <2>3
<1> QED
  BY <1>2 DEF FirstOf

(* The same of the walks over the ARP table.                                 *)
LEMMA FirstExists ==
    ASSUME NEW S \in SUBSET Nat, S # {}
    PROVE  First(S) \in S /\ \A t \in S : First(S) <= t
<1>1. First(S) = FirstOf(S)
  BY DEF First, FirstOf
<1>2. QED
  BY <1>1, FirstFound

(* The slot uip_arp_update evicts: no positive difference exceeds its own.   *)
LEMMA OldestIsOld ==
    ASSUME ArpTypeOK
    PROVE  /\ Oldest \in Slots
           /\ \A t \in Slots : Elapsed(t) <= 0 \/ Elapsed(t) <= Elapsed(Oldest)
<1> DEFINE Old == {s \in Slots : Elapsed(s) > 0}
           Rest == {ByteMod - Elapsed(s) : s \in Old}
           Top == {s \in Old : \A t \in Old : Elapsed(t) <= Elapsed(s)}
<1>1. Slots \subseteq Nat /\ 0 \in Slots
  BY ArpConstants DEF Slots
<1>2. \A s \in Slots : Elapsed(s) \in Int /\ Elapsed(s) < ByteMod
  BY ArpConstants DEF ArpTypeOK, Entry, Elapsed
<1>3. CASE Old = {}
  BY <1>1, <1>2, <1>3 DEF Oldest
<1>4. CASE Old # {}
  <2>1. Rest \in SUBSET Nat /\ Rest # {}
    BY <1>2, <1>4, ArpConstants
  <2>2. First(Rest) \in Rest /\ \A r \in Rest : First(Rest) <= r
    <3> HIDE DEF Rest
    <3>1. QED
      BY <2>1, FirstExists
  <2>3. PICK s \in Old : First(Rest) = ByteMod - Elapsed(s)
    BY <2>2
  <2>4. \A t \in Old : Elapsed(t) <= Elapsed(s)
    <3>1. \A t \in Old : ByteMod - Elapsed(s) <= ByteMod - Elapsed(t)
      BY <2>2, <2>3
    <3>2. QED
      BY <1>2, <3>1, ArpConstants
  <2>5. Top # {} /\ Top \in SUBSET Nat
    BY <1>1, <2>4
  <2>6. First(Top) \in Top
    <3> HIDE DEF Top
    <3>1. QED
      BY <2>5, FirstExists
  <2>7. Oldest = First(Top)
    BY <1>4 DEF Oldest
  <2>8. Oldest \in Slots /\ \A t \in Old : Elapsed(t) <= Elapsed(Oldest)
    BY <2>6, <2>7
  <2>9. QED
    BY <1>2, <2>8
<1>5. QED
  BY <1>3, <1>4

(* uip_arp_update always finds a slot, and one that holds the sender's       *)
(* address if there is any.                                                  *)
LEMMA VictimExists ==
    ASSUME ArpTypeOK, NEW a
    PROVE  /\ Victim(a) \in Slots
           /\ Matches(a) # {} => Victim(a) \in Matches(a)
<1>1. Slots \subseteq Nat /\ 0 \in Slots
  BY ArpConstants DEF Slots
<1>2. CASE Matches(a) # {}
  <2>1. First(Matches(a)) \in Matches(a) /\ Matches(a) \subseteq Slots
    BY <1>1, <1>2, FirstExists DEF Matches
  <2>2. QED
    BY <1>2, <2>1 DEF Victim
<1>3. CASE Matches(a) = {} /\ Unused # {}
  <2>1. First(Unused) \in Unused /\ Unused \subseteq Slots
    BY <1>1, <1>3, FirstExists DEF Unused
  <2>2. QED
    BY <1>3, <2>1 DEF Victim
<1>4. CASE Matches(a) = {} /\ Unused = {}
  BY <1>4, OldestIsOld DEF Victim
<1>5. QED
  BY <1>2, <1>3, <1>4

-----------------------------------------------------------------------------
(* The bytes of a slot tell its age up to one turn of the counter.           *)
AgeInBytes ==
    \A s \in Slots :
        age[s] < ByteMod => arptime - table[s].time \in {age[s], age[s] - ByteMod}

(* A host's entry was written from a frame.                                  *)
HostsHaveMac == \A s \in Slots : table[s].addr \in Hosts => table[s].mac # NoMac

ArpInv ==
    ArpTypeOK /\ NoDuplicates /\ FollowsHost /\ HostsHaveMac /\ AgeInBytes /\ ForgottenInTime

(* An update of the table preserves the invariant.                           *)
LEMMA UpdateStep ==
    ASSUME ArpInv, NEW a \in Addr, NEW m \in Mac,
           Update(a, m), frame' \in Frame, arptime' = arptime
    PROVE  ArpInv'
<1> DEFINE v == Victim(a)
<1>1. v \in Slots /\ (Matches(a) # {} => v \in Matches(a))
  BY VictimExists DEF ArpInv
<1>2. /\ table' = [table EXCEPT ![v] = [addr |-> a, mac |-> m, time |-> arptime]]
      /\ age' = [age EXCEPT ![v] = 0]
      /\ heard' = [h \in Hosts |-> IF h = a THEN m ELSE heard[h]]
  BY DEF Update, Write
<1> HIDE DEF v
<1>3. ArpTypeOK'
  <2>1. [addr |-> a, mac |-> m, time |-> arptime] \in Entry
    BY DEF ArpInv, ArpTypeOK, Entry
  <2>2. QED
    BY <1>1, <1>2, <2>1, ArpConstants DEF ArpInv, ArpTypeOK
<1>4. \A s \in Slots : s # v /\ a \in Hosts => table[s].addr # a
  <2> SUFFICES ASSUME NEW s \in Slots, a \in Hosts, table[s].addr = a
               PROVE  s = v
    OBVIOUS
  <2>1. s \in Matches(a)
    BY DEF Matches
  <2>2. v \in Matches(a)
    BY <1>1, <2>1
  <2>3. QED
    BY <2>1, <2>2 DEF Matches, ArpInv, NoDuplicates
<1>5. /\ table'[v].addr = a /\ table'[v].mac = m /\ table'[v].time = arptime
      /\ age'[v] = 0
      /\ \A s \in Slots \ {v} : table'[s] = table[s] /\ age'[s] = age[s]
  BY <1>1, <1>2 DEF ArpInv, ArpTypeOK
<1>6. NoDuplicates'
  BY <1>4, <1>5 DEF NoDuplicates, ArpInv
<1>7. FollowsHost'
  <2> SUFFICES ASSUME NEW s \in Slots, table'[s].addr \in Hosts
               PROVE  table'[s].mac = heard'[table'[s].addr]
    BY DEF FollowsHost
  <2>1. CASE s = v
    BY <1>2, <1>5, <2>1 DEF ArpInv, ArpTypeOK
  <2>2. CASE s # v
    <3>1. table[s].addr # a /\ table[s].addr \in Hosts
      BY <1>4, <1>5, <2>2 DEF ArpInv, ArpTypeOK, Entry
    <3>2. heard'[table[s].addr] = heard[table[s].addr]
      BY <1>2, <3>1 DEF ArpInv, ArpTypeOK
    <3>3. QED
      BY <1>5, <2>2, <3>2 DEF ArpInv, FollowsHost
  <2>3. QED
    BY <2>1, <2>2
<1>8. AgeInBytes'
  <2>1. arptime \in Int /\ arptime - arptime = 0
    BY DEF ArpInv, ArpTypeOK
  <2>2. QED
    BY <1>5, <2>1 DEF ArpInv, AgeInBytes
<1>9. HostsHaveMac'
  <2>1. m # NoMac
    BY ArpConstants
  <2>2. QED
    BY <1>5, <2>1 DEF ArpInv, HostsHaveMac
<1>10. ForgottenInTime'
  BY <1>5, ArpConstants DEF ArpInv, ForgottenInTime
<1>11. QED
  BY <1>3, <1>6, <1>7, <1>8, <1>9, <1>10 DEF ArpInv

(* What the timer does to one slot and its age.                              *)
LEMMA TimerSlot ==
    ASSUME ArpInv, Timer
    PROVE  /\ arptime' \in 0 .. ByteMod - 1
           /\ arptime' = arptime + 1 \/ (arptime' = 0 /\ arptime = ByteMod - 1)
           /\ \A s \in Slots :
                /\ table'[s] \in Entry
                /\ table'[s].mac = table[s].mac /\ table'[s].time = table[s].time
                /\ table'[s].addr \in {table[s].addr, NoAddr}
                /\ table'[s] # table[s] => arptime' - table[s].time >= MaxAge
                /\ table'[s].addr # NoAddr => ~(arptime' - table[s].time >= MaxAge)
                /\ age'[s] = IF age[s] < ByteMod THEN age[s] + 1 ELSE age[s]
<1>1. arptime' = (arptime + 1) % ByteMod
  BY DEF Timer, NextTime
<1>2. arptime \in 0 .. ByteMod - 1 /\ ByteMod \in Nat \ {0}
  BY ArpConstants DEF ArpInv, ArpTypeOK
<1>3. arptime + 1 < ByteMod => arptime' = arptime + 1
  BY <1>1, <1>2
<1>4. arptime + 1 = ByteMod => arptime' = 0
  BY <1>1, <1>2
<1>5. /\ arptime' \in 0 .. ByteMod - 1
      /\ arptime' = arptime + 1 \/ (arptime' = 0 /\ arptime = ByteMod - 1)
  BY <1>2, <1>3, <1>4
<1>6. ASSUME NEW s \in Slots
      PROVE  /\ table'[s] \in Entry
             /\ table'[s].mac = table[s].mac /\ table'[s].time = table[s].time
             /\ table'[s].addr \in {table[s].addr, NoAddr}
             /\ table'[s] # table[s] => arptime' - table[s].time >= MaxAge
             /\ table'[s].addr # NoAddr => ~(arptime' - table[s].time >= MaxAge)
             /\ age'[s] = IF age[s] < ByteMod THEN age[s] + 1 ELSE age[s]
  <2>1. table[s] \in Entry
    BY DEF ArpInv, ArpTypeOK
  <2>2. table'[s] = IF Expired(s, arptime') THEN [table[s] EXCEPT !.addr = NoAddr]
                    ELSE table[s]
    BY DEF Timer
  <2>3. QED
    BY <2>1, <2>2 DEF Entry, Addr, Timer, Expired
<1>7. QED
  BY <1>2, <1>5, <1>6

LEMMA TimerStep ==
    ASSUME ArpInv, Timer
    PROVE  ArpInv'
<1>1. ArpTypeOK'
  <2>1. \A s \in Slots : age'[s] \in 0 .. ByteMod
    BY TimerSlot, ArpConstants DEF ArpInv, ArpTypeOK
  <2>2. table' = [s \in Slots |-> table'[s]] /\ age' = [s \in Slots |-> age'[s]]
    BY DEF Timer
  <2>3. table' \in [Slots -> Entry] /\ age' \in [Slots -> 0 .. ByteMod]
    BY <2>1, <2>2, TimerSlot
  <2>4. frame' \in Frame /\ heard' = heard
    BY DEF Timer, NoFrame, Frame, Addr
  <2>5. QED
    BY <2>3, <2>4, TimerSlot DEF ArpInv, ArpTypeOK
<1>2. \A s \in Slots : table'[s].addr \in Hosts => table'[s].addr = table[s].addr
  BY TimerSlot, ArpConstants
<1>3. NoDuplicates' /\ FollowsHost' /\ HostsHaveMac'
  <2>1. heard' = heard /\ \A s \in Slots : table'[s].mac = table[s].mac
    BY TimerSlot DEF Timer
  <2>2. QED
    BY <1>2, <2>1 DEF ArpInv, NoDuplicates, FollowsHost, HostsHaveMac
<1>4. AgeInBytes'
  <2> SUFFICES ASSUME NEW s \in Slots, age'[s] < ByteMod
               PROVE  arptime' - table'[s].time \in {age'[s], age'[s] - ByteMod}
    BY DEF AgeInBytes
  <2>1. /\ age[s] \in 0 .. ByteMod /\ arptime \in 0 .. ByteMod - 1
        /\ table[s].time \in 0 .. ByteMod - 1
    BY DEF ArpInv, ArpTypeOK, Entry
  <2>2. age[s] < ByteMod /\ age'[s] = age[s] + 1 /\ table'[s].time = table[s].time
    BY <2>1, TimerSlot, ArpConstants
  <2>3. arptime - table[s].time = age[s] \/ arptime - table[s].time = age[s] - ByteMod
    BY <2>2 DEF ArpInv, AgeInBytes
  <2>4. arptime' = arptime + 1 \/ (arptime' = 0 /\ arptime = ByteMod - 1)
    BY TimerSlot
  <2>5. QED
    BY <2>1, <2>2, <2>3, <2>4, ArpConstants
<1>5. ForgottenInTime'
  <2> SUFFICES ASSUME NEW s \in Slots, table'[s].addr # NoAddr,
                      table'[s].time + MaxAge < ByteMod
               PROVE  age'[s] < MaxAge
    BY DEF ForgottenInTime
  <2>1. /\ age[s] \in 0 .. ByteMod /\ arptime \in 0 .. ByteMod - 1
        /\ table[s].time \in 0 .. ByteMod - 1
    BY DEF ArpInv, ArpTypeOK, Entry
  <2>2. table[s].addr # NoAddr /\ table'[s].time = table[s].time
    BY TimerSlot
  <2>3. age[s] < MaxAge
    BY <2>2 DEF ArpInv, ForgottenInTime
  <2>4. age'[s] = age[s] + 1
    BY <2>1, <2>3, TimerSlot, ArpConstants
  <2>5. arptime - table[s].time = age[s]
    <3>1. arptime - table[s].time \in {age[s], age[s] - ByteMod}
      BY <2>1, <2>3, ArpConstants DEF ArpInv, AgeInBytes
    <3>2. QED
      BY <2>1, <2>2, <2>3, <3>1, ArpConstants
  <2>6. QED
    BY <2>1, <2>2, <2>3, <2>4, <2>5, TimerSlot, ArpConstants
<1>6. QED
  BY <1>1, <1>3, <1>4, <1>5 DEF ArpInv

(* uip_arp_out chooses a slot that holds the address it looks for.           *)
LEMMA LookupFinds ==
    ASSUME ArpTypeOK, NEW hop, Found(hop) # {}
    PROVE  First(Found(hop)) \in Slots /\ table[First(Found(hop))].addr = hop
<1>1. Found(hop) \in SUBSET Nat /\ Found(hop) \subseteq Slots
  BY DEF Found, Slots
<1>2. First(Found(hop)) \in Found(hop)
  BY <1>1, FirstExists
<1>3. QED
  BY <1>1, <1>2 DEF Found

LEMMA OutStep ==
    ASSUME ArpInv, NEW dest \in Addr, Out(dest)
    PROVE  ArpInv'
<1>1. NextHop(dest) \in Addr
  BY DEF NextHop, Router, Addr
<1>2. frame' \in Frame
  <2>1. CASE Found(NextHop(dest)) # {}
    <3>1. table[First(Found(NextHop(dest)))] \in Entry
      BY <2>1, LookupFinds DEF ArpInv, ArpTypeOK
    <3>2. QED
      BY <2>1, <3>1 DEF Out, Frame, Entry
  <2>2. CASE Found(NextHop(dest)) = {}
    BY <1>1, <2>2 DEF Out, Frame
  <2>3. QED
    BY <2>1, <2>2
<1>3. QED
  BY <1>2 DEF Out, ArpInv, ArpTypeOK, NoDuplicates, FollowsHost, HostsHaveMac,
              AgeInBytes, ForgottenInTime

(* The invariant that the theorems below share.                              *)
LEMMA ArpAlways == ArpSpec => []ArpInv
<1>1. ArpInit => ArpInv
  BY ArpConstants DEF ArpInit, ArpInv, ArpTypeOK, NoDuplicates, FollowsHost,
       HostsHaveMac, AgeInBytes, ForgottenInTime, NoFrame, Frame, Entry, Addr
<1>2. ArpInv /\ [ArpNext]_arpVars => ArpInv'
  <2> SUFFICES ASSUME ArpInv, [ArpNext]_arpVars
               PROVE  ArpInv'
    OBVIOUS
  <2>1. ASSUME NEW a \in Addr, NEW m \in Mac, IpIn(a, m)
        PROVE  ArpInv'
    BY <2>1, UpdateStep DEF IpIn, NoFrame, Frame, Addr
  <2>2. ASSUME NEW a \in Addr, NEW m \in Mac, ArpIn(a, m)
        PROVE  ArpInv'
    BY <2>2, UpdateStep DEF ArpIn, NoFrame, Frame, Addr
  <2>3. ASSUME NEW dest \in Addr, Out(dest)
        PROVE  ArpInv'
    BY <2>3, OutStep
  <2>4. CASE Timer
    BY <2>4, TimerStep
  <2>5. CASE OutBroadcast
    BY <2>5 DEF OutBroadcast, Frame, Addr, ArpInv, ArpTypeOK, NoDuplicates, FollowsHost,
                HostsHaveMac, AgeInBytes, ForgottenInTime
  <2>6. CASE UNCHANGED arpVars
    BY <2>6 DEF arpVars, ArpInv, ArpTypeOK, NoDuplicates, FollowsHost, HostsHaveMac,
                AgeInBytes, ForgottenInTime
  <2>7. QED
    BY <2>1, <2>2, <2>3, <2>4, <2>5, <2>6 DEF ArpNext
<1>3. QED
  BY <1>1, <1>2, PTL DEF ArpSpec

(* In every reachable state of the table the fields are in range, no host    *)
(* has two entries, an entry holds the Ethernet address last heard, and what *)
(* was written early enough before a wrap is forgotten in time.              *)
THEOREM ArpInvariant ==
    ArpSpec => [](ArpTypeOK /\ NoDuplicates /\ FollowsHost /\ ForgottenInTime)
<1>1. ArpInv => ArpTypeOK /\ NoDuplicates /\ FollowsHost /\ ForgottenInTime
  BY DEF ArpInv
<1>2. QED
  BY <1>1, ArpAlways, PTL

(* An IP frame to a host of the local network goes where that host was last  *)
(* heard: uip_arp_out reads the table that uip_arp_update keeps.             *)
THEOREM ArpFrames == ArpSpec => FramesReachHost
<1> DEFINE A == frame'.kind = "ip" /\ frame'.to \in Hosts \cap OnLink =>
                  frame'.mac = heard[frame'.to] /\ frame'.mac # NoMac
<1>1. ArpInv /\ [ArpNext]_arpVars => [A]_frame
  <2> SUFFICES ASSUME ArpInv, ArpNext, frame' # frame, frame'.kind = "ip",
                      frame'.to \in Hosts \cap OnLink
               PROVE  frame'.mac = heard[frame'.to] /\ frame'.mac # NoMac
    BY DEF arpVars
  <2>1. PICK dest \in Addr : Out(dest)
    BY DEF ArpNext, IpIn, ArpIn, Timer, OutBroadcast, NoFrame
  <2> DEFINE s == First(Found(NextHop(dest)))
  <2>2. Found(NextHop(dest)) # {} /\ frame' = [kind |-> "ip", to |-> dest, mac |-> table[s].mac]
    BY <2>1 DEF Out
  <2>3. s \in Slots /\ table[s].addr = dest
    BY <2>2, LookupFinds DEF ArpInv, NextHop
  <2>4. QED
    BY <2>2, <2>3 DEF ArpInv, FollowsHost, HostsHaveMac
<1>2. QED
  BY <1>1, ArpAlways, PTL DEF ArpSpec, FramesReachHost

(* The timer forgets no entry before its age, wherever the byte counter is.  *)
THEOREM ArpNotTooEarly == ArpSpec => NeverTooEarly
<1> DEFINE A == \A s \in Slots :
                  arptime' # arptime /\ table'[s] # table[s] => age[s] + 1 >= MaxAge
<1>1. ArpInv /\ [ArpNext]_arpVars => [A]_arpVars
  <2> SUFFICES ASSUME ArpInv, ArpNext, NEW s \in Slots, arptime' # arptime,
                      table'[s] # table[s]
               PROVE  age[s] + 1 >= MaxAge
    OBVIOUS
  <2>1. Timer
    BY DEF ArpNext, IpIn, ArpIn, Out, OutBroadcast
  <2>2. arptime' - table[s].time >= MaxAge
    BY <2>1, TimerSlot
  <2>3. arptime' = arptime + 1 \/ arptime' = 0
    BY <2>1, TimerSlot
  <2>4. /\ age[s] \in 0 .. ByteMod /\ arptime \in 0 .. ByteMod - 1
        /\ table[s].time \in 0 .. ByteMod - 1
    BY DEF ArpInv, ArpTypeOK, Entry
  <2>5. age[s] < ByteMod =>
          arptime - table[s].time = age[s] \/ arptime - table[s].time = age[s] - ByteMod
    BY DEF ArpInv, AgeInBytes
  <2>6. QED
    BY <2>2, <2>3, <2>4, <2>5, ArpConstants
<1>2. QED
  BY <1>1, ArpAlways, PTL DEF ArpSpec, NeverTooEarly

(* A full table loses the oldest of the entries written since the wrap.      *)
THEOREM ArpEvicts == ArpSpec => EvictsOldest
<1> DEFINE A == \A s, t \in Slots :
                  /\ table[s].addr # NoAddr
                  /\ table'[s].addr \notin {NoAddr, table[s].addr}
                  /\ age[s] <= arptime /\ age[t] <= arptime
                  => age[t] <= age[s]
<1>1. ArpInv /\ [ArpNext]_arpVars => [A]_arpVars
  <2> SUFFICES ASSUME ArpInv, ArpNext, NEW s \in Slots, NEW t \in Slots,
                      table[s].addr # NoAddr,
                      table'[s].addr \notin {NoAddr, table[s].addr},
                      age[s] <= arptime, age[t] <= arptime
               PROVE  age[t] <= age[s]
    OBVIOUS
  <2>1. ~Timer
    BY TimerSlot
  <2>2. PICK a \in Addr, m \in Mac : Update(a, m)
    BY <2>1 DEF ArpNext, IpIn, ArpIn, Out, OutBroadcast
  <2>3. s = Victim(a) /\ table'[s].addr = a
    BY <2>2, VictimExists DEF Update, Write, ArpInv, ArpTypeOK
  <2>4. Matches(a) = {} /\ Unused = {}
    <3>1. Matches(a) = {}
      BY <2>3, VictimExists DEF Matches, ArpInv
    <3>2. Unused # {} => First(Unused) \in Unused
      <4>1. Unused \in SUBSET Nat
        BY ArpConstants DEF Unused, Slots
      <4>2. QED
        BY <4>1, FirstExists
    <3>3. QED
      BY <2>3, <3>1, <3>2 DEF Victim, Unused
  <2>5. s = Oldest
    BY <2>3, <2>4 DEF Victim
  <2>6. \A r \in Slots : age[r] <= arptime => Elapsed(r) = age[r]
    <3> SUFFICES ASSUME NEW r \in Slots, age[r] <= arptime
                 PROVE  Elapsed(r) = age[r]
      OBVIOUS
    <3>1. /\ age[r] \in 0 .. ByteMod /\ arptime \in 0 .. ByteMod - 1
          /\ table[r].time \in 0 .. ByteMod - 1
      BY DEF ArpInv, ArpTypeOK, Entry
    <3>2. age[r] < ByteMod
      BY <3>1, ArpConstants
    <3>3. arptime - table[r].time \in {age[r], age[r] - ByteMod}
      BY <3>2 DEF ArpInv, AgeInBytes
    <3>4. QED
      BY <3>1, <3>3, ArpConstants DEF Elapsed
  <2>7. age[t] <= 0 \/ age[t] <= age[s]
    BY <2>5, <2>6, OldestIsOld DEF ArpInv
  <2>8. age[s] \in 0 .. ByteMod /\ age[t] \in 0 .. ByteMod
    BY DEF ArpInv, ArpTypeOK
  <2>9. QED
    BY <2>7, <2>8, ArpConstants
<1>2. QED
  BY <1>1, ArpAlways, PTL DEF ArpSpec, EvictsOldest

-----------------------------------------------------------------------------
(* The neighbor table *)

Neighbor == [ipaddr : NbAddr, addr : Link \cup {NoLink}, time : 0 .. MaxTime]

NbTableInv == entries \in [Index -> Neighbor]

LEMMA NbInitInv == NbInit => NbTableInv
BY NeighborAssumption DEF NbInit, NbTableInv, Neighbor, NeighborAssumption

LEMMA NbNextInv ==
    ASSUME NbTableInv, [NbNext]_entries
    PROVE  NbTableInv'
<1> USE NeighborAssumption DEF NeighborAssumption
<1>1. ASSUME NEW a \in NbAddr, NEW m \in Link, NbAdd(a, m)
      PROVE  NbTableInv'
  <2>1. [ipaddr |-> a, addr |-> m, time |-> 0] \in Neighbor
    BY <1>1 DEF Neighbor
  <2>2. entries' \in [Index -> Neighbor]
    BY <1>1, <2>1 DEF NbAdd, NbTableInv
  <2> QED
    BY <2>2 DEF NbTableInv
<1>2. ASSUME NEW a \in NbAddr, NbUpdate(a)
      PROVE  NbTableInv'
  BY <1>2 DEF NbTableInv, Neighbor, NbUpdate
<1>3. CASE NbPeriodic
  <2>1. ASSUME NEW k \in Index
        PROVE  entries'[k] \in Neighbor
    <3>1. entries[k] \in Neighbor
      BY DEF NbTableInv
    <3>2. entries'[k] = [entries[k] EXCEPT !.time = IF entries[k].time < MaxTime
                                                    THEN entries[k].time + 1 ELSE entries[k].time]
      BY <1>3 DEF NbPeriodic
    <3> QED
      BY <3>1, <3>2 DEF Neighbor
  <2>2. entries' \in [Index -> Neighbor]
    <3>1. entries' = [k \in Index |-> entries'[k]]
      BY <1>3 DEF NbPeriodic
    <3> QED
      BY <2>1, <3>1
  <2> QED
    BY <2>2 DEF NbTableInv
<1>4. CASE UNCHANGED entries
  BY <1>4 DEF NbTableInv
<1> QED
  BY <1>1, <1>2, <1>3, <1>4 DEF NbNext

(* The entry the search ends at, if it is neither free nor stopped at by     *)
(* mistake, is one of the oldest.                                            *)
LEMMA ChosenIsOldest ==
    ASSUME NbTableInv, NEW m \in Link,
           entries[Chosen(m)].time < MaxTime, entries[Chosen(m)].ipaddr /= Prefix[m],
           NEW j \in Index
    PROVE  entries[j].time <= entries[Chosen(m)].time
<1> USE NeighborAssumption
<1> DEFINE stops == {k \in Index : entries[k].time = MaxTime \/ entries[k].ipaddr = Prefix[m]}
           aged == {k \in Index : entries[k].time > 0 /\ \A i \in Index : entries[i].time <= entries[k].time}
<1>1. Chosen(m) = IF stops /= {} THEN FirstOf(stops) ELSE IF aged /= {} THEN FirstOf(aged) ELSE 0
  BY DEF Chosen
<1>2. Index \subseteq Nat /\ 0 \in Index /\ MaxTime \in Nat
  BY DEF Index, NeighborAssumption
<1>3. \A k \in Index : entries[k].time \in 0 .. MaxTime
  BY DEF NbTableInv, Neighbor
<1>4. stops = {}
  <2>1. ASSUME stops /= {} PROVE FALSE
    <3>1. FirstOf(stops) \in stops
      BY <1>2, <2>1, FirstFound
    <3>2. Chosen(m) = FirstOf(stops)
      BY <1>1, <2>1
    <3> QED
      BY <1>2, <1>3, <3>1, <3>2
  <2> QED
    BY <2>1
<1>5. CASE aged /= {}
  <2>1. FirstOf(aged) \in aged
    BY <1>2, <1>5, FirstFound
  <2> QED
    BY <1>1, <1>4, <1>5, <2>1
<1>6. CASE aged = {}
  <2> DEFINE rest == {MaxTime - entries[k].time : k \in Index}
  <2>1. rest \subseteq Nat /\ rest /= {}
    BY <1>2, <1>3
  <2>2. FirstOf(rest) \in rest /\ \A r \in rest : FirstOf(rest) <= r
    BY <2>1, FirstFound
  <2>3. PICK k \in Index : FirstOf(rest) = MaxTime - entries[k].time
    BY <2>2
  <2>4. \A i \in Index : entries[i].time <= entries[k].time
    <3> TAKE i \in Index
    <3>1. FirstOf(rest) <= MaxTime - entries[i].time
      BY <2>2
    <3> QED
      BY <1>2, <1>3, <2>3, <3>1
  <2>5. ~(entries[k].time > 0)
    BY <1>6, <2>4
  <2>6. Chosen(m) = 0
    BY <1>1, <1>4, <1>6
  <2> QED
    BY <1>2, <1>3, <2>4, <2>5, <2>6
<1> QED
  BY <1>5, <1>6

(* For every table a neighbor that has not run out of time is overwritten    *)
(* only when no entry is older (uip_neighbor_add).                           *)
THEOREM NbKept == NbSpec => NeighborsKept
<1> DEFINE A == \A k \in Index :
        /\ entries[k].time < MaxTime /\ entries'[k].addr /= entries[k].addr
        /\ \A m \in Link : entries[k].ipaddr /= Prefix[m]
        => \A j \in Index : entries[j].time <= entries[k].time
<1>1. NbTableInv /\ [NbNext]_entries => [A]_entries
  <2> SUFFICES ASSUME NbTableInv, NbNext, NEW k \in Index,
                      entries[k].time < MaxTime, entries'[k].addr /= entries[k].addr,
                      \A m \in Link : entries[k].ipaddr /= Prefix[m],
                      NEW j \in Index
               PROVE  entries[j].time <= entries[k].time
    OBVIOUS
  <2>1. ASSUME NEW a \in NbAddr, NEW m \in Link, NbAdd(a, m)
        PROVE  entries[j].time <= entries[k].time
    <3>1. k = Chosen(m)
      BY <2>1 DEF NbAdd, NbTableInv
    <3> QED
      BY <3>1, ChosenIsOldest
  <2>2. ASSUME NEW a \in NbAddr, NbUpdate(a)
        PROVE  entries[j].time <= entries[k].time
    BY <2>2 DEF NbUpdate, NbTableInv, Neighbor
  <2>3. CASE NbPeriodic
    BY <2>3 DEF NbPeriodic, NbTableInv, Neighbor
  <2> QED
    BY <2>1, <2>2, <2>3 DEF NbNext
<1> QED
  BY NbInitInv, NbNextInv, <1>1, PTL DEF NbSpec, NeighborsKept

=============================================================================
