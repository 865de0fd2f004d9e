------------------------------- MODULE UipFw -------------------------------
(***************************************************************************)
(* Forwarding between network interfaces, src/src/uip/uipfw.c: a list of   *)
(* interfaces, a default one, and a cache of the packets that went out, so *)
(* that a packet which comes round again is not sent round again.          *)
(* Compiled into the firmware and called by nothing in it.                 *)
(***************************************************************************)
EXTENDS UipArith, FiniteSets

CONSTANTS
    FwCacheSize,    \* FWCACHE_SIZE: 2
    FwTime,         \* FW_TIME: 20
    UipTtl,         \* UIP_TTL
    Netifs, NoNetif,
    Within,         \* the addresses that an interface's mask and address match
    Host, Broadcast,\* uip_hostaddr; both halves 0xffff
    Arriving,       \* packets of other hosts, whose checksums hold
    Departing       \* packets of this host, likewise

ASSUME FwAssumption ==
    /\ FwCacheSize \in Nat \ {0} /\ FwTime \in Nat \ {0} /\ UipTtl \in 2 .. Radix - 1
    /\ NoNetif \notin Netifs /\ DOMAIN Within = Netifs
    /\ \A p \in Arriving \cup Departing : p.ttl \in Digit /\ p.rest \in Word /\ p.chksum \in Word

VARIABLES
    netifs,         \* the list, the interface registered last first
    defaultnetif,
    fwcache,
    fwCall,         \* the last call: what it returned, and what it put out
    latest          \* observer: the packet put out last, and the timer calls since

fwVars == <<netifs, defaultnetif, fwcache, fwCall, latest>>

Cached == 1 .. FwCacheSize
Silent == [result |-> "none"]
Key(p) == [id |-> p.id, src |-> p.src, dest |-> p.dest, proto |-> p.proto]
NoPacket == [id |-> 0, src |-> Host, dest |-> Host, proto |-> "none"]

FwInit ==
    /\ netifs = <<>> /\ defaultnetif = NoNetif
    /\ fwcache = [s \in Cached |-> [timer |-> 0, key |-> NoPacket]]
    /\ fwCall = Silent
    /\ latest = [key |-> NoPacket, age |-> FwTime]

\* uip_fw_register and uip_fw_default
Register(n) ==
    /\ \A k \in DOMAIN netifs : netifs[k] /= n
    /\ netifs' = <<n>> \o netifs
    /\ UNCHANGED <<defaultnetif, fwcache, fwCall, latest>>

Default(n) == defaultnetif' = n /\ UNCHANGED <<netifs, fwcache, fwCall, latest>>

FwRestart ==
    /\ netifs' = <<>> /\ defaultnetif' = NoNetif
    /\ UNCHANGED <<fwcache, fwCall, latest>>

FwPeriodic ==
    /\ fwcache' = [s \in Cached |->
            [fwcache[s] EXCEPT !.timer = IF @ > 0 THEN @ - 1 ELSE 0]]
    /\ latest' = [latest EXCEPT !.age = IF @ < FwTime THEN @ + 1 ELSE @]
    /\ UNCHANGED <<netifs, defaultnetif, fwCall>>

-----------------------------------------------------------------------------
(* Output *)

\* fwcache_register: the first slot that has run out, or else the last of those
\* with the least time left.
CacheSlot ==
    LET out == {s \in Cached : fwcache[s].timer = 0}
        oldest == {s \in Cached : \A t \in Cached : fwcache[s].timer <= fwcache[t].timer}
    IN IF out /= {} THEN CHOOSE s \in out : \A t \in out : s <= t
                    ELSE CHOOSE s \in oldest : \A t \in oldest : s >= t

\* find_netif: the first match in the list
Route(dest) ==
    LET fits == {k \in DOMAIN netifs : dest \in Within[netifs[k]]}
    IN IF fits = {} THEN defaultnetif ELSE netifs[CHOOSE k \in fits : \A j \in fits : k <= j]

\* uip_fw_output; UIP_BROADCAST is 0.
Output(p, result) ==
    /\ fwcache' = [fwcache EXCEPT ![CacheSlot] = [timer |-> FwTime, key |-> Key(p)]]
    /\ latest' = [key |-> Key(p), age |-> 0]
    /\ fwCall' = IF Route(p.dest) = NoNetif THEN [result |-> IF result = "sent" THEN "noroute" ELSE result]
                 ELSE [result |-> result, netif |-> Route(p.dest), packet |-> p]
    /\ UNCHANGED <<netifs, defaultnetif>>

-----------------------------------------------------------------------------
(* Forwarding *)

\* The words of a header, where rest stands for those that are neither the one
\* with the time to live, in its low byte, nor the checksum.
HeaderWords(p) == WordBytes(p.rest) \o WordBytes(p.ttl) \o WordBytes(p.chksum)

\* Seeded bug: the last slot of the cache is not looked at.
KnownButLast(p) == \E s \in 1 .. FwCacheSize - 1 : fwcache[s].timer /= 0 /\ fwcache[s].key = Key(p)

Known(p) == \E s \in Cached : fwcache[s].timer /= 0 /\ fwcache[s].key = Key(p)

\* time_exceeded, of a packet that is not ICMP
TimeExceeded(p) ==
    LET q == [p EXCEPT !.dest = p.src, !.src = Host, !.proto = "icmp", !.ttl = UipTtl, !.chksum = 0]
    IN [q EXCEPT !.chksum = ChksumField(0, HeaderWords(q))]

Stop(result) ==
    /\ fwCall' = [result |-> result]
    /\ UNCHANGED <<netifs, defaultnetif, fwcache, latest>>

\* The time to live, and the checksum with it.
Relay(p) == Output([p EXCEPT !.ttl = @ - 1, !.chksum = PlusChksum(@, 1)], "forwarded")

Forward(p) ==
    /\ fwCall = Silent
    /\ \/ p.dest = Host /\ Stop("local")
       \/ p.dest /= Host /\ Known(p) /\ Stop("forwarded")
       \/ /\ p.dest /= Host /\ ~Known(p) /\ p.ttl <= 1
          /\ \/ p.dest = Broadcast /\ Stop("local")
             \/ p.dest /= Broadcast /\ p.proto = "icmp" /\ Stop("forwarded")
             \/ p.dest /= Broadcast /\ p.proto /= "icmp" /\ Relay(TimeExceeded(p))
       \/ p.dest /= Host /\ ~Known(p) /\ p.ttl > 1 /\ Relay(p)

\* A packet of this host goes through the same cache.
FwSend(p) == fwCall = Silent /\ Output(p, "sent")

FwReturn == fwCall /= Silent /\ fwCall' = Silent /\ UNCHANGED <<netifs, defaultnetif, fwcache, latest>>

FwNext ==
    \/ \E n \in Netifs : Register(n) \/ Default(n)
    \/ FwRestart \/ FwPeriodic \/ FwReturn
    \/ \E p \in Arriving : Forward(p)
    \/ \E p \in Departing : FwSend(p)

FwSpec == FwInit /\ [][FwNext]_fwVars

-----------------------------------------------------------------------------
(* Properties *)

\* Part of RelaysOnce: a header whose checksum held holds when it leaves, with its time to live one
\* less or as that of the message that says it has run out.
RelayedVerifies == "packet" \in DOMAIN fwCall => SumsToZero(HeaderWords(fwCall.packet))

\* Part of RelaysOnce: the packet that went out last is not forwarded when it comes round again, for
\* FwTime calls of the timer.
NotRoundAgain ==
    /\ "packet" \in DOMAIN fwCall' /\ fwCall'.result = "forwarded" /\ fwCall = Silent
    /\ fwCall'.packet.src /= Host
    => Key(fwCall'.packet) /= latest.key \/ latest.age >= FwTime

\* What is relayed goes out once, although the slots of the cache run out, and
\* with a header that the next host accepts.
RelaysOnce == [][RelayedVerifies' /\ NotRoundAgain]_fwVars

=============================================================================
