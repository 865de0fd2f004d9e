-------------------------------- MODULE Dht --------------------------------
(***************************************************************************)
(* Measuring: the driver of the DHT22 sensor, src/src/dht.c, and what      *)
(* _mqttclient_send_data of src/src/umqtt/mqttclient.c makes of a reading. *)
(* The driver polls one line.  The sensor may be absent, hold the line at  *)
(* a level for any time, and one of its bits may be read wrong.            *)
(***************************************************************************)
EXTENDS Integers, Sequences

CONSTANTS
    ByteBits,       \* bits of a byte: 8
    MaxWait,        \* polls a level may last: 200
    WordMod,        \* timeout is 16 bits wide
    Measurements,   \* what the sensor measures: [humidity, temperature], in tenths
    Flips           \* bits of one message that may be read wrong

ByteMod == 2 ^ ByteBits
SignBit == 2 ^ (ByteBits - 1)

ASSUME DhtAssumption ==
    /\ ByteBits \in Nat \ {0} /\ MaxWait \in Nat /\ MaxWait + 2 < WordMod
    /\ \A m \in Measurements : /\ m.humidity \in 0 .. ByteMod * ByteMod - 1
                               /\ m.temperature \in 1 - SignBit * ByteMod .. SignBit * ByteMod - 1

VARIABLES
    phase,      \* where in _dht_read the driver is
    timeout,
    raw,        \* the bits read so far; struct dht_data_raw when complete
    measured,   \* observer: what the sensor measured last
    flips,      \* observer: bits of this message that may still be read wrong
    dhtData,    \* dht_data
    published   \* what the client made of the last call

dhtVars == <<phase, timeout, raw, measured, flips, dhtData, published>>

Nothing == [status |-> "none", integral |-> 0, decimal |-> 0]

DhtInit ==
    /\ phase = "idle" /\ timeout = 0 /\ raw = <<>> /\ flips = 0
    /\ measured \in Measurements
    /\ dhtData = [humidity |-> 0, temperature |-> 0]
    /\ published = Nothing

\* The value of the b-th byte of a message.
ByteOf(bits, b) ==
    LET value[i \in 0 .. ByteBits] == IF i = 0 THEN 0 ELSE 2 * value[i - 1] + bits[(b - 1) * ByteBits + i]
    IN value[ByteBits]

\* The sensor's message: sign and magnitude, then the sum.
SensorMessage(m) ==
    LET magnitude == IF m.temperature < 0 THEN -m.temperature ELSE m.temperature
        bytes == <<m.humidity \div ByteMod, m.humidity % ByteMod,
                   magnitude \div ByteMod + (IF m.temperature < 0 THEN SignBit ELSE 0), magnitude % ByteMod>>
        all == Append(bytes, (bytes[1] + bytes[2] + bytes[3] + bytes[4]) % ByteMod)
    IN [i \in 1 .. 5 * ByteBits |->
          (all[(i - 1) \div ByteBits + 1] \div 2 ^ (ByteBits - 1 - ((i - 1) % ByteBits))) % 2]

-----------------------------------------------------------------------------
(* dht_read, after the bits *)

\* Seeded bug: the sum is over three bytes.
SumOfThree(bits) == (ByteOf(bits, 1) + ByteOf(bits, 2) + ByteOf(bits, 3)) % ByteMod

Sum(bits) == (ByteOf(bits, 1) + ByteOf(bits, 2) + ByteOf(bits, 3) + ByteOf(bits, 4)) % ByteMod

Decoded(bits) ==
    LET magnitude == (ByteOf(bits, 3) % SignBit) * ByteMod + ByteOf(bits, 4)
    IN [humidity |-> ByteOf(bits, 1) * ByteMod + ByteOf(bits, 2),
        temperature |-> IF ByteOf(bits, 3) >= SignBit THEN -magnitude ELSE magnitude]

\* "%d.%u" of the quotient and the rest of C's division by ten.
Text(t) == IF t < 0 THEN [status |-> "OK", integral |-> -((-t) \div 10), decimal |-> (-t) % 10]
                    ELSE [status |-> "OK", integral |-> t \div 10, decimal |-> t % 10]

\* An error code is published, and dht_data stays.
Fail(status) ==
    /\ phase' = "idle"
    /\ published' = [Nothing EXCEPT !.status = status]
    /\ UNCHANGED dhtData

Complete(bits) ==
    IF Sum(bits) /= ByteOf(bits, 5)
    THEN Fail("CHECKSUM")
    ELSE /\ phase' = "idle"
         /\ dhtData' = Decoded(bits)
         /\ published' = Text(Decoded(bits).temperature)

-----------------------------------------------------------------------------
(* _dht_read *)

StartRead ==
    /\ phase = "idle"
    /\ phase' = "connect"
    /\ measured' \in Measurements
    /\ timeout' = 0 /\ raw' = <<>> /\ flips' = Flips
    /\ UNCHANGED <<dhtData, published>>

\* The sensor must pull the line low, and release it.
Answer ==
    /\ \/ phase = "connect" /\ phase' = "ack" /\ UNCHANGED <<dhtData, published>>
       \/ phase = "connect" /\ Fail("CONNECT")
       \/ phase = "ack" /\ phase' = "low" /\ UNCHANGED <<dhtData, published>>
       \/ phase = "ack" /\ Fail("ACK")
    /\ UNCHANGED <<timeout, raw, measured, flips>>

\* The line is still at the level it should leave.
Poll ==
    /\ timeout' = (timeout + 1) % WordMod
    /\ IF timeout > MaxWait
       THEN Fail("TIMEOUT")
       ELSE UNCHANGED <<phase, dhtData, published>>

Wait ==
    /\ phase \in {"low", "high"}
    /\ Poll
    /\ UNCHANGED <<raw, measured, flips>>

\* After the low level the bit is sampled, now and then wrong.
Sample ==
    /\ phase = "low"
    /\ \E wrong \in {0} \cup (IF flips > 0 THEN {1} ELSE {}) :
         /\ raw' = Append(raw, (SensorMessage(measured)[Len(raw) + 1] + wrong) % 2)
         /\ flips' = flips - wrong
    /\ phase' = "high" /\ timeout' = 0
    /\ UNCHANGED <<measured, dhtData, published>>

BitEnds ==
    /\ phase = "high"
    /\ IF Len(raw) = 5 * ByteBits
       THEN Complete(raw)
       ELSE phase' = "low" /\ UNCHANGED <<dhtData, published>>
    /\ timeout' = 0
    /\ UNCHANGED <<raw, measured, flips>>

DhtRead == Answer \/ Wait \/ Sample \/ BitEnds

DhtNext == StartRead \/ DhtRead

DhtSpec == DhtInit /\ [][DhtNext]_dhtVars

-----------------------------------------------------------------------------
(* Properties *)

\* dht_data changes only to what the sensor measured: a bit read wrong is
\* always caught by the checksum, and no failed call leaves half a reading.
ReadingTrusted == [][dhtData' /= dhtData => dhtData' = measured /\ published'.status = "OK"]_dhtVars

\* The number in the message to the broker is the temperature that was measured
\* (mqttclient.c:295 "publish measured data").
PublishedIsMeasured ==
    phase = "idle" /\ published.status = "OK" =>
        LET shown == IF published.integral < 0 THEN 10 * published.integral - published.decimal
                                               ELSE 10 * published.integral + published.decimal
        IN shown = dhtData.temperature

=============================================================================
