------------------------------ MODULE UipArith ------------------------------
(***************************************************************************)
(* The arithmetic on bytes and words of src/src/uip/uip.c: 32-bit sequence *)
(* numbers kept as four bytes, and Internet checksums in ones' complement. *)
(* A byte is a digit to the base Radix, 256 in the code.                   *)
(***************************************************************************)
EXTENDS Integers, Sequences

CONSTANT Radix

ASSUME RadixAssumption == Radix \in Nat \ {0, 1}

Digit == 0 .. Radix - 1

WordMod == Radix * Radix

Word == 0 .. WordMod - 1

-----------------------------------------------------------------------------
(* uip_add32: four digits, the most significant first *)

Value(d) == ((d[1] * Radix + d[2]) * Radix + d[3]) * Radix + d[4]

CarryTo2(d) ==
    IF d[2] + 1 < Radix THEN [d EXCEPT ![2] = @ + 1]
                        ELSE [d EXCEPT ![2] = 0, ![1] = (@ + 1) % Radix]

\* Seeded bug: a carry that overflows the third digit is lost.
CarryTo3Lost(d) == [d EXCEPT ![3] = (@ + 1) % Radix]

CarryTo3(d) ==
    IF d[3] + 1 < Radix THEN [d EXCEPT ![3] = @ + 1]
                        ELSE CarryTo2([d EXCEPT ![3] = 0])

\* A digit that is smaller than what was added to it has overflowed.
Add32(op32, op16) ==
    LET high == op16 \div Radix
        low == op16 % Radix
        sums == [op32 EXCEPT ![3] = (@ + high) % Radix, ![4] = (@ + low) % Radix]
        carried == IF sums[3] < high THEN CarryTo2(sums) ELSE sums
    IN IF sums[4] < low THEN CarryTo3(carried) ELSE carried

-----------------------------------------------------------------------------
(* Checksums *)

\* sum += t, and the carry
AddCarry(sum, t) ==
    LET s == (sum + t) % WordMod
    IN IF s < t THEN s + 1 ELSE s

\* The i-th word of data; an odd byte at the end is the high one.
WordOf(data, i) ==
    data[2 * i - 1] * Radix + (IF 2 * i <= Len(data) THEN data[2 * i] ELSE 0)

\* chksum
Chksum(sum, data) ==
    LET acc[i \in 0 .. (Len(data) + 1) \div 2] ==
            IF i = 0 THEN sum ELSE AddCarry(acc[i - 1], WordOf(data, i))
    IN acc[(Len(data) + 1) \div 2]

\* uip_ipchksum and upper_layer_chksum: zero is the other zero.
NonZero(sum) == IF sum = 0 THEN WordMod - 1 ELSE sum

\* The field is 0 while it is computed.
ChksumField(sum, data) == WordMod - 1 - NonZero(Chksum(sum, data))

Verifies(sum, data) == NonZero(Chksum(sum, data)) = WordMod - 1

\* Seeded bug: the carry is not added.
PlusChksumNoCarry(c, x) == (c + x) % WordMod

\* A header word has lost x: its checksum gains it (uip.c:953, uipfw.c:438).
PlusChksum(c, x) == IF c >= WordMod - 1 - x THEN (c + x + 1) % WordMod ELSE c + x

WordBytes(w) == <<w \div Radix, w % Radix>>

\* What RFC 1071 asks of the bytes of a header, its checksum among them.
Total(data) ==
    LET total[i \in 0 .. (Len(data) + 1) \div 2] ==
            IF i = 0 THEN 0 ELSE total[i - 1] + WordOf(data, i)
    IN total[(Len(data) + 1) \div 2]

SumsToZero(data) == Total(data) % (WordMod - 1) = 0

=============================================================================
