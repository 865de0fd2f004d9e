---------------------------- MODULE IpInputProofs ----------------------------
(* Checksums, and what IP input takes and sends, for every size of a byte,   *)
(* every set of packets and any number of UDP connections.                   *)
EXTENDS IpInput, FiniteSetTheorems, SequenceTheorems, WellFoundedInduction, TLAPS

-----------------------------------------------------------------------------
(* Induction, as facts about sets *)

LEMMA Minimum ==
    ASSUME NEW S, S \subseteq Nat, S /= {}
    PROVE  Least(S) \in S /\ \A t \in S : Least(S) <= t
<1>1. PICK k \in S : \A j \in S : ~(<<j, k>> \in OpToRel(<, Nat))
  BY NatLessThanWellFounded, WFMin
<1>2. \A j \in S : k <= j
  <2> DEFINE R == OpToRel(<, Nat)
  <2>1. R = {ss \in Nat \X Nat : ss[1] < ss[2]}
    BY DEF OpToRel
  <2>2. \A j \in S : ~(<<j, k>> \in R)
    BY <1>1
  <2> HIDE DEF R
  <2> TAKE j \in S
  <2>3. ~(j < k)
    BY <2>1, <2>2
  <2> QED
    BY <2>3
<1> QED
  BY <1>2 DEF Least

LEMMA Induction ==
    ASSUME NEW G, 0 \in G, \A n \in Nat : n \in G => n + 1 \in G
    PROVE  \A n \in Nat : n \in G
<1> DEFINE S == Nat \ G
<1> SUFFICES ASSUME S /= {} PROVE FALSE
  OBVIOUS
<1>1. Least(S) \in S /\ \A t \in S : Least(S) <= t
  BY Minimum
<1> DEFINE n == Least(S)
<1> HIDE DEF n
<1>2. n \in Nat /\ n \notin G /\ \A t \in Nat : t \notin G => n <= t
  BY <1>1 DEF n
<1>3. n /= 0 /\ n - 1 \in Nat
  BY <1>2
<1>4. n - 1 \in G
  BY <1>2, <1>3
<1>5. n - 1 + 1 \in G
  BY <1>3, <1>4
<1> QED
  BY <1>2, <1>5

(* A chain of values, each computed from the one before.                     *)
IsChain(f, n, W, a, step) ==
    f \in [0 .. n -> W] /\ f[0] = a /\ \A i \in 1 .. n : f[i] = step[i][f[i - 1]]

LEMMA ChainExists ==
    ASSUME NEW W, NEW a \in W, NEW step \in [Nat -> [W -> W]], NEW n \in Nat
    PROVE  \E f : IsChain(f, n, W, a, step)
<1> DEFINE G == {m \in Nat : \E f : IsChain(f, m, W, a, step)}
<1>1. 0 \in G
  <2>1. IsChain([i \in 0 .. 0 |-> a], 0, W, a, step)
    BY DEF IsChain
  <2> QED
    BY <2>1
<1>2. ASSUME NEW m \in Nat, m \in G PROVE m + 1 \in G
  <2>1. PICK f : IsChain(f, m, W, a, step)
    BY <1>2
  <2> DEFINE g == [i \in 0 .. m + 1 |-> IF i = m + 1 THEN step[m + 1][f[m]] ELSE f[i]]
  <2>2. g \in [0 .. m + 1 -> W]
    BY <2>1 DEF IsChain
  <2>3. g[0] = a
    BY <2>1 DEF IsChain
  <2>4. ASSUME NEW i \in 1 .. m + 1 PROVE g[i] = step[i][g[i - 1]]
    <3>1. CASE i = m + 1
      <4>1. g[i - 1] = f[m] /\ g[i] = step[m + 1][f[m]]
        BY <3>1
      <4> QED
        BY <3>1, <4>1
    <3>2. CASE i /= m + 1
      <4>1. i \in 1 .. m /\ g[i] = f[i] /\ g[i - 1] = f[i - 1]
        BY <3>2
      <4> QED
        BY <2>1, <4>1 DEF IsChain
    <3> QED
      BY <3>1, <3>2
  <2>5. IsChain(g, m + 1, W, a, step)
    BY <2>2, <2>3, <2>4 DEF IsChain
  <2>6. m + 1 \in Nat /\ \E h : IsChain(h, m + 1, W, a, step)
    <3> HIDE DEF g
    <3> QED
      BY <2>5
  <2> QED
    BY <2>6
<1> HIDE DEF G
<1>3. n \in G
  BY <1>1, <1>2, Induction
<1> QED
  BY <1>3 DEF G

-----------------------------------------------------------------------------
(* Words and checksums *)

N == WordMod - 1

LEMMA WordSizes ==
    /\ WordMod \in Nat /\ WordMod > 3 /\ Radix \in Nat /\ 1 < Radix /\ Radix < WordMod
    /\ N \in Nat /\ N > 2 /\ Digit \subseteq Word
<1>1. Radix \in Nat /\ Radix >= 2
  BY RadixAssumption
<1>2. Radix * Radix \in Nat /\ Radix * Radix >= 2 * Radix
  BY <1>1
<1> QED
  BY <1>1, <1>2 DEF WordMod, N, Digit, Word

LEMMA DigitsOfWord ==
    ASSUME NEW w \in Word
    PROVE  w \div Radix \in Digit /\ w % Radix \in Digit /\ ((w \div Radix) * Radix) + (w % Radix) = w
<1>1. Radix \in Nat /\ Radix > 0 /\ w \in Nat /\ w < Radix * Radix
  BY WordSizes DEF Word, WordMod
<1> QED
  BY <1>1 DEF Digit

LEMMA WordOfDigits ==
    ASSUME NEW a \in Digit, NEW b \in Digit
    PROVE  a * Radix + b \in Word
<1>1. Radix \in Nat /\ Radix > 0 /\ a \in Nat /\ b \in Nat /\ a <= Radix - 1 /\ b <= Radix - 1
  BY WordSizes DEF Digit
<1>2. a * Radix <= (Radix - 1) * Radix /\ a * Radix \in Nat
  BY <1>1
<1>3. (Radix - 1) * Radix = Radix * Radix - Radix /\ Radix * Radix \in Nat
  BY <1>1
<1>4. a * Radix + b <= Radix * Radix - 1
  BY <1>1, <1>2, <1>3
<1> QED
  BY <1>1, <1>2, <1>3, <1>4 DEF Word, WordMod

Words(data) == (Len(data) + 1) \div 2

LEMMA WordsOfData ==
    ASSUME NEW data \in Seq(Digit)
    PROVE  Words(data) \in Nat /\ \A i \in 1 .. Words(data) : WordOf(data, i) \in Word
<1>1. Words(data) \in Nat /\ Len(data) \in Nat
  BY DEF Words
<1>2. ASSUME NEW i \in 1 .. Words(data) PROVE WordOf(data, i) \in Word
  <2>1. 2 * i - 1 \in 1 .. Len(data)
    BY <1>1, <1>2 DEF Words
  <2>2. data[2 * i - 1] \in Digit
    BY <2>1
  <2>3. 2 * i <= Len(data) => data[2 * i] \in Digit
    BY <1>1, <2>1
  <2>4. 0 \in Digit
    BY WordSizes DEF Digit
  <2> QED
    BY <2>2, <2>3, <2>4, WordOfDigits DEF WordOf
<1> QED
  BY <1>1, <1>2

(* A sum with carry loses a whole number of turns.                           *)
LEMMA AddCarrySum ==
    ASSUME NEW s \in Word, NEW t \in Word
    PROVE  AddCarry(s, t) \in Word /\ AddCarry(s, t) \in {s + t, s + t - N}
<1> DEFINE M == WordMod
<1>1. M \in Nat /\ M > 3 /\ s \in 0 .. M - 1 /\ t \in 0 .. M - 1
  BY WordSizes DEF Word
<1> HIDE DEF M
<1>2. (s + t) % M = IF s + t < M THEN s + t ELSE s + t - M
  BY <1>1
<1>3. AddCarry(s, t) = IF s + t < M THEN s + t ELSE s + t - M + 1
  <2>1. AddCarry(s, t) = IF (s + t) % M < t THEN ((s + t) % M) + 1 ELSE (s + t) % M
    BY DEF AddCarry, M
  <2> QED
    BY <1>1, <1>2, <2>1
<1> QED
  BY <1>1, <1>3 DEF N, Word, M

\* f is the recursive function inside Chksum, or inside Total.
ChksumChain(f, n, data) ==
    f \in [0 .. n -> Word] /\ f[0] = 0 /\ \A i \in 1 .. n : f[i] = AddCarry(f[i - 1], WordOf(data, i))

TotalChain(f, n, data) ==
    f \in [0 .. n -> Nat] /\ f[0] = 0 /\ \A i \in 1 .. n : f[i] = f[i - 1] + WordOf(data, i)

LEMMA ChksumByChain ==
    ASSUME NEW data \in Seq(Digit)
    PROVE  \E f : ChksumChain(f, Words(data), data) /\ Chksum(0, data) = f[Words(data)]
<1> DEFINE n == Words(data)
           step == [i \in Nat |-> [s \in Word |-> IF i \in 1 .. n THEN AddCarry(s, WordOf(data, i)) ELSE s]]
           F == CHOOSE f : f = [i \in 0 .. n |-> IF i = 0 THEN 0 ELSE AddCarry(f[i - 1], WordOf(data, i))]
<1>1. n \in Nat /\ \A i \in 1 .. n : WordOf(data, i) \in Word
  BY WordsOfData
<1>2. Chksum(0, data) = F[n]
  BY DEF Chksum, Words
<1> HIDE DEF n
<1>3. 0 \in Word
  BY WordSizes DEF Word
<1>4. step \in [Nat -> [Word -> Word]]
  BY <1>1, AddCarrySum
<1>5. PICK h : IsChain(h, n, Word, 0, step)
  <2> HIDE DEF step
  <2> QED
    BY <1>1, <1>3, <1>4, ChainExists
<1>6. h = [i \in 0 .. n |-> IF i = 0 THEN 0 ELSE AddCarry(h[i - 1], WordOf(data, i))]
  <2>1. ASSUME NEW i \in 1 .. n PROVE h[i] = AddCarry(h[i - 1], WordOf(data, i))
    <3>1. h[i - 1] \in Word /\ h[i] = step[i][h[i - 1]]
      <4>1. i - 1 \in 0 .. n
        BY <1>1
      <4> HIDE DEF step
      <4> QED
        BY <1>5, <4>1 DEF IsChain
    <3> QED
      BY <1>1, <3>1
  <2> QED
    BY <1>1, <1>5, <2>1 DEF IsChain
<1>7. F = [i \in 0 .. n |-> IF i = 0 THEN 0 ELSE AddCarry(F[i - 1], WordOf(data, i))]
  BY <1>6
<1> HIDE DEF F
<1>8. F[0] = 0 /\ \A i \in 1 .. n : F[i] = AddCarry(F[i - 1], WordOf(data, i))
  <2>1. \A i \in 0 .. n : F[i] = IF i = 0 THEN 0 ELSE AddCarry(F[i - 1], WordOf(data, i))
    BY <1>7
  <2> QED
    BY <1>1, <2>1
<1>9. \A i \in 0 .. n : F[i] \in Word
  <2> DEFINE G == {i \in Nat : i <= n => F[i] \in Word}
  <2>1. 0 \in G
    BY <1>3, <1>8
  <2>2. ASSUME NEW i \in Nat, i \in G PROVE i + 1 \in G
    <3>1. CASE i + 1 <= n
      <4>1. i + 1 \in 1 .. n /\ F[i] \in Word /\ i + 1 - 1 = i
        BY <1>1, <2>2, <3>1
      <4>2. F[i + 1] = AddCarry(F[i], WordOf(data, i + 1))
        BY <1>8, <4>1
      <4> QED
        BY <1>1, <4>1, <4>2, AddCarrySum
    <3>2. CASE ~(i + 1 <= n)
      BY <3>2
    <3> QED
      BY <3>1, <3>2
  <2> HIDE DEF G
  <2>3. \A i \in Nat : i \in G
    BY <2>1, <2>2, Induction
  <2> QED
    BY <1>1, <2>3 DEF G
<1>10. ChksumChain(F, n, data)
  BY <1>7, <1>8, <1>9 DEF ChksumChain
<1> QED
  BY <1>2, <1>10 DEF n

LEMMA TotalByChain ==
    ASSUME NEW data \in Seq(Digit)
    PROVE  \E f : TotalChain(f, Words(data), data) /\ Total(data) = f[Words(data)]
<1> DEFINE n == Words(data)
           step == [i \in Nat |-> [s \in Nat |-> IF i \in 1 .. n THEN s + WordOf(data, i) ELSE s]]
           F == CHOOSE f : f = [i \in 0 .. n |-> IF i = 0 THEN 0 ELSE f[i - 1] + WordOf(data, i)]
<1>1. n \in Nat /\ \A i \in 1 .. n : WordOf(data, i) \in Nat
  BY WordsOfData, WordSizes DEF Word
<1>2. Total(data) = F[n]
  BY DEF Total, Words
<1> HIDE DEF n
<1>3. step \in [Nat -> [Nat -> Nat]]
  BY <1>1
<1>4. PICK h : IsChain(h, n, Nat, 0, step)
  <2> HIDE DEF step
  <2> QED
    BY <1>1, <1>3, ChainExists
<1>5. h = [i \in 0 .. n |-> IF i = 0 THEN 0 ELSE h[i - 1] + WordOf(data, i)]
  <2>1. ASSUME NEW i \in 1 .. n PROVE h[i] = h[i - 1] + WordOf(data, i)
    <3>1. h[i - 1] \in Nat /\ h[i] = step[i][h[i - 1]]
      <4>1. i - 1 \in 0 .. n
        BY <1>1
      <4> HIDE DEF step
      <4> QED
        BY <1>4, <4>1 DEF IsChain
    <3> QED
      BY <1>1, <3>1
  <2> QED
    BY <1>1, <1>4, <2>1 DEF IsChain
<1>6. F = [i \in 0 .. n |-> IF i = 0 THEN 0 ELSE F[i - 1] + WordOf(data, i)]
  BY <1>5
<1> HIDE DEF F
<1>7. F[0] = 0 /\ \A i \in 1 .. n : F[i] = F[i - 1] + WordOf(data, i)
  <2>1. \A i \in 0 .. n : F[i] = IF i = 0 THEN 0 ELSE F[i - 1] + WordOf(data, i)
    BY <1>6
  <2> QED
    BY <1>1, <2>1
<1>8. \A i \in 0 .. n : F[i] \in Nat
  <2> DEFINE G == {i \in Nat : i <= n => F[i] \in Nat}
  <2>1. 0 \in G
    BY <1>7
  <2>2. ASSUME NEW i \in Nat, i \in G PROVE i + 1 \in G
    <3>1. CASE i + 1 <= n
      <4>1. i + 1 \in 1 .. n /\ F[i] \in Nat /\ i + 1 - 1 = i
        BY <1>1, <2>2, <3>1
      <4>2. F[i + 1] = F[i] + WordOf(data, i + 1)
        BY <1>7, <4>1
      <4> QED
        BY <1>1, <4>1, <4>2
    <3>2. CASE ~(i + 1 <= n)
      BY <3>2
    <3> QED
      BY <3>1, <3>2
  <2> HIDE DEF G
  <2>3. \A i \in Nat : i \in G
    BY <2>1, <2>2, Induction
  <2> QED
    BY <1>1, <2>3 DEF G
<1>9. TotalChain(F, n, data)
  BY <1>6, <1>7, <1>8 DEF TotalChain
<1> QED
  BY <1>2, <1>9 DEF n

(* chksum drops a multiple of N from the plain sum.                          *)
LEMMA ChksumOfTotal ==
    ASSUME NEW data \in Seq(Digit)
    PROVE  /\ Chksum(0, data) \in Word /\ Total(data) \in Nat
           /\ \E q \in Nat : Total(data) = Chksum(0, data) + q * N
<1> DEFINE n == Words(data)
<1>1. n \in Nat /\ \A i \in 1 .. n : WordOf(data, i) \in Word
  BY WordsOfData
<1>2. PICK f : ChksumChain(f, n, data) /\ Chksum(0, data) = f[n]
  BY ChksumByChain
<1>3. PICK t : TotalChain(t, n, data) /\ Total(data) = t[n]
  BY TotalByChain
<1> HIDE DEF n
<1> DEFINE G == {i \in Nat : i <= n => \E q \in Nat : t[i] = f[i] + q * N}
<1>4. 0 \in G
  <2>1. t[0] = f[0] + 0 * N
    BY <1>2, <1>3, WordSizes DEF ChksumChain, TotalChain
  <2> QED
    BY <2>1
<1>5. ASSUME NEW i \in Nat, i \in G PROVE i + 1 \in G
  <2>1. CASE i + 1 <= n
    <3>1. PICK q \in Nat : t[i] = f[i] + q * N
      BY <1>1, <1>5, <2>1
    <3> DEFINE w == WordOf(data, i + 1)
    <3>2. i + 1 \in 1 .. n /\ i \in 0 .. n /\ i + 1 - 1 = i
      BY <1>1, <2>1
    <3>3. w \in Word /\ f[i] \in Word /\ f[i + 1] = AddCarry(f[i], w) /\ t[i + 1] = t[i] + w
      BY <1>1, <1>2, <1>3, <3>2 DEF ChksumChain, TotalChain
    <3> HIDE DEF w
    <3>4. f[i + 1] \in {f[i] + w, f[i] + w - N} /\ w \in Nat /\ f[i] \in Nat /\ N \in Nat
      <4>1. f[i + 1] \in {f[i] + w, f[i] + w - N}
        BY <3>3, AddCarrySum
      <4> QED
        BY <3>3, <4>1, WordSizes DEF Word
    <3>5. (q + 1) * N = q * N + N /\ q * N \in Nat /\ q + 1 \in Nat
      BY <3>1, <3>4
    <3>6. t[i + 1] = f[i + 1] + q * N \/ t[i + 1] = f[i + 1] + (q + 1) * N
      BY <3>1, <3>3, <3>4, <3>5
    <3> QED
      BY <3>1, <3>5, <3>6
  <2>2. CASE ~(i + 1 <= n)
    BY <2>2
  <2> QED
    BY <2>1, <2>2
<1> HIDE DEF G
<1>6. n \in G
  BY <1>1, <1>4, <1>5, Induction
<1>7. f[n] \in Word /\ t[n] \in Nat
  BY <1>1, <1>2, <1>3 DEF ChksumChain, TotalChain
<1> QED
  BY <1>1, <1>2, <1>3, <1>6, <1>7 DEF G

LEMMA ModUnique ==
    ASSUME NEW M \in Nat, M > 0, NEW e \in Int, NEW r \in 0 .. M - 1
    PROVE  (e * M + r) % M = r
<1> DEFINE z == e * M + r
           k == z \div M
           s == z % M
<1>1. z \in Int
  OBVIOUS
<1>2. k \in Int /\ s \in 0 .. M - 1 /\ z = k * M + s
  <2> HIDE DEF z
  <2> QED
    BY <1>1
<1> HIDE DEF k, s
<1> DEFINE d == e - k
<1>3. d \in Int /\ d * M = s - r
  BY <1>2
<1> HIDE DEF d
<1>4. d = 0
  <2>1. d >= 1 => d * M >= M
    BY <1>3
  <2>2. d <= -1 => d * M <= -M
    BY <1>3
  <2> QED
    BY <1>2, <1>3, <2>1, <2>2
<1>5. s = r
  BY <1>2, <1>3, <1>4
<1> QED
  BY <1>5 DEF s, z

LEMMA ModTurns ==
    ASSUME NEW M \in Nat, M > 0, NEW x \in 0 .. M, NEW q \in Nat
    PROVE  (x + q * M) % M = IF x = M THEN 0 ELSE x
<1>1. CASE x = M
  <2>1. x + q * M = (q + 1) * M + 0
    BY <1>1
  <2> QED
    BY <1>1, <2>1, ModUnique
<1>2. CASE x /= M
  <2>1. x + q * M = q * M + x /\ x \in 0 .. M - 1
    BY <1>2
  <2> QED
    BY <1>2, <2>1, ModUnique
<1> QED
  BY <1>1, <1>2

(* The receiver's check is the one RFC 1071 asks for, for every header.      *)
LEMMA VerifiesSumsToZero ==
    ASSUME NEW data \in Seq(Digit)
    PROVE  Verifies(0, data) <=> SumsToZero(data)
<1> DEFINE c == Chksum(0, data)
<1>1. c \in Word
  BY ChksumOfTotal
<1>2. PICK q \in Nat : Total(data) = c + q * N
  BY ChksumOfTotal
<1>3. c \in Int /\ 0 <= c /\ c <= N /\ N \in Nat /\ N > 2
  BY <1>1, WordSizes DEF Word, N
<1> HIDE DEF c
<1>4. Total(data) % N = IF c = N THEN 0 ELSE c
  <2>1. c \in 0 .. N /\ N > 0
    BY <1>3
  <2> QED
    BY <1>2, <1>3, <2>1, ModTurns
<1>5. Total(data) % N = 0 <=> c \in {0, N}
  BY <1>3, <1>4
<1>6. Verifies(0, data) <=> c \in {0, N}
  BY <1>3 DEF Verifies, NonZero, c, N
<1> QED
  BY <1>5, <1>6 DEF SumsToZero, N

-----------------------------------------------------------------------------
(* The IP header *)

IsHead(p) ==
    {p.other, AddrWord[p.src], AddrWord[p.dest], p.chksum} \subseteq Word

HeadSum(p) == p.other + AddrWord[p.src] + AddrWord[p.dest] + p.chksum

LEMMA PairSeq ==
    ASSUME NEW S, NEW x \in S, NEW y \in S
    PROVE  <<x, y>> \in Seq(S) /\ Len(<<x, y>>) = 2 /\ <<x, y>>[1] = x /\ <<x, y>>[2] = y
  OBVIOUS

LEMMA Joined ==
    ASSUME NEW S, NEW s \in Seq(S), NEW t \in Seq(S), Len(t) = 2
    PROVE  /\ s \o t \in Seq(S) /\ Len(s \o t) = Len(s) + 2
           /\ \A i \in 1 .. Len(s) : (s \o t)[i] = s[i]
           /\ (s \o t)[Len(s) + 1] = t[1] /\ (s \o t)[Len(s) + 2] = t[2]
<1>1. /\ s \o t \in Seq(S) /\ Len(s \o t) = Len(s) + Len(t)
      /\ \A i \in 1 .. Len(s) + Len(t) : (s \o t)[i] = IF i <= Len(s) THEN s[i] ELSE t[i - Len(s)]
  BY ConcatProperties
<1>2. Len(s) \in Nat
  OBVIOUS
<1>3. (s \o t)[Len(s) + 1] = t[1]
  <2>1. Len(s) + 1 \in 1 .. Len(s) + Len(t) /\ ~(Len(s) + 1 <= Len(s)) /\ Len(s) + 1 - Len(s) = 1
    BY <1>2
  <2> QED
    BY <1>1, <2>1
<1>4. (s \o t)[Len(s) + 2] = t[2]
  <2>1. Len(s) + 2 \in 1 .. Len(s) + Len(t) /\ ~(Len(s) + 2 <= Len(s)) /\ Len(s) + 2 - Len(s) = 2
    BY <1>2
  <2> QED
    BY <1>1, <2>1
<1>5. \A i \in 1 .. Len(s) : (s \o t)[i] = s[i]
  BY <1>1, <1>2
<1> QED
  BY <1>1, <1>3, <1>4, <1>5

LEMMA WordSeq ==
    ASSUME NEW w \in Word
    PROVE  /\ WordBytes(w) \in Seq(Digit) /\ Len(WordBytes(w)) = 2
           /\ (WordBytes(w)[1] * Radix) + WordBytes(w)[2] = w
<1>1. w \div Radix \in Digit /\ w % Radix \in Digit /\ ((w \div Radix) * Radix) + (w % Radix) = w
  BY DigitsOfWord
<1>2. WordBytes(w) = <<w \div Radix, w % Radix>>
  BY DEF WordBytes
<1>3. WordBytes(w)[1] = w \div Radix /\ WordBytes(w)[2] = w % Radix
  BY <1>2
<1> QED
  BY <1>1, <1>2, <1>3, PairSeq

LEMMA HeadTotal ==
    ASSUME NEW p, IsHead(p)
    PROVE  HeadBytes(p) \in Seq(Digit) /\ Total(HeadBytes(p)) = HeadSum(p)
<1> DEFINE a == WordBytes(p.other)
           b == WordBytes(AddrWord[p.src])
           c == WordBytes(AddrWord[p.dest])
           d == WordBytes(p.chksum)
           data == HeadBytes(p)
<1>1. /\ a \in Seq(Digit) /\ b \in Seq(Digit) /\ c \in Seq(Digit) /\ d \in Seq(Digit)
      /\ Len(a) = 2 /\ Len(b) = 2 /\ Len(c) = 2 /\ Len(d) = 2
  BY WordSeq DEF IsHead
<1>2. /\ (a[1] * Radix) + a[2] = p.other /\ (b[1] * Radix) + b[2] = AddrWord[p.src]
      /\ (c[1] * Radix) + c[2] = AddrWord[p.dest] /\ (d[1] * Radix) + d[2] = p.chksum
  BY WordSeq DEF IsHead
<1>3. data = a \o b \o c \o d
  BY DEF HeadBytes
<1> HIDE DEF a, b, c, d, data
<1> DEFINE ab == a \o b
           abc == ab \o c
<1>4. /\ ab \in Seq(Digit) /\ Len(ab) = Len(a) + 2 /\ \A i \in 1 .. Len(a) : ab[i] = a[i]
       /\ ab[Len(a) + 1] = b[1] /\ ab[Len(a) + 2] = b[2]
  BY <1>1, Joined
<1> HIDE DEF ab
<1>5. ab \in Seq(Digit) /\ Len(ab) = 4
  BY <1>1, <1>4
<1>6. c \in Seq(Digit) /\ Len(c) = 2
  BY <1>1
<1>7. d \in Seq(Digit) /\ Len(d) = 2
  BY <1>1
<1>8. /\ abc \in Seq(Digit) /\ Len(abc) = Len(ab) + 2 /\ \A i \in 1 .. Len(ab) : abc[i] = ab[i]
       /\ abc[Len(ab) + 1] = c[1] /\ abc[Len(ab) + 2] = c[2]
  BY <1>4, <1>6, Joined
<1> HIDE DEF abc
<1>9. data = abc \o d
  BY <1>3 DEF abc, ab
<1>10. abc \in Seq(Digit) /\ Len(abc) = 6
  BY <1>5, <1>8
<1>11. /\ data \in Seq(Digit) /\ Len(data) = Len(abc) + 2 /\ \A i \in 1 .. Len(abc) : data[i] = abc[i]
       /\ data[Len(abc) + 1] = d[1] /\ data[Len(abc) + 2] = d[2]
  BY <1>8, <1>7, <1>9, Joined
<1>12. /\ data \in Seq(Digit) /\ Len(data) = 8
      /\ data[1] = a[1] /\ data[2] = a[2] /\ data[3] = b[1] /\ data[4] = b[2]
      /\ data[5] = c[1] /\ data[6] = c[2] /\ data[7] = d[1] /\ data[8] = d[2]
  BY <1>1, <1>4, <1>5, <1>8, <1>10, <1>11
<1>13. /\ WordOf(data, 1) = (data[1] * Radix) + data[2] /\ WordOf(data, 2) = (data[3] * Radix) + data[4]
      /\ WordOf(data, 3) = (data[5] * Radix) + data[6] /\ WordOf(data, 4) = (data[7] * Radix) + data[8]
  BY <1>12 DEF WordOf
<1>14. /\ WordOf(data, 1) = p.other /\ WordOf(data, 2) = AddrWord[p.src]
      /\ WordOf(data, 3) = AddrWord[p.dest] /\ WordOf(data, 4) = p.chksum
  BY <1>2, <1>12, <1>13
<1>15. Words(data) = 4
  BY <1>12 DEF Words
<1>16. PICK t : TotalChain(t, 4, data) /\ Total(data) = t[4]
  BY <1>12, <1>15, TotalByChain
<1>17. /\ t[1] = t[0] + WordOf(data, 1) /\ t[2] = t[1] + WordOf(data, 2)
       /\ t[3] = t[2] + WordOf(data, 3) /\ t[4] = t[3] + WordOf(data, 4) /\ t[0] = 0
  BY <1>16 DEF TotalChain
<1>18. Total(data) = HeadSum(p)
  BY <1>14, <1>16, <1>17, WordSizes DEF Word, IsHead, HeadSum
<1> QED
  BY <1>12, <1>18 DEF data

(* A header whose field was computed over it with the field 0 sums to zero.  *)
LEMMA FieldVerifies ==
    ASSUME NEW p, NEW z, IsHead(z), z.chksum = 0,
           p.other = z.other, p.src = z.src, p.dest = z.dest,
           p.chksum = ChksumField(0, HeadBytes(z))
    PROVE  SumsToZero(HeadBytes(p))
<1> DEFINE c == Chksum(0, HeadBytes(z))
<1>1. HeadBytes(z) \in Seq(Digit) /\ Total(HeadBytes(z)) = HeadSum(z)
  BY HeadTotal
<1>2. c \in Word
  BY <1>1, ChksumOfTotal
<1>3. PICK q \in Nat : HeadSum(z) = c + q * N
  BY <1>1, ChksumOfTotal
<1>4. p.chksum = N - NonZero(c)
  BY DEF ChksumField, N
<1> HIDE DEF c
<1>5. c \in Nat /\ c <= N /\ N \in Nat /\ N > 2
  BY <1>2, WordSizes DEF Word, N
<1>6. p.chksum \in Word /\ p.chksum \in {N - c, 0} /\ (p.chksum = 0 => c \in {0, N})
  BY <1>4, <1>5 DEF NonZero, Word, N
<1>7. IsHead(p)
  BY <1>6 DEF IsHead
<1>8. HeadBytes(p) \in Seq(Digit) /\ Total(HeadBytes(p)) = HeadSum(p)
  BY <1>7, HeadTotal
<1>9. HeadSum(p) = HeadSum(z) + p.chksum
  BY <1>6, WordSizes DEF IsHead, HeadSum, Word
<1>10. \E x \in {0, N} : HeadSum(p) = x + q * N
  <2>1. q * N \in Nat
    BY <1>5
  <2> QED
    BY <1>3, <1>5, <1>6, <1>9, <2>1
<1>11. PICK x \in {0, N} : HeadSum(p) = x + q * N
  BY <1>10
<1>12. (x + q * N) % N = 0
  <2>1. x \in 0 .. N /\ N > 0
    BY <1>5
  <2> QED
    BY <1>5, <2>1, ModTurns
<1> QED
  BY <1>8, <1>11, <1>12 DEF SumsToZero, N

(* The check sees the addresses as a sum.                                    *)
LEMMA SameSum ==
    ASSUME NEW p, NEW r, IsHead(p), IsHead(r), HeadSum(p) = HeadSum(r)
    PROVE  SumsToZero(HeadBytes(p)) <=> SumsToZero(HeadBytes(r))
BY HeadTotal DEF SumsToZero

(* The adjusted ICMP checksum of an echo whose type goes from Echo to 0.     *)
LEMMA PlusChksumSum ==
    ASSUME NEW c \in Word, NEW x \in Digit
    PROVE  PlusChksum(c, x) \in Word /\ PlusChksum(c, x) \in {c + x, c + x - N}
<1> DEFINE M == WordMod
<1>1. M \in Nat /\ M > 3 /\ c \in 0 .. M - 1 /\ x \in 0 .. M - 1
  BY WordSizes DEF Word
<1> HIDE DEF M
<1>2. PlusChksum(c, x) = IF c >= M - 1 - x THEN (c + x + 1) % M ELSE c + x
  BY DEF PlusChksum, M
<1>3. c >= M - 1 - x => (c + x + 1) % M = c + x + 1 - M
  <2>1. ASSUME c >= M - 1 - x PROVE (c + x + 1) % M = c + x + 1 - M
    <3>1. c + x + 1 \in M .. 2 * M - 1
      BY <1>1, <2>1
    <3> DEFINE y == c + x + 1
    <3> HIDE DEF y
    <3>2. y \in M .. 2 * M - 1 => y % M = y - M
      BY <1>1
    <3> QED
      BY <1>1, <3>1, <3>2 DEF y
  <2> QED
    BY <2>1
<1> QED
  BY <1>1, <1>2, <1>3 DEF N, Word, M

LEMMA ModDrop ==
    ASSUME NEW M \in Nat, M > 0, NEW y \in Nat
    PROVE  (y + M) % M = y % M
<1> DEFINE k == y \div M
           s == y % M
<1>1. k \in Int /\ s \in 0 .. M - 1 /\ y = k * M + s
  OBVIOUS
<1>2. y + M = (k + 1) * M + s /\ k + 1 \in Int
  <2> HIDE DEF k, s
  <2> QED
    BY <1>1
<1> HIDE DEF k
<1>3. (y + M) % M = s
  <2> HIDE DEF s
  <2> QED
    BY <1>1, <1>2, ModUnique
<1> QED
  BY <1>3

LEMMA EchoSum ==
    ASSUME NEW p, p.type \in Digit, p.icmpchksum \in Word, p.rest \in Word, IcmpSumsToZero(p),
           NEW r, r.type = 0, r.rest = p.rest, r.icmpchksum = PlusChksum(p.icmpchksum, p.type)
    PROVE  IcmpSumsToZero(r)
<1> DEFINE a == p.type + p.icmpchksum + p.rest
           b == r.type + r.icmpchksum + r.rest
<1>1. N \in Nat /\ N > 2 /\ p.type \in Nat /\ p.icmpchksum \in Nat /\ p.rest \in Nat
  BY WordSizes DEF Word, Digit
<1>2. r.icmpchksum \in Word
      /\ r.icmpchksum \in {p.icmpchksum + p.type, p.icmpchksum + p.type - N}
  BY PlusChksumSum
<1>3. a \in Nat /\ b \in Nat /\ (a = b \/ a = b + N)
  BY <1>1, <1>2, WordSizes DEF Word
<1>4. a % N = 0
  BY DEF IcmpSumsToZero, N
<1> HIDE DEF a, b
<1>5. b % N = 0
  <2>1. CASE a = b
    BY <1>4, <2>1
  <2>2. CASE a = b + N
    <3>1. (b + N) % N = b % N
      <4>1. N \in Nat /\ N > 0 /\ b \in Nat
        BY <1>1, <1>3
      <4> QED
        BY <4>1, ModDrop
    <3> QED
      BY <1>4, <2>2, <3>1
  <2> QED
    BY <1>3, <2>1, <2>2
<1> QED
  BY <1>5 DEF b, IcmpSumsToZero, N

-----------------------------------------------------------------------------
(* The choice of a local port *)

PortRange == PortInit .. PortLimit - 1 \cup PortFirst .. PortLimit - 1

UdpConn == [lport : Port \cup {NoPort}, rport : Port \cup {NoPort}, ripaddr : IpAddr]

TypesRight ==
    /\ hostaddr \in IpAddr
    /\ udpConns \in [Conns -> UdpConn]
    /\ lastport \in PortRange
    /\ ipid \in 0 .. IdMod - 1

\* port is the recursive function inside UnusedPort.
PortChain(port) ==
    /\ port[0] = lastport
    /\ \A k \in 1 .. UdpConns + 1 : port[k] = Following(port[k - 1])

Tried(port) == {k \in 1 .. UdpConns + 1 : port[k] \notin LocalPorts}

LEMMA PortSizes ==
    /\ PortInit \in Nat /\ PortFirst \in Nat /\ PortLimit \in Nat /\ UdpConns \in Nat
    /\ PortInit < PortLimit /\ PortLimit - PortFirst > UdpConns /\ UdpConns > 0
  BY IpAssumption

LEMMA FollowingInRange ==
    ASSUME NEW q \in PortRange
    PROVE  Following(q) \in PortRange
BY PortSizes DEF PortRange, Following

LEMMA PortByChain ==
    ASSUME lastport \in PortRange
    PROVE  \E port : PortChain(port) /\ UnusedPort = port[Least(Tried(port))]
<1> DEFINE n == UdpConns + 1
           step == [i \in Nat |-> [q \in PortRange |-> Following(q)]]
           F == CHOOSE f : f = [k \in 0 .. n |-> IF k = 0 THEN lastport ELSE Following(f[k - 1])]
<1>1. n \in Nat
  BY PortSizes
<1>2. UnusedPort = F[Least(Tried(F))]
  BY DEF UnusedPort, Tried
<1> HIDE DEF n
<1>3. step \in [Nat -> [PortRange -> PortRange]]
  BY FollowingInRange
<1>4. PICK h : IsChain(h, n, PortRange, lastport, step)
  <2> HIDE DEF step
  <2> QED
    BY <1>1, <1>3, ChainExists
<1>5. h = [k \in 0 .. n |-> IF k = 0 THEN lastport ELSE Following(h[k - 1])]
  <2>1. ASSUME NEW k \in 1 .. n PROVE h[k] = Following(h[k - 1])
    <3>1. h[k - 1] \in PortRange /\ h[k] = step[k][h[k - 1]]
      <4>1. k - 1 \in 0 .. n
        BY <1>1
      <4> HIDE DEF step
      <4> QED
        BY <1>4, <4>1 DEF IsChain
    <3> QED
      BY <1>1, <3>1
  <2> QED
    BY <1>1, <1>4, <2>1 DEF IsChain
<1>6. F = [k \in 0 .. n |-> IF k = 0 THEN lastport ELSE Following(F[k - 1])]
  BY <1>5
<1> HIDE DEF F
<1>7. PortChain(F)
  <2>1. \A k \in 0 .. n : F[k] = IF k = 0 THEN lastport ELSE Following(F[k - 1])
    BY <1>6
  <2> QED
    BY <1>1, <2>1 DEF PortChain, n
<1> QED
  BY <1>2, <1>7

(* The ports tried are distinct: lastport wraps at most once among them.     *)
LEMMA PortsTried ==
    ASSUME lastport \in PortRange, NEW port, PortChain(port)
    PROVE  /\ \A k \in 1 .. UdpConns + 1 : port[k] \in PortRange
           /\ \A j, k \in 1 .. UdpConns + 1 : port[j] = port[k] => j = k
<1> DEFINE n == UdpConns + 1
           At(k) == IF lastport + k < PortLimit THEN lastport + k ELSE PortFirst + lastport + k - PortLimit
           G == {k \in Nat : k <= n => port[k] = At(k)}
<1>1. n \in Nat /\ lastport \in Nat /\ lastport < PortLimit /\ n <= PortLimit - PortFirst
  BY PortSizes DEF PortRange
<1>2. 0 \in G
  BY <1>1, PortSizes DEF PortChain
<1>3. ASSUME NEW k \in Nat, k \in G PROVE k + 1 \in G
  <2>1. CASE k + 1 <= n
    <3>1. k + 1 \in 1 .. n /\ k + 1 - 1 = k /\ port[k] = At(k)
      BY <1>1, <1>3, <2>1
    <3>2. port[k + 1] = Following(At(k))
      BY <3>1 DEF PortChain
    <3> QED
      BY <1>1, <2>1, <3>2, PortSizes DEF Following
  <2>2. CASE ~(k + 1 <= n)
    BY <2>2
  <2> QED
    BY <2>1, <2>2
<1>4. \A k \in Nat : k \in G
  <2> HIDE DEF G
  <2> QED
    BY <1>2, <1>3, Induction
<1>5. \A k \in 1 .. n : port[k] = At(k)
  BY <1>1, <1>4
<1>6. ASSUME NEW k \in 1 .. n PROVE At(k) \in PortRange
  BY <1>1, PortSizes DEF PortRange
<1>7. ASSUME NEW j \in 1 .. n, NEW k \in 1 .. n, At(j) = At(k) PROVE j = k
  BY <1>1, <1>7, PortSizes
<1> QED
  BY <1>5, <1>6, <1>7

LEMMA UnusedPortUnused ==
    ASSUME TypesRight
    PROVE  UnusedPort \in PortRange \ LocalPorts
<1> DEFINE K == 1 .. UdpConns + 1
<1>1. PICK port : PortChain(port) /\ UnusedPort = port[Least(Tried(port))]
  BY PortByChain DEF TypesRight
<1>2. /\ \A k \in K : port[k] \in PortRange
      /\ \A j, k \in K : port[j] = port[k] => j = k
  BY <1>1, PortsTried DEF TypesRight
<1>3. Tried(port) /= {}
  <2> SUFFICES ASSUME Tried(port) = {} PROVE FALSE
    OBVIOUS
  <2>1. \A k \in K : \E c \in Conns : udpConns[c].lport = port[k]
    BY DEF Tried, LocalPorts
  <2> DEFINE g == [k \in K |-> CHOOSE c \in Conns : udpConns[c].lport = port[k]]
  <2>2. \A k \in K : g[k] \in Conns /\ udpConns[g[k]].lport = port[k]
    BY <2>1
  <2>3. g \in [K -> Conns]
    BY <2>2
  <2> HIDE DEF g
  <2>4. /\ IsFiniteSet(K) /\ Cardinality(K) = UdpConns + 1
        /\ IsFiniteSet(Conns) /\ Cardinality(Conns) = UdpConns
    BY PortSizes, FS_Interval DEF Conns
  <2>5. Cardinality(Conns) < Cardinality(K)
    BY <2>4, PortSizes
  <2> HIDE DEF K
  <2>6. \E j, k \in K : j /= k /\ g[j] = g[k]
    BY <2>3, <2>4, <2>5, FS_PigeonHole
  <2> QED
    BY <1>2, <2>2, <2>6
<1>4. Least(Tried(port)) \in Tried(port)
  BY <1>3, Minimum DEF Tried
<1> QED
  BY <1>1, <1>2, <1>4 DEF Tried

-----------------------------------------------------------------------------
(* The invariant *)

IpInv == TypesRight /\ PortsDistinct /\ TakenRightly /\ SentVerifies

LEMMA NothingSaid ==
    ASSUME last.outcome \in {"none"}
    PROVE  TakenRightly /\ SentVerifies
BY DEF TakenRightly, TakenIsWhole, TakenIsOurs, Taken, SentVerifies, EchoVerifies, DatagramVerifies

LEMMA IpStarts ==
    ASSUME IpInit
    PROVE  IpInv
<1>1. TypesRight
  BY IpAssumption DEF IpInit, TypesRight, Unbound, UdpConn, PortRange
<1>2. PortsDistinct
  BY DEF IpInit, PortsDistinct, Unbound
<1>3. TakenRightly /\ SentVerifies
  BY NothingSaid DEF IpInit, NoCall
<1> QED
  BY <1>1, <1>2, <1>3 DEF IpInv

LEMMA PacketHead ==
    ASSUME NEW p \in Packets
    PROVE  IsHead(p) /\ HeadBytes(p) \in Seq(Digit)
<1>1. IsHead(p)
  BY IpAssumption DEF IpPacket, IsHead
<1> QED
  BY <1>1, HeadTotal

(* A packet's fields, as far as TakenRightly speaks of them.                 *)
LEMMA InputTakes ==
    ASSUME NEW p \in Packets, NEW n \in Frames, Input(p, n)
    PROVE  TakenRightly'
<1>1. p \in IpPacket /\ n \in Nat /\ UdpHead \in Nat /\ p.length \in Word
  BY IpAssumption DEF IpPacket
<1>2. /\ last'.packet = p /\ last'.received = n /\ UNCHANGED <<hostaddr, udpConns>>
      /\ last'.outcome \in {"tcp", "udp", "echo", "drop"}
      /\ last'.outcome /= "drop" => Accepted(p, n)
      /\ last'.outcome = "drop" => ~Accepted(p, n) \/ NoTaker(p)
      /\ last'.outcome = "udp" => last'.datalen = (p.length - UdpHead) % WordMod
  BY DEF Input, TcpInput, UdpInput, EchoInput, Drop, Outcome, UdpAppCall
<1>3. p.length < Radix => p.length % Radix = p.length
  BY <1>1, WordSizes DEF Word
<1>4. p.length >= UdpHead => (p.length - UdpHead) % WordMod = p.length - UdpHead
  BY <1>1, WordSizes DEF Word
<1>5. p.length % Radix <= p.length
  BY <1>1, WordSizes DEF Word
<1>6. p.length \in Int /\ p.length % Radix \in Int
  BY <1>1, WordSizes DEF Word
<1>7. Verifies(0, HeadBytes(p)) <=> SumsToZero(HeadBytes(p))
  BY PacketHead, VerifiesSumsToZero
<1>8. TakenIsWhole'
  <2>1. Accepted(p, n) /\ p.length < Radix => p.length <= n
    BY <1>3 DEF Accepted, HeaderOk
  <2>2. Accepted(p, n) /\ p.length < Radix /\ last'.outcome = "udp" /\ p.length >= UdpHead
           => last'.datalen + UdpHead <= n
    <3>1. p.length - UdpHead + UdpHead = p.length
      BY <1>1, <1>6
    <3> QED
      BY <1>2, <1>4, <2>1, <3>1
  <2> QED
    BY <1>2, <2>1, <2>2 DEF TakenIsWhole, Taken
<1>9. TakenIsOurs'
  <2>1. Accepted(p, n) => Ours(p)
    BY <1>7 DEF Accepted, HeaderOk, ForUs, Ours
  <2>2. p.length <= n /\ Ours(p) => Accepted(p, n)
    <3>1. p.length <= n => p.length % Radix <= n
      BY <1>1, <1>5, <1>6
    <3> QED
      BY <1>7, <3>1 DEF Accepted, HeaderOk, ForUs, Ours
  <2>3. Ours(p)' = Ours(p) /\ NoTaker(p)' = NoTaker(p)
    BY <1>2 DEF Ours, NoTaker, Fits
  <2>4. Taken' => Ours(p)'
    BY <1>2, <2>1, <2>3 DEF Taken
  <2>5. last'.outcome = "drop" /\ p.length <= n /\ Ours(p)' => NoTaker(p)'
    BY <1>2, <2>2, <2>3
  <2> QED
    BY <1>2, <2>4, <2>5 DEF TakenIsOurs
<1> QED
  BY <1>8, <1>9 DEF TakenRightly

LEMMA DatagramSums ==
    ASSUME TypesRight, ipid' \in Word, NEW c \in Conns, NEW slen
    PROVE  SumsToZero(HeadBytes(UdpPacket(c, slen)))
<1> DEFINE u == udpConns[c]
           z == [vhlOk |-> TRUE, length |-> slen + UdpHead, fragment |-> FALSE, proto |-> "udp",
                 src |-> hostaddr, dest |-> u.ripaddr, sport |-> u.lport, dport |-> u.rport,
                 other |-> ipid', chksum |-> 0]
           p == UdpPacket(c, slen)
<1>1. IsHead(z)
  BY IpAssumption, WordSizes DEF IsHead, TypesRight, UdpConn, Word
<1>2. p = [z EXCEPT !.chksum = ChksumField(0, HeadBytes(z))]
  BY DEF UdpPacket
<1>3. /\ z.chksum = 0 /\ p.other = z.other /\ p.src = z.src /\ p.dest = z.dest
      /\ p.chksum = ChksumField(0, HeadBytes(z))
  BY <1>2
<1> HIDE DEF z, p
<1>4. SumsToZero(HeadBytes(p))
  BY <1>1, <1>3, FieldVerifies
<1> QED
  BY <1>4 DEF p

LEMMA InputAnswers ==
    ASSUME TypesRight, NEW p \in Packets, NEW n \in Frames, Input(p, n)
    PROVE  SentVerifies'
<1>1. p \in IpPacket /\ IsHead(p)
  BY PacketHead, IpAssumption
<1>2. EchoVerifies'
  <2> SUFFICES ASSUME last'.outcome = "echo" PROVE EchoVerifies'
    BY DEF EchoVerifies
  <2>1. /\ Accepted(p, n) /\ p.type = Echo /\ last'.packet = p /\ last'.sent = EchoReply(p)
        /\ hostaddr' = hostaddr
    BY DEF Input, TcpInput, UdpInput, EchoInput, NoTaker, Drop, Outcome, UdpAppCall
  <2> DEFINE r == EchoReply(p)
  <2>2. /\ r.type = 0 /\ r.dest = p.src /\ r.src = hostaddr /\ r.rest = p.rest
        /\ r.other = p.other /\ r.chksum = p.chksum
        /\ r.icmpchksum = PlusChksum(p.icmpchksum, p.type)
    BY <1>1, <2>1 DEF EchoReply, IpPacket
  <2> HIDE DEF r
  <2>3. IcmpSumsToZero(p) => IcmpSumsToZero(r)
    <3>1. p.type \in Digit /\ p.icmpchksum \in Word /\ p.rest \in Word
      BY <1>1 DEF IpPacket
    <3> QED
      BY <2>2, <3>1, EchoSum
  <2>4. hostaddr /= Zeroes => SumsToZero(HeadBytes(r))
    <3> SUFFICES ASSUME hostaddr /= Zeroes PROVE SumsToZero(HeadBytes(r))
      OBVIOUS
    <3>1. r.src = p.dest
      BY <2>1, <2>2 DEF Accepted, ForUs
    <3>2. IsHead(r)
      BY <1>1, <2>2, <3>1 DEF IsHead
    <3>3. HeadSum(r) = HeadSum(p)
      BY <1>1, <2>2, <3>1, WordSizes DEF IsHead, HeadSum, Word
    <3>4. SumsToZero(HeadBytes(p))
      BY <2>1, PacketHead, VerifiesSumsToZero DEF Accepted
    <3> QED
      BY <1>1, <3>2, <3>3, <3>4, SameSum
  <2> QED
    BY <2>1, <2>3, <2>4 DEF EchoVerifies, r
<1>3. DatagramVerifies'
  <2> SUFFICES ASSUME last'.outcome \in {"udp", "poll"}, "sent" \in DOMAIN last'
               PROVE  DatagramVerifies'
    BY DEF DatagramVerifies
  <2> DEFINE c == Least(Fits(p))
  <2>1. UdpInput(p, n) /\ udpConns' = udpConns
    BY DEF Input, TcpInput, EchoInput, NoTaker, Drop, Outcome
  <2>2. c \in Fits(p)
    <3>1. Fits(p) /= {} /\ Fits(p) \subseteq Nat
      BY <2>1, PortSizes DEF UdpInput, Fits, Conns
    <3> QED
      BY <3>1, Minimum
  <2>3. PICK slen \in DataLens :
          /\ ipid' = (ipid + 1) % IdMod /\ last'.packet = p /\ last'.conn = c
          /\ last'.sent = UdpPacket(c, slen)
    BY <2>1 DEF UdpInput, UdpAppCall
  <2>4. ipid' \in Word
    BY <2>3, IpAssumption, WordSizes DEF TypesRight, Word
  <2>5. SumsToZero(HeadBytes(last'.sent))
    BY <2>2, <2>3, <2>4, DatagramSums DEF Fits
  <2>6. last'.sent.sport = udpConns[c].lport /\ last'.sent.dest = udpConns[c].ripaddr
    BY <2>3 DEF UdpPacket
  <2> HIDE DEF c
  <2>7. c \in Conns /\ udpConns[c].lport /= NoPort /\ udpConns[c].ripaddr \in {Zeroes, AllOnes, p.src}
    BY <2>2 DEF Fits
  <2> QED
    BY <2>1, <2>3, <2>5, <2>6, <2>7 DEF DatagramVerifies, LocalPorts
<1> QED
  BY <1>2, <1>3 DEF SentVerifies

LEMMA IpStep ==
    ASSUME IpInv, IpNext
    PROVE  IpInv'
<1>1. ASSUME NEW p \in Packets, NEW n \in Frames, Input(p, n) PROVE IpInv'
  <2>1. ipid' \in {ipid, (ipid + 1) % IdMod} /\ UNCHANGED <<hostaddr, udpConns, lastport>>
    BY <1>1 DEF Input, TcpInput, UdpInput, EchoInput, Drop, UdpAppCall
  <2>2. TypesRight' /\ PortsDistinct'
    BY <2>1, IpAssumption DEF IpInv, TypesRight, PortsDistinct
  <2> QED
    BY <1>1, <2>2, InputTakes, InputAnswers DEF IpInv
<1>2. CASE UdpTimer
  <2>1. PICK c \in Conns, slen \in DataLens :
          /\ udpConns[c].lport /= NoPort /\ ipid' = (ipid + 1) % IdMod
          /\ last' = [outcome |-> "poll", sent |-> UdpPacket(c, slen)]
    BY <1>2 DEF UdpTimer
  <2>2. UNCHANGED <<hostaddr, udpConns, lastport>>
    BY <1>2 DEF UdpTimer
  <2>3. ipid' \in Word /\ TypesRight' /\ PortsDistinct'
    BY <2>1, <2>2, IpAssumption, WordSizes DEF IpInv, TypesRight, PortsDistinct, Word
  <2>4. SumsToZero(HeadBytes(last'.sent)) /\ last'.sent.sport \in LocalPorts'
    BY <2>1, <2>2, <2>3, DatagramSums DEF IpInv, UdpPacket, LocalPorts
  <2>5. last'.outcome = "poll"
    BY <2>1
  <2> QED
    BY <2>3, <2>4, <2>5
    DEF IpInv, TakenRightly, TakenIsWhole, TakenIsOurs, Taken, SentVerifies, EchoVerifies, DatagramVerifies
<1>3. CASE CallerSends
  <2>1. TypesRight' /\ PortsDistinct'
    BY <1>3 DEF CallerSends, IpInv, TypesRight, PortsDistinct
  <2>2. last'.outcome = "none"
    BY <1>3 DEF CallerSends, NoCall
  <2> QED
    BY <2>1, <2>2
    DEF IpInv, TakenRightly, TakenIsWhole, TakenIsOurs, Taken, SentVerifies, EchoVerifies, DatagramVerifies
<1>4. ASSUME NEW remote \in Remotes, UdpNew(remote) PROVE IpInv'
  <2> DEFINE free == {c \in Conns : udpConns[c].lport = NoPort}
             q == UnusedPort
  <2>1. q \in PortRange \ LocalPorts
    BY UnusedPortUnused DEF IpInv
  <2>2. /\ lastport' = q /\ UNCHANGED <<hostaddr, ipid>>
        /\ udpConns' = IF free = {} THEN udpConns
                       ELSE [udpConns EXCEPT ![Least(free)] =
                               [lport |-> q, rport |-> remote.rport, ripaddr |-> remote.ripaddr]]
    BY <1>4 DEF UdpNew
  <2>3. free /= {} => Least(free) \in Conns
    BY Minimum, PortSizes DEF Conns
  <2> HIDE DEF free, q
  <2>4. TypesRight'
    BY <2>1, <2>2, <2>3, IpAssumption DEF IpInv, TypesRight, UdpConn, PortRange
  <2>5. PortsDistinct'
    <3>1. CASE free = {}
      BY <2>2, <3>1 DEF IpInv, PortsDistinct
    <3>2. CASE free /= {}
      <4>1. \A c \in Conns : udpConns[c].lport /= q
        <5>1. q /= NoPort
          BY <2>1, IpAssumption DEF PortRange
        <5> QED
          BY <2>1, <5>1 DEF LocalPorts
      <4>2. /\ udpConns'[Least(free)].lport = q
            /\ \A c \in Conns : c /= Least(free) => udpConns'[c] = udpConns[c]
        BY <2>2, <2>3, <3>2 DEF IpInv, TypesRight
      <4> QED
        BY <4>1, <4>2 DEF IpInv, PortsDistinct
    <3> QED
      BY <3>1, <3>2
  <2>6. TakenRightly' /\ SentVerifies'
    <3>1. last'.outcome = "none"
      BY <1>4 DEF UdpNew, NoCall
    <3> QED
      BY <3>1
      DEF TakenRightly, TakenIsWhole, TakenIsOurs, Taken, SentVerifies, EchoVerifies, DatagramVerifies
  <2> QED
    BY <2>4, <2>5, <2>6 DEF IpInv
<1>5. ASSUME NEW q \in BindPorts \cup {NoPort}, UdpSetPort(q) PROVE IpInv'
  <2>1. PICK c \in Conns : udpConns' = [udpConns EXCEPT ![c].lport = q]
    BY <1>5 DEF UdpSetPort
  <2>2. q \in Port \cup {NoPort}
    BY IpAssumption
  <2>3. /\ udpConns'[c] = [udpConns[c] EXCEPT !.lport = q]
        /\ \A d \in Conns : d /= c => udpConns'[d] = udpConns[d]
    BY <2>1 DEF IpInv, TypesRight
  <2>4. TypesRight'
    BY <1>5, <2>1, <2>2 DEF UdpSetPort, IpInv, TypesRight, UdpConn
  <2>5. udpConns'[c].lport = q
    BY <2>1, <2>3 DEF IpInv, TypesRight, UdpConn
  <2>6. PortsDistinct'
    BY <2>3, <2>5 DEF IpInv, PortsDistinct
  <2>7. TakenRightly' /\ SentVerifies'
    <3>1. last'.outcome = "none"
      BY <1>5 DEF UdpSetPort, NoCall
    <3> QED
      BY <3>1
      DEF TakenRightly, TakenIsWhole, TakenIsOurs, Taken, SentVerifies, EchoVerifies, DatagramVerifies
  <2> QED
    BY <2>4, <2>6, <2>7 DEF IpInv
<1>6. ASSUME NEW a \in HostAddrs, SetHostAddr(a) PROVE IpInv'
  <2>1. TypesRight' /\ PortsDistinct'
    BY <1>6, IpAssumption DEF SetHostAddr, IpInv, TypesRight, PortsDistinct
  <2>2. last'.outcome = "none"
    BY <1>6 DEF SetHostAddr, NoCall
  <2> QED
    BY <2>1, <2>2
    DEF IpInv, TakenRightly, TakenIsWhole, TakenIsOurs, Taken, SentVerifies, EchoVerifies, DatagramVerifies
<1> QED
  BY <1>1, <1>2, <1>3, <1>4, <1>5, <1>6 DEF IpNext

LEMMA IpInvariant == IpSpec => []IpInv
<1>1. IpInv /\ UNCHANGED ipVars => IpInv'
  BY DEF ipVars, IpInv, TypesRight, PortsDistinct, TakenRightly, TakenIsWhole, TakenIsOurs, Taken,
         Ours, NoTaker, Fits, SentVerifies, EchoVerifies, DatagramVerifies, LocalPorts
<1>2. IpInv /\ [IpNext]_ipVars => IpInv'
  BY <1>1, IpStep
<1> QED
  BY <1>2, IpStarts, PTL DEF IpSpec

(* What IP input hands to TCP, UDP or ICMP is for this host and arrived      *)
(* whole - lengths that take two bytes apart - and of such packets only those *)
(* are left out that have no taker.                                          *)
THEOREM IpTaken == IpSpec => []TakenRightly
<1>1. IpInv => TakenRightly
  BY DEF IpInv
<1> QED
  BY <1>1, IpInvariant, PTL

(* Every echo and every datagram passes the receiver's checks of sums, and   *)
(* an answer goes to the peer that asked.                                    *)
THEOREM IpSent == IpSpec => []SentVerifies
<1>1. IpInv => SentVerifies
  BY DEF IpInv
<1> QED
  BY <1>1, IpInvariant, PTL

(* uip_udp_new never gives out a port in use, for any number of connections  *)
(* that the range of ports can hold.                                         *)
THEOREM IpPorts == IpSpec => []PortsDistinct
<1>1. IpInv => PortsDistinct
  BY DEF IpInv
<1> QED
  BY <1>1, IpInvariant, PTL

=============================================================================
